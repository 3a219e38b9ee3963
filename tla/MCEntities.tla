----------------------------- MODULE MCEntities -----------------------------
(***************************************************************************)
(* Instance of Entities: a fan register that was 0..1 and became 0..5, two *)
(* write registers that swap topics, shared topics, missing inputs and     *)
(* other files that do not validate.                                       *)
(***************************************************************************)
EXTENDS Entities

Read(name) == [name |-> name, min |-> 0, max |-> 100, ha |-> name = "zuluftumin"]
Write(name, topic, min, max, ha) ==
  [name |-> name, topic |-> topic, min |-> min, max |-> max,
   stateFrom |-> "mode", ha |-> ha]
Derived(name, sources) == [name |-> name, sources |-> sources,
                           ha |-> name = "co2luefterstufe4"]
File(reads, writes, derived) ==
  [reads |-> reads, writes |-> writes, derived |-> derived]

Fans == <<Read("mode"), Read("zuluftumin"), Read("abluftumin")>>
Shades == <<Read("mode"), Read("beschattungtemp"),
            Read("beschattungaussentemp"), Read("aussentemp")>>

MCFiles ==
  { File(Fans, <<Write("fan", "t1", 0, 1, TRUE), Write("rod", "t2", 0, 3, TRUE)>>,
         <<Derived("zuluftabluftprozent", {"zuluftumin", "abluftumin"})>>),
    File(Shades, <<Write("rod", "t1", 0, 1, TRUE), Write("fan", "t2", 0, 5, TRUE)>>,
         <<Derived("beschattungtemp_adjusted",
             {"beschattungtemp", "beschattungaussentemp", "aussentemp"})>>),
    File(<<Read("mode"), Read("co2luefterstufe3")>>,
         <<Write("fan", "t1", 1, 2, FALSE)>>,
         <<Derived("co2luefterstufe4", {"co2luefterstufe3", "mode"})>>),
    File(Fans, <<Write("fan", "t1", 0, 5, TRUE), Write("rod", "t1", 0, 1, TRUE)>>,
         <<>>),
    File(Shades, <<>>,
         <<Derived("beschattungtemp_adjusted",
             {"beschattungtemp", "beschattungaussentemp"})>>),
    File(Fans, <<Write("fan", "t1", 3, 2, TRUE)>>, <<>>) }

\* Of either sign, and with quotients of more than one decimal.
MCReadings == {-7, 0, 13}
=============================================================================
