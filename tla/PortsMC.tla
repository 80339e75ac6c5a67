------------------------------ MODULE PortsMC ------------------------------
(***************************************************************************)
(* Values of a configuration for TLC: every bare item, and every list of   *)
(* at most two items, over the ports 1 to Top.                             *)
(***************************************************************************)
EXTENDS Ports, SequencesExt

CONSTANT Top

Items == [kind : {"number"}, first : 1..Top, last : {0}]
         \cup [kind : {"range"}, first : 1..Top, last : 1..Top]
         \cup [kind : {"any", "junk"}, first : {0}, last : {0}]

Values == {Missing} \cup [form : {"bare"}, items : [{1} -> Items]]
          \cup [form : {"list"}, items : SeqOf(Items, 2)]
=============================================================================
