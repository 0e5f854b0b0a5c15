----------------------------- MODULE MCSession -----------------------------
(* Small instances of Session for TLC. *)
EXTENDS Session

BothVersions == {"1.0.0", "0.0.2-beta"}
OnlyBeta == {"0.0.2-beta"}
PrefersNew == <<"1.0.0", "0.0.2-beta">>

\* "storage" offers one control type, "meter" only NOT_CONTROLABLE.
StorageOrMeter == [storage |-> {"FRBC", "NOT_CONTROLABLE"}, meter |-> {"NOT_CONTROLABLE"}]
OnlyStorage == [storage |-> {"FRBC", "NOT_CONTROLABLE"}]

\* The manager closes on what is out of place, the resource reports it.
CemCloses == [RM |-> "Report", CEM |-> "Close"]

NoPolicy == [RM |-> {}, CEM |-> {}]
RmPolicy == [RM |-> {"TEMPORARY_ERROR", "PERMANENT_ERROR"}, CEM |-> {}]

\* How many messages each application may send, its engine's own among them.
Mint33 == [RM |-> 3, CEM |-> 3]
Mint32 == [RM |-> 3, CEM |-> 2]
Mint22 == [RM |-> 2, CEM |-> 2]
=============================================================================
