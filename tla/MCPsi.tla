------------------------------- MODULE MCPsi -------------------------------
(* Two services.  Service 1 is clear, can move from PMT PID 100 to 101, and *)
(* its PCR is in or out of its streams; service 2 is scrambled.            *)
EXTENDS Psi

MCServices == 1..2
MCPids == {100, 101, 200, 110, 111, 112, 113, 210, 211, 220, 500, 501}
MCPmtPids == <<{100, 101}, {200}>>
MCFirstPmtPid == <<100, 200>>

Tv == [type |-> "tv", ca |-> FALSE]
TvCa == [type |-> "tv", ca |-> TRUE]
Data == [type |-> "data", ca |-> FALSE]
MCKinds == <<{Tv, TvCa}, {TvCa, Data}>>
MCFirstKinds == <<Tv, TvCa>>

Kept(pid) == [pid |-> pid, known |-> TRUE]
Dropped(pid) == [pid |-> pid, known |-> FALSE]

MCPmtOf(s, v) ==
    IF s = 1
    THEN IF v % 2 = 0 THEN [streams |-> <<Kept(110), Kept(111)>>, pcr |-> 110, ecm |-> NoPid]
         ELSE [streams |-> <<Dropped(110), Kept(112)>>, pcr |-> 113, ecm |-> NoPid]
    ELSE [streams |-> <<Kept(IF v % 2 = 0 THEN 210 ELSE 211)>>, pcr |-> 210, ecm |-> 220]

\* With more events in the modes with a CAM and with oscam the state space is too large.
MCMaxEvents == [fta |-> 2, cam |-> 2, scam |-> 1]
MCMaxOdd == [fta |-> 2, cam |-> 0, scam |-> 1]
MCChanging == [fta |-> {"pat", "sdt", "cat", "pmt"}, cam |-> {"sdt", "pmt"}, scam |-> {"pat", "sdt", "cat", "pmt"}]

MCEmmOf(v) == IF v % 2 = 0 THEN 500 ELSE 501
=============================================================================
