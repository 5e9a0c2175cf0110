------------------------------ MODULE DcPicks ------------------------------
(***************************************************************************)
(* The DcServer process with a history of the picks of CollectWorkProc.    *)
(* The history only watches: every behaviour of DcServer has one.          *)
(***************************************************************************)
EXTENDS DcServer

VARIABLE recent \* nodes picked since the table last changed, at most one round

pickVars == <<vars, recent>>

Names(s) == [i \in DOMAIN s |-> s[i].node]

\* The last n entries of s.
LastOf(s, n) == IF Len(s) <= n THEN s ELSE SubSeq(s, Len(s) - n + 1, Len(s))

Picking(t) == task[t].pc = "pick" /\ task'[t].pc = "rpc"

Record ==
  recent' = IF Names(m_node_vec') # Names(m_node_vec) THEN <<>>
            ELSE IF \E t \in Tasks : Picking(t)
            THEN LET t == CHOOSE t \in Tasks : Picking(t)
                 IN  LastOf(Append(recent, task'[t].node), Len(m_node_vec))
            ELSE recent

PickInit == Init /\ recent = <<>>
PickNext == Next /\ Record
PickSpec == PickInit /\ [][PickNext]_pickVars

\* Even scheduling (the comment at DcServer.cpp:224): while the table does not
\* change, any round of as many picks as there are nodes serves each node once,
\* however the requests that pick interleave.
EvenDispatch == \A i, j \in DOMAIN recent : recent[i] = recent[j] => i = j
=============================================================================
