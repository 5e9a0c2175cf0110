-------------------------------- MODULE MqUri --------------------------------
(***************************************************************************)
(* The uri that names a broker and a destination, as MqMgr::ParseMqUri     *)
(* reads it and dp::init writes it.  A uri is the sequence of its texts    *)
(* between slashes: mq/10.0.0.1:61618/queue/a/b is                         *)
(* <<"mq", "10.0.0.1:61618", "queue", "a", "b">>.                          *)
(***************************************************************************)
EXTENDS Integers, Sequences

\* find("mq/") also finds a text that only ends in mq.
EndsInMq == {"mq", "amq"}
Modes == {"queue", "topic"}

Destination(svr, mode, dst) == [strMQSvr |-> svr, nType |-> mode, strDstName |-> dst]

\* The first text that is, or ends in, mq and has a slash behind it.
MqAt(uri) ==
  {i \in 1..(Len(uri) - 1) :
     uri[i] \in EndsInMq /\ \A j \in 1..(i - 1) : uri[j] \notin EndsInMq}

\* Mutant: the destination ends at the next slash.
ParseToSlash(uri) ==
  {Destination(uri[i + 1], uri[i + 2], SubSeq(uri, i + 3, i + 3)) :
     i \in {j \in MqAt(uri) : j + 2 < Len(uri) /\ uri[j + 2] \in Modes}}

\* What the uri names; the empty set where ParseMqUri returns false.
ParseMqUri(uri) ==
  {Destination(uri[i + 1], uri[i + 2], SubSeq(uri, i + 3, Len(uri))) :
     i \in {j \in MqAt(uri) :
              /\ j + 2 < Len(uri) /\ uri[j + 2] \in Modes
              /\ SubSeq(uri, j + 3, Len(uri)) # <<"">>}}

\* The form of ParseMqUri's comment, which dp::init writes with mode "queue".
Uri(svr, mode, dst) == <<"mq", svr, mode>> \o dst

\* Whatever the broker and the destination are called, slashes included, their
\* uri is parsed to them, so that different endpoints have different uris and
\* may be told apart by either; without a destination it is refused.
UriNames(Texts, Dsts) ==
  \A svr \in Texts, mode \in Modes, dst \in Dsts :
    ParseMqUri(Uri(svr, mode, dst)) =
      IF dst = <<"">> THEN {} ELSE {Destination(svr, mode, dst)}
==============================================================================
