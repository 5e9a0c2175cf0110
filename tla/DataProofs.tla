----------------------------- MODULE DataProofs -----------------------------
(***************************************************************************)
(* The data of the cluster's modules: what a vector holds after an entry   *)
(* was added or erased, and that what the stubs of module Thrift read is   *)
(* what they wrote, for all values of the arguments and results, also with *)
(* a foreign field in the struct.                                          *)
(***************************************************************************)
EXTENDS Thrift, Vector, TLAPS

-----------------------------------------------------------------------------
(* Vectors *)

\* A sequence is a function on 1..Len(s) ...
LEMMA SeqIsFunction ==
  ASSUME NEW S, NEW s \in Seq(S)
  PROVE  Len(s) \in Nat /\ DOMAIN s = 1..Len(s) /\ s \in [1..Len(s) -> S]
OBVIOUS

\* ... and such a function is a sequence.
LEMMA FunctionIsSeq ==
  ASSUME NEW S, NEW n \in Nat, NEW f \in [1..n -> S]
  PROVE  f \in Seq(S) /\ Len(f) = n
OBVIOUS

\* push_back.
LEMMA AppendAdds ==
  ASSUME NEW S, NEW s \in Seq(S), NEW e \in S
  PROVE  /\ Append(s, e) \in Seq(S)
         /\ DOMAIN Append(s, e) = 1..(Len(s) + 1)
         /\ \A i \in 1..Len(s) : Append(s, e)[i] = s[i]
         /\ Append(s, e)[Len(s) + 1] = e
OBVIOUS

\* A vector that is not empty has a first entry.
LEMMA NotEmpty ==
  ASSUME NEW S, NEW s \in Seq(S), s # <<>>
  PROVE  Len(s) \in Nat \ {0}
OBVIOUS

\* q has the entries of s at the indexes in K, each once.
Restricts(q, s, K) ==
  \E f \in [DOMAIN q -> K] :
    /\ \A i \in DOMAIN q : q[i] = s[f[i]]
    /\ \A i, j \in DOMAIN q : f[i] = f[j] => i = j
    /\ \A k \in K : \E i \in DOMAIN q : f[i] = k

\* What vector::erase leaves: every kept entry of s once, and nothing else.
LEMMA KeepProperties ==
  ASSUME NEW S, NEW s \in Seq(S), NEW K \in SUBSET (DOMAIN s), NEW q \in Keep(s, K)
  PROVE  q \in Seq(S) /\ Restricts(q, s, K)
<1>1. DOMAIN s = 1..Len(s) /\ Len(s) \in Nat /\ s \in [1..Len(s) -> S]
  BY SeqIsFunction
<1>2. PICK n \in 0..Len(s) :
         \E g \in Listings(K, n) : q = [i \in DOMAIN g |-> s[g[i]]]
  BY DEF Keep
<1>a. PICK f \in Listings(K, n) : q = [i \in DOMAIN f |-> s[f[i]]]
  BY <1>2
<1>3. /\ n \in Nat /\ f \in [1..n -> K]
      /\ \A i, j \in 1..n : i < j => f[i] < f[j]
      /\ \A k \in K : \E i \in 1..n : f[i] = k
  BY <1>1, <1>a DEF Listings
<1>4. DOMAIN q = 1..n /\ \A i \in 1..n : q[i] = s[f[i]]
  BY <1>a, <1>3
<1>5. q \in Seq(S)
  <2>1. q \in [1..n -> S]
    BY <1>1, <1>a, <1>3
  <2> QED
    BY <1>3, <2>1, FunctionIsSeq
<1>6. \A i, j \in 1..n : f[i] = f[j] => i = j
  <2> SUFFICES ASSUME NEW i \in 1..n, NEW j \in 1..n, f[i] = f[j], i # j
               PROVE  FALSE
    OBVIOUS
  <2>1. i < j \/ j < i
    BY <1>3
  <2>2. f[i] \in Nat /\ f[j] \in Nat
    BY <1>1, <1>3
  <2> QED
    BY <1>3, <2>1, <2>2
<1>7. f \in [DOMAIN q -> K]
  BY <1>3, <1>4
<1>8. \E g \in [DOMAIN q -> K] :
         /\ \A i \in DOMAIN q : q[i] = s[g[i]]
         /\ \A i, j \in DOMAIN q : g[i] = g[j] => i = j
         /\ \A k \in K : \E i \in DOMAIN q : g[i] = k
  <2> WITNESS f \in [DOMAIN q -> K]
  <2> QED
    BY <1>3, <1>4, <1>6
<1> QED
  BY <1>5, <1>8 DEF Restricts

-----------------------------------------------------------------------------
(* The reading loop *)

\* One field of the body has the id and the type: its value is read.
LEMMA ReadOne ==
  ASSUME NEW body, NEW fid, NEW ftype, NEW default, NEW k \in Int,
         Stored(body, fid, ftype) = {k}
  PROVE  /\ ReadField(body, fid, ftype, default) = body[k].value
         /\ IsSet(body, fid, ftype)
<1>1. (CHOOSE i \in {k} : \A j \in {k} : j <= i) = k
  OBVIOUS
<1>2. {k} # {}
  OBVIOUS
<1> QED
  BY <1>1, <1>2 DEF ReadField, IsSet

\* The same, for every id and type at once.
LEMMA ReadAt ==
  ASSUME NEW body, NEW k \in Int
  PROVE  \A fid, ftype, default : Stored(body, fid, ftype) = {k} =>
            /\ ReadField(body, fid, ftype, default) = body[k].value
            /\ IsSet(body, fid, ftype)
BY ReadOne

\* No field has them: the member keeps its default.
LEMMA ReadNone ==
  ASSUME NEW body
  PROVE  \A fid, ftype, default : Stored(body, fid, ftype) = {} =>
            /\ ReadField(body, fid, ftype, default) = default
            /\ ~IsSet(body, fid, ftype)
BY DEF ReadField, IsSet

\* A struct of one field reads as its value.
One(fid, ftype, v) == <<Field(fid, ftype, v)>>

ReadsAs(body, fid, ftype, v) ==
  \A default : ReadField(body, fid, ftype, default) = v /\ IsSet(body, fid, ftype)

\* The only field of a struct reads as what was written.
LEMMA ReadOnly ==
  \A fid, ftype, v : ReadsAs(One(fid, ftype, v), fid, ftype, v)
<1> SUFFICES ASSUME NEW fid, NEW ftype, NEW v
             PROVE  ReadsAs(One(fid, ftype, v), fid, ftype, v)
  OBVIOUS
<1> DEFINE body == One(fid, ftype, v)
<1>1. Stored(body, fid, ftype) = {1} /\ body[1].value = v
  BY DEF Stored, Field, One
<1>2. 1 \in Int
  OBVIOUS
<1> HIDE DEF body
<1>3. \A x, y, d : Stored(body, x, y) = {1} =>
         ReadField(body, x, y, d) = body[1].value /\ IsSet(body, x, y)
  BY <1>2, ReadAt, Zenon
<1> QED
  BY <1>1, <1>3, Zenon DEF body, ReadsAs

-----------------------------------------------------------------------------
(* ClientInfo and HeartBeatInfo *)

\* A field of an id or a type that the reading loop does not know.
Foreign(f) ==
  /\ ~(f.fid = 1 /\ f.ftype = "T_STRING")
  /\ ~(f.fid = 2 /\ f.ftype = "T_I32")
  /\ ~(f.fid = 3 /\ f.ftype = "T_STRING")

\* The fields of an id or a type of its own are foreign.
LEMMA ForeignKinds ==
  ASSUME NEW v
  PROVE  /\ Foreign(Field(1, "T_I32", v)) /\ Foreign(Field(2, "T_STRING", v))
         /\ Foreign(Field(3, "T_BOOL", v)) /\ Foreign(Field(4, "T_STRING", v))
BY DEF Foreign, Field

\* A body with the members of info at i, j and, if it is there, k, and nothing
\* else that is known.
Holds(body, info, i, j, k) ==
  /\ Stored(body, 1, "T_STRING") = {i} /\ body[i].value = info.Ip
  /\ Stored(body, 2, "T_I32") = {j} /\ body[j].value = info.Port
  /\ Stored(body, 3, "T_STRING") = (IF info.isset_msg THEN {k} ELSE {})
  /\ info.isset_msg => body[k].value = info.msg

\* Such a body reads as info.
LEMMA HoldsReads ==
  ASSUME NEW ip, NEW port, NEW msg, NEW isset \in BOOLEAN, isset \/ msg = "",
         NEW body, NEW i \in Int, NEW j \in Int, NEW k \in Int,
         Holds(body, Info(ip, port, msg, isset), i, j, k)
  PROVE  InfoRead(body) = Info(ip, port, msg, isset)
<1>1. LET info == Info(ip, port, msg, isset)
      IN  info.Ip = ip /\ info.Port = port /\ info.msg = msg /\ info.isset_msg = isset
  BY DEF Info
<1>2. /\ Stored(body, 1, "T_STRING") = {i} /\ body[i].value = ip
      /\ Stored(body, 2, "T_I32") = {j} /\ body[j].value = port
      /\ Stored(body, 3, "T_STRING") = (IF isset THEN {k} ELSE {})
      /\ isset => body[k].value = msg
  BY <1>1, Zenon DEF Holds
<1>3. \A fid, ftype, default : Stored(body, fid, ftype) = {i} =>
         /\ ReadField(body, fid, ftype, default) = body[i].value
         /\ IsSet(body, fid, ftype)
  BY ReadAt, Zenon
<1>4. \A fid, ftype, default : Stored(body, fid, ftype) = {j} =>
         /\ ReadField(body, fid, ftype, default) = body[j].value
         /\ IsSet(body, fid, ftype)
  BY ReadAt, Zenon
<1>5. \A fid, ftype, default : Stored(body, fid, ftype) = {k} =>
         /\ ReadField(body, fid, ftype, default) = body[k].value
         /\ IsSet(body, fid, ftype)
  BY ReadAt, Zenon
<1>6. \A fid, ftype, default : Stored(body, fid, ftype) = {} =>
         /\ ReadField(body, fid, ftype, default) = default
         /\ ~IsSet(body, fid, ftype)
  BY ReadNone, Zenon
<1>7. ReadField(body, 1, "T_STRING", "") = ip
  BY <1>2, <1>3, Zenon
<1>8. ReadField(body, 2, "T_I32", 0) = port
  BY <1>2, <1>4, Zenon
<1>9. ReadField(body, 3, "T_STRING", "") = msg /\ IsSet(body, 3, "T_STRING") = isset
  <2>1. CASE isset
    <3>1. Stored(body, 3, "T_STRING") = {k} /\ body[k].value = msg
      BY <1>2, <2>1, Zenon
    <3>2. ReadField(body, 3, "T_STRING", "") = msg /\ IsSet(body, 3, "T_STRING")
      BY <3>1, <1>5, Zenon
    <3> QED
      BY <3>2, <2>1 DEF IsSet
  <2>2. CASE ~isset
    <3>1. Stored(body, 3, "T_STRING") = {} /\ msg = ""
      BY <1>2, <2>2, Zenon
    <3>2. ReadField(body, 3, "T_STRING", "") = "" /\ ~IsSet(body, 3, "T_STRING")
      BY <3>1, <1>6, Zenon
    <3> QED
      BY <3>1, <3>2, <2>2 DEF IsSet
  <2> QED
    BY <2>1, <2>2
<1> QED
  BY <1>7, <1>8, <1>9, Zenon DEF InfoRead

\* Concatenations of a few fields, written out.
LEMMA Triple ==
  ASSUME NEW S, NEW s \in Seq(S), Len(s) = 3 PROVE s = <<s[1], s[2], s[3]>>
OBVIOUS

\* A sequence of four is its four elements.
LEMMA Quad ==
  ASSUME NEW S, NEW s \in Seq(S), Len(s) = 4 PROVE s = <<s[1], s[2], s[3], s[4]>>
OBVIOUS

\* Two fields with a third one before or behind them.
LEMMA AppendPair ==
  ASSUME NEW a, NEW b, NEW f
  PROVE  /\ <<a, b>> \o <<>> = <<a, b>>
         /\ <<f>> \o <<a, b>> = <<f, a, b>>
         /\ <<a, b>> \o <<f>> = <<a, b, f>>
<1> DEFINE S == {a, b, f}  l == <<f>> \o <<a, b>>  r == <<a, b>> \o <<f>>
<1>1. l \in Seq(S) /\ Len(l) = 3 /\ l[1] = f /\ l[2] = a /\ l[3] = b
  OBVIOUS
<1>2. r \in Seq(S) /\ Len(r) = 3 /\ r[1] = a /\ r[2] = b /\ r[3] = f
  OBVIOUS
<1>3. <<a, b>> \o <<>> = <<a, b>>
  OBVIOUS
<1> HIDE DEF S, l, r
<1> QED
  BY <1>1, <1>2, <1>3, Triple DEF l, r

\* Three fields with a fourth one before or behind them.
LEMMA AppendThree ==
  ASSUME NEW a, NEW b, NEW c, NEW f
  PROVE  /\ <<f>> \o <<a, b, c>> = <<f, a, b, c>>
         /\ <<a, b, c>> \o <<f>> = <<a, b, c, f>>
<1> DEFINE S == {a, b, c, f}  l == <<f>> \o <<a, b, c>>  r == <<a, b, c>> \o <<f>>
<1>1. l \in Seq(S) /\ Len(l) = 4 /\ l[1] = f /\ l[2] = a /\ l[3] = b /\ l[4] = c
  OBVIOUS
<1>2. r \in Seq(S) /\ Len(r) = 4 /\ r[1] = a /\ r[2] = b /\ r[3] = c /\ r[4] = f
  OBVIOUS
<1> HIDE DEF S, l, r
<1> QED
  BY <1>1, <1>2, Quad DEF l, r

\* What is written holds the members, also with a foreign field around it.
LEMMA WrittenHolds ==
  ASSUME NEW ip, NEW port, NEW msg, NEW isset \in BOOLEAN, NEW f, Foreign(f)
  PROVE  LET info == Info(ip, port, msg, isset)
             body == InfoWrite(info)
         IN  /\ Holds(body, info, 1, 2, 3)
             /\ Holds(<<f>> \o body, info, 2, 3, 4)
             /\ Holds(body \o <<f>>, info, 1, 2, 3)
<1> DEFINE info == Info(ip, port, msg, isset)
           a == Field(1, "T_STRING", ip)
           b == Field(2, "T_I32", port)
           c == Field(3, "T_STRING", msg)
<1>1. info.Ip = ip /\ info.Port = port /\ info.msg = msg /\ info.isset_msg = isset
  BY DEF Info
<1>2. CASE isset
  <2>1. InfoWrite(info) = <<a, b>> \o <<c>>
    BY <1>1, <1>2, Zenon DEF InfoWrite
  <2>2. /\ <<a, b>> \o <<c>> = <<a, b, c>>
        /\ <<f>> \o <<a, b, c>> = <<f, a, b, c>>
        /\ <<a, b, c>> \o <<f>> = <<a, b, c, f>>
    BY AppendPair, AppendThree
  <2>3. Holds(<<a, b, c>>, info, 1, 2, 3)
    BY <1>1, <1>2 DEF Holds, Stored, Field
  <2>4. Holds(<<f, a, b, c>>, info, 2, 3, 4)
    BY <1>1, <1>2 DEF Holds, Stored, Field, Foreign
  <2>5. Holds(<<a, b, c, f>>, info, 1, 2, 3)
    BY <1>1, <1>2 DEF Holds, Stored, Field, Foreign
  <2> QED
    BY <2>1, <2>2, <2>3, <2>4, <2>5
<1>3. CASE ~isset
  <2>1. InfoWrite(info) = <<a, b>> \o <<>>
    BY <1>1, <1>3, Zenon DEF InfoWrite
  <2>2. /\ <<a, b>> \o <<>> = <<a, b>>
        /\ <<f>> \o <<a, b>> = <<f, a, b>>
        /\ <<a, b>> \o <<f>> = <<a, b, f>>
    BY AppendPair
  <2>3. Holds(<<a, b>>, info, 1, 2, 3)
    BY <1>1, <1>3 DEF Holds, Stored, Field
  <2>4. Holds(<<f, a, b>>, info, 2, 3, 4)
    BY <1>1, <1>3 DEF Holds, Stored, Field, Foreign
  <2>5. Holds(<<a, b, f>>, info, 1, 2, 3)
    BY <1>1, <1>3 DEF Holds, Stored, Field, Foreign
  <2> QED
    BY <2>1, <2>2, <2>3, <2>4, <2>5
<1> QED
  BY <1>2, <1>3
-----------------------------------------------------------------------------
(* The calls *)

\* The positions of fields are integers.
LEMMA Digits == {1, 2, 3, 4} \subseteq Int
OBVIOUS

\* ClientInfo and HeartBeatInfo survive write and read for all values of the
\* members, also with a field that the reader does not know before or after
\* the others (an unset msg reads as the empty default).
THEOREM InfoSurvives ==
  ASSUME NEW ip, NEW port, NEW msg, NEW isset \in BOOLEAN, isset \/ msg = "",
         NEW f, Foreign(f)
  PROVE  LET info == Info(ip, port, msg, isset)
             body == InfoWrite(info)
         IN  /\ InfoRead(body) = info
             /\ InfoRead(<<f>> \o body) = info
             /\ InfoRead(body \o <<f>>) = info
<1> DEFINE info == Info(ip, port, msg, isset)
           body == InfoWrite(info)
<1>1. /\ Holds(body, info, 1, 2, 3)
      /\ Holds(<<f>> \o body, info, 2, 3, 4)
      /\ Holds(body \o <<f>>, info, 1, 2, 3)
  BY WrittenHolds
<1>2. {1, 2, 3, 4} \subseteq Int
  BY Digits
<1>3. \A b : \A i, j, k \in {1, 2, 3, 4} : Holds(b, info, i, j, k) => InfoRead(b) = info
  BY <1>2, HoldsReads, Zenon
<1> HIDE DEF body, info
<1> QED
  BY <1>1, <1>3, Zenon DEF body, info

\* The handler of a call is called with what the caller passed.
THEOREM ArgumentsArrive ==
  /\ \A ip, port, msg : \A isset \in BOOLEAN : isset \/ msg = "" =>
        LET info == Info(ip, port, msg, isset)
        IN  /\ registClient_args(send_registClient(info)) = {info}
            /\ heartbeat_args(send_heartbeat(info)) = {info}
  /\ \A msg : ClusterWork_args(send_ClusterWork(msg)) = msg
<1>1. ASSUME NEW ip, NEW port, NEW msg, NEW isset \in BOOLEAN, isset \/ msg = ""
      PROVE  LET info == Info(ip, port, msg, isset)
             IN  /\ registClient_args(send_registClient(info)) = {info}
                 /\ heartbeat_args(send_heartbeat(info)) = {info}
  <2> DEFINE info == Info(ip, port, msg, isset)
             body == InfoWrite(info)
             f == Field(4, "T_STRING", "")
  <2>1. Foreign(f)
    BY DEF Foreign, Field
  <2>2. InfoRead(body) = info
    BY <1>1, <2>1, InfoSurvives, Zenon
  <2>3. /\ send_registClient(info).body = One(1, "T_STRUCT", body)
        /\ send_heartbeat(info).body = One(1, "T_STRUCT", body)
    BY DEF send_registClient, send_heartbeat, Message, ClientInfoWrite,
           HeartBeatInfoWrite, One
  <2> HIDE DEF body, info
  <2>4. ReadField(One(1, "T_STRUCT", body), 1, "T_STRUCT", <<>>) = body
    <3>1. ReadsAs(One(1, "T_STRUCT", body), 1, "T_STRUCT", body)
      BY ReadOnly, Zenon
    <3> QED
      BY <3>1, Zenon DEF ReadsAs
  <2>5. /\ registClient_args(send_registClient(info)) = {InfoRead(b) : b \in {body}}
        /\ heartbeat_args(send_heartbeat(info)) = {InfoRead(b) : b \in {body}}
    BY <2>3, <2>4, Zenon
       DEF registClient_args, heartbeat_args, ClientInfoRead, HeartBeatInfoRead
  <2>6. {InfoRead(b) : b \in {body}} = {info}
    BY <2>2, Zenon
  <2> QED
    BY <2>5, <2>6, Zenon DEF info
<1>2. ASSUME NEW msg PROVE ClusterWork_args(send_ClusterWork(msg)) = msg
  <2>1. send_ClusterWork(msg).body = One(1, "T_STRING", msg)
    BY DEF send_ClusterWork, Message, One
  <2>2. ReadsAs(One(1, "T_STRING", msg), 1, "T_STRING", msg)
    BY ReadOnly, Zenon
  <2> QED
    BY <2>1, <2>2, Zenon DEF ClusterWork_args, ReadsAs
<1> QED
  BY <1>1, <1>2, Zenon

\* The caller gets what the handler returned, or an exception if it threw, and
\* never skips the answer.
THEOREM ResultsArrive ==
  /\ \A v : /\ recv_registClient(process_registClient(Returned(v))) = Returned(v)
            /\ recv_heartbeat(process_heartbeat(Returned(v))) = Returned(v)
            /\ recv_ClusterWork(process_ClusterWork(Returned(v))) = Returned(v)
  /\ recv_registClient(process_registClient(Threw)) = Threw
  /\ recv_heartbeat(process_heartbeat(Threw)) = Threw
  /\ recv_ClusterWork(process_ClusterWork(Threw)) = Threw
<1>1. ASSUME NEW fname, NEW ftype, NEW v
      PROVE  Recv(fname, ftype, Answer(fname, ftype, Returned(v))) = Returned(v)
  <2> DEFINE m == Answer(fname, ftype, Returned(v))
             body == One(0, ftype, v)
  <2>1. Returned(v).kind # "threw" /\ Returned(v).value = v
    BY DEF Returned
  <2>2. m = Message(fname, "T_REPLY", body)
    BY <2>1, Zenon DEF Answer, One
  <2>3. m.mtype = "T_REPLY" /\ m.fname = fname /\ m.body = body
    BY <2>2 DEF Message
  <2>4. ReadsAs(body, 0, ftype, v)
    BY ReadOnly, Zenon
  <2>5. "T_REPLY" # "T_EXCEPTION"
    OBVIOUS
  <2> HIDE DEF m, body
  <2> QED
    BY <2>3, <2>4, <2>5, Zenon DEF Recv, ReadsAs, m
<1>2. ASSUME NEW fname, NEW ftype
      PROVE  Recv(fname, ftype, Answer(fname, ftype, Threw)) = Threw
  BY DEF Recv, Answer, Threw, Message
<1> QED
  BY <1>1, <1>2, Zenon
     DEF recv_registClient, recv_heartbeat, recv_ClusterWork,
         process_registClient, process_heartbeat, process_ClusterWork
=============================================================================
