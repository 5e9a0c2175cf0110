------------------------------- MODULE Thrift -------------------------------
(***************************************************************************)
(* The stubs the Thrift compiler generated for the services Regist (of the *)
(* server) and Request (of the nodes), as operators on messages.  Source:  *)
(* Regist.cpp, Request.cpp and common_types.cpp, which are the same files  *)
(* in src/DcServer/src and src/DcNode/src.                                 *)
(*                                                                         *)
(* A message is its name, its type and the fields of its struct, in order; *)
(* a field is its id, its type and its value, a struct again a sequence of *)
(* fields.  Bytes, frames and sequence numbers (always 0) are left out.    *)
(***************************************************************************)
EXTENDS Integers, Sequences

Field(fid, ftype, v) == [fid |-> fid, ftype |-> ftype, value |-> v]
Message(fname, mtype, body) == [fname |-> fname, mtype |-> mtype, body |-> body]

\* What a call comes to: a value, an exception, or a caller that skipped the
\* message and reads on, for a second one that no peer sends.
Returned(v) == [kind |-> "returned", value |-> v]
Threw == [kind |-> "threw"]
ReadsOn == [kind |-> "readsOn"]

-----------------------------------------------------------------------------
(* Structs *)

\* Where the reading loop stores a field: the id and the type must be the ones
\* it knows, everything else is skipped.  (Mutant: the type is not looked at.)
StoredAnyType(body, fid, ftype) == {i \in DOMAIN body : body[i].fid = fid}
Stored(body, fid, ftype) ==
  {i \in DOMAIN body : body[i].fid = fid /\ body[i].ftype = ftype}

IsSet(body, fid, ftype) == Stored(body, fid, ftype) # {}

\* The value a member has after the loop: of the last such field, if any.
ReadField(body, fid, ftype, default) ==
  LET S == Stored(body, fid, ftype)
  IN  IF S = {} THEN default ELSE body[CHOOSE i \in S : \A j \in S : j <= i].value

\* ClientInfo and HeartBeatInfo have the same members; msg is optional.
Info(ip, port, msg, isset_msg) ==
  [Ip |-> ip, Port |-> port, msg |-> msg, isset_msg |-> isset_msg]

InfoWrite(info) ==
  <<Field(1, "T_STRING", info.Ip), Field(2, "T_I32", info.Port)>>
    \o (IF info.isset_msg THEN <<Field(3, "T_STRING", info.msg)>> ELSE <<>>)

InfoRead(body) ==
  Info(ReadField(body, 1, "T_STRING", ""), ReadField(body, 2, "T_I32", 0),
       ReadField(body, 3, "T_STRING", ""), IsSet(body, 3, "T_STRING"))

ClientInfoWrite(info) == InfoWrite(info)
ClientInfoRead(body) == InfoRead(body)
HeartBeatInfoWrite(info) == InfoWrite(info)
HeartBeatInfoRead(body) == InfoRead(body)

-----------------------------------------------------------------------------
(* The client's side *)

send_registClient(info) ==
  Message("registClient", "T_CALL", <<Field(1, "T_STRUCT", ClientInfoWrite(info))>>)
send_heartbeat(info) ==
  Message("heartbeat", "T_CALL", <<Field(1, "T_STRUCT", HeartBeatInfoWrite(info))>>)
send_ClusterWork(msg) ==
  Message("ClusterWork", "T_CALL", <<Field(1, "T_STRING", msg)>>)

\* presult.read: field 0 is the result.  A message that is no reply, or one to
\* another call, is skipped, but the function does not end there.
Recv(fname, ftype, m) ==
  IF m.mtype = "T_EXCEPTION" THEN Threw
  ELSE IF m.mtype # "T_REPLY" \/ m.fname # fname THEN ReadsOn
  ELSE IF IsSet(m.body, 0, ftype) THEN Returned(ReadField(m.body, 0, ftype, FALSE))
  ELSE Threw

recv_registClient(m) == Recv("registClient", "T_I32", m)
recv_heartbeat(m) == Recv("heartbeat", "T_BOOL", m)
recv_ClusterWork(m) == Recv("ClusterWork", "T_BOOL", m)

-----------------------------------------------------------------------------
(* The processor's side *)

\* args.read: what the handler is called with (sets of one element).
registClient_args(m) ==
  {ClientInfoRead(body) : body \in {ReadField(m.body, 1, "T_STRUCT", <<>>)}}
heartbeat_args(m) ==
  {HeartBeatInfoRead(body) : body \in {ReadField(m.body, 1, "T_STRUCT", <<>>)}}
ClusterWork_args(m) == ReadField(m.body, 1, "T_STRING", "")

\* The reply once the handler has returned a value or thrown; result.write
\* writes success, which is set.
Answer(fname, ftype, result) ==
  IF result.kind = "threw" THEN Message(fname, "T_EXCEPTION", <<>>)
  ELSE Message(fname, "T_REPLY", <<Field(0, ftype, result.value)>>)

process_registClient(result) == Answer("registClient", "T_I32", result)
process_heartbeat(result) == Answer("heartbeat", "T_BOOL", result)
process_ClusterWork(result) == Answer("ClusterWork", "T_BOOL", result)

\* The keys of processMap_.
RegistMethods == {"registClient", "heartbeat"}
RequestMethods == {"ClusterWork"}

\* TDispatchProcessor::process takes calls only.
Takes(m) == m.mtype = "T_CALL"

\* dispatchCall: a method that is not in the map is answered by an exception.
\* (Mutant: the map has the two methods of Regist swapped.)
RegistSwapped(m, result) ==
  IF m.fname = "heartbeat" THEN process_registClient(result)
  ELSE process_heartbeat(result)
RegistDispatch(m, result) ==
  IF m.fname \notin RegistMethods THEN Message(m.fname, "T_EXCEPTION", <<>>)
  ELSE IF m.fname = "registClient" THEN process_registClient(result)
  ELSE process_heartbeat(result)

RequestDispatch(m, result) ==
  IF m.fname \notin RequestMethods THEN Message(m.fname, "T_EXCEPTION", <<>>)
  ELSE process_ClusterWork(result)
=============================================================================
