----------------------------- MODULE IPCProofs ------------------------------
(***************************************************************************)
(* The proofs about IPC, for any set of processes: the list of senders and *)
(* the inductive invariant.  What a step may do, and that IPC implements   *)
(* Rendezvous, is in RefinementProofs.                                     *)
(***************************************************************************)
EXTENDS IPC, TLAPS

\* A leaf is left to Zenon unless it says SMT (arithmetic, records).
USE Zenon

(***************************************************************************)
(* The list of senders: what joining its tail and unlinking a member do.   *)
(***************************************************************************)
\* Joining the tail of a list adds one member and repeats none.
LEMMA AppendMember ==
  ASSUME NEW S, NEW s \in Seq(S), NEW e \in S
  PROVE  /\ Append(s, e) \in Seq(S)
         /\ Range(Append(s, e)) = Range(s) \cup {e}
         /\ IsInjective(s) /\ e \notin Range(s) => IsInjective(Append(s, e))
<1> DEFINE t == Append(s, e)
<1>1. /\ t \in Seq(S)
      /\ Len(s) \in Nat /\ DOMAIN s = 1 .. Len(s) /\ DOMAIN t = 1 .. Len(s) + 1
      /\ \A i \in 1 .. Len(s) : t[i] = s[i]
      /\ t[Len(s) + 1] = e
  BY SMT
<1> HIDE DEF t
<1>2. Range(t) = Range(s) \cup {e}
  <2>1. ASSUME NEW x \in Range(t) PROVE x \in Range(s) \cup {e}
    BY <1>1, SMT DEF Range
  <2>2. Range(s) \subseteq Range(t) /\ e \in Range(t)
    BY <1>1, SMT DEF Range
  <2> QED
    BY <2>1, <2>2
<1>3. IsInjective(s) /\ e \notin Range(s) => IsInjective(t)
  BY <1>1, SMT DEF Range, IsInjective
<1> QED
  BY <1>1, <1>2, <1>3 DEF t

\* Unlinking a member of a list without repetitions removes it and no other,
\* and keeps the order of the others.
LEMMA RemoveMember ==
  ASSUME NEW S, NEW s \in Seq(S), IsInjective(s), NEW e \in Range(s)
  PROVE  /\ Unlink(s, e) \in Seq(S)
         /\ Range(Unlink(s, e)) = Range(s) \ {e}
         /\ IsInjective(Unlink(s, e))
         /\ \A j, k \in DOMAIN Unlink(s, e) : j < k =>
              \E m, n \in DOMAIN s :
                s[m] = Unlink(s, e)[j] /\ s[n] = Unlink(s, e)[k] /\ m < n
<1>1. PICK i \in 1 .. Len(s) : s[i] = e
  BY SMT DEF Range
<1>2. e \in Range(s) /\ \A j \in DOMAIN s : s[j] = e => j = i
  BY <1>1, SMT DEF IsInjective
<1> DEFINE r == SubSeq(s, 1, i - 1) \o SubSeq(s, i + 1, Len(s))
<1>3. Unlink(s, e) = r
  <2>1. (CHOOSE j \in DOMAIN s : s[j] = e) = i
    BY <1>1, <1>2, SMT
  <2> QED
    BY <2>1, <1>2 DEF Unlink
<1> DEFINE at == [j \in 1 .. Len(s) - 1 |-> IF j < i THEN j ELSE j + 1]
<1>4. /\ r \in Seq(S)
      /\ Len(s) \in Nat /\ DOMAIN s = 1 .. Len(s)
      /\ DOMAIN r = 1 .. Len(s) - 1
      /\ \A j \in 1 .. Len(s) - 1 : r[j] = s[at[j]]
  <2> DEFINE u == SubSeq(s, 1, i - 1)
             v == SubSeq(s, i + 1, Len(s))
  <2>1. /\ u \in Seq(S) /\ Len(u) = i - 1
        /\ \A j \in 1 .. i - 1 : u[j] = s[j]
    BY SMT
  <2>2. /\ v \in Seq(S) /\ Len(v) = Len(s) - i
        /\ \A j \in 1 .. Len(s) - i : v[j] = s[j + i]
    BY SMT
  <2>3. r = u \o v
    OBVIOUS
  <2> HIDE DEF r, u, v
  <2>4. /\ r \in Seq(S) /\ Len(r) = Len(u) + Len(v)
        /\ \A j \in 1 .. Len(u) + Len(v) :
             r[j] = IF j <= Len(u) THEN u[j] ELSE v[j - Len(u)]
    <3>1. u \in Seq(S) /\ v \in Seq(S)
      BY <2>1, <2>2
    <3> QED
      BY <2>3, <3>1, SMT
  <2>5. ASSUME NEW j \in 1 .. Len(s) - 1 PROVE r[j] = s[at[j]]
    <3>1. CASE j < i
      <4>1. j \in 1 .. i - 1 /\ at[j] = j
        BY <3>1, SMT
      <4>2. j \in 1 .. Len(u) + Len(v) /\ j <= Len(u)
        BY <4>1, <2>1, <2>2, SMT
      <4>3. r[j] = u[j]
        BY <4>2, <2>4
      <4> HIDE DEF at
      <4> QED
        BY <4>1, <4>3, <2>1
    <3>2. CASE ~(j < i)
      <4>1. j - (i - 1) \in 1 .. Len(s) - i /\ (j - (i - 1)) + i = j + 1
        BY <3>2, SMT
      <4>2. r[j] = v[j - (i - 1)]
        <5>1. /\ Len(u) = i - 1 /\ ~(j <= Len(u))
              /\ j \in 1 .. Len(u) + Len(v)
          BY <3>2, <2>1, <2>2, SMT
        <5> QED
          BY <5>1, <2>4
      <4> QED
        BY <3>2, <4>1, <4>2, <2>2
    <3> QED
      BY <3>1, <3>2
  <2> HIDE DEF at
  <2>6. Len(s) \in Nat /\ DOMAIN s = 1 .. Len(s)
    BY SMT
  <2>7. r \in Seq(S) /\ Len(r) = Len(s) - 1
    BY <2>1, <2>2, <2>4, <2>6, SMT
  <2>8. DOMAIN r = 1 .. Len(s) - 1
    BY <2>7, SMT
  <2> QED
    BY <2>5, <2>6, <2>7, <2>8, Zenon
<1> HIDE DEF r
<1>5. \A j \in 1 .. Len(s) - 1 : at[j] \in 1 .. Len(s) /\ at[j] # i
  BY <1>4, SMT
<1>6. \A j, k \in 1 .. Len(s) - 1 : at[j] = at[k] => j = k
  BY <1>4, SMT
<1>7. \A j, k \in 1 .. Len(s) - 1 : j < k => at[j] < at[k]
  BY <1>4, SMT
<1>8. \A k \in 1 .. Len(s) : k # i => \E j \in 1 .. Len(s) - 1 : at[j] = k
  <2> SUFFICES ASSUME NEW k \in 1 .. Len(s), k # i
               PROVE  \E j \in 1 .. Len(s) - 1 : at[j] = k
    OBVIOUS
  <2>1. CASE k < i
    BY <2>1, <1>4, SMT
  <2>2. CASE k > i
    <3>1. k - 1 \in 1 .. Len(s) - 1 /\ at[k - 1] = k
      BY <2>2, <1>4, SMT
    <3> QED
      BY <3>1
  <2> QED
    BY <2>1, <2>2, SMT
<1> HIDE DEF at
<1>9. Range(r) = Range(s) \ {e}
  <2>1. ASSUME NEW j \in 1 .. Len(s) - 1 PROVE r[j] \in Range(s) \ {e}
    <3>1. s[at[j]] # s[i]
      BY <1>4, <1>5 DEF IsInjective
    <3> QED
      BY <3>1, <1>1, <1>4, <1>5 DEF Range
  <2>2. ASSUME NEW k \in 1 .. Len(s), s[k] # e PROVE s[k] \in Range(r)
    <3>1. PICK j \in 1 .. Len(s) - 1 : at[j] = k
      BY <1>1, <1>8, <2>2
    <3> QED
      BY <3>1, <1>4 DEF Range
  <2>3. Range(r) = {r[j] : j \in 1 .. Len(s) - 1} /\ Range(s) = {s[k] : k \in 1 .. Len(s)}
    BY <1>4 DEF Range
  <2> QED
    BY <2>1, <2>2, <2>3
<1>10. IsInjective(r)
  <2> SUFFICES ASSUME NEW j \in 1 .. Len(s) - 1, NEW k \in 1 .. Len(s) - 1, r[j] = r[k]
               PROVE  j = k
    BY <1>4 DEF IsInjective
  <2>1. at[j] = at[k]
    BY <1>4, <1>5, SMT DEF IsInjective
  <2> QED
    BY <2>1, <1>6
<1>11. \A j, k \in DOMAIN r : j < k =>
         \E m, n \in DOMAIN s : s[m] = r[j] /\ s[n] = r[k] /\ m < n
  BY <1>4, <1>5, <1>7, SMT
<1> QED
  BY <1>3, <1>4, <1>9, <1>10, <1>11, SMT
\* A process that msg_receive finds, at the head of the list or by name, is
\* blocked in a SEND to the caller and linked in the caller's list.
LEMMA QueuedSends ==
  ASSUME sending_queue \in [Procs -> Seq(Procs)], QueueHoldsSenders,
         NEW p \in Procs, NEW src, NEW q \in From(p, src)
  PROVE  q \in Procs /\ SendingTo(q, p) /\ q \in Range(sending_queue[p])
<1>1. CASE src = ANY
  <2>1. 1 \in DOMAIN sending_queue[p] /\ q = sending_queue[p][1]
    BY <1>1 DEF From
  <2>2. q \in Range(sending_queue[p])
    BY <2>1 DEF Range
  <2> QED
    BY <2>2 DEF QueueHoldsSenders
<1>2. CASE src # ANY
  BY <1>2 DEF From, QueueHoldsSenders
<1> QED
  BY <1>1, <1>2

\* When msg_receive finds nothing to take, no process offers the caller a
\* message it asks for.
LEMMA NothingQueued ==
  ASSUME sending_queue \in [Procs -> Seq(Procs)], QueueHoldsSenders,
         NEW p \in Procs, NEW src, From(p, src) = {},
         NEW q \in Procs, src \in {q, ANY}
  PROVE  ~SendingTo(q, p)
<1> SUFFICES ASSUME SendingTo(q, p) PROVE FALSE
  OBVIOUS
<1>1. CASE src = ANY
  <2>1. q \in Range(sending_queue[p]) /\ sending_queue[p] \in Seq(Procs)
    BY DEF QueueHoldsSenders
  <2>2. 1 \in DOMAIN sending_queue[p]
    BY <2>1, SMT DEF Range
  <2>3. sending_queue[p][1] \in From(p, src)
    BY <1>1, <2>2 DEF From
  <2> QED
    BY <2>3
<1>2. CASE src # ANY
  BY <1>2 DEF From
<1> QED
  BY <1>1, <1>2

\* When a process joins the list as it becomes a sender, the lists hold the
\* senders again.
LEMMA QueueJoined ==
  ASSUME sending_queue \in [Procs -> Seq(Procs)], QueueHoldsSenders,
         NEW p \in Procs, NEW dest \in Procs, SENDING \notin flags[p],
         sending_queue' = [sending_queue EXCEPT ![dest] = Append(@, p)],
         SENDING \in flags'[p] /\ sendto'[p] = dest,
         \A x \in Procs \ {p} : flags'[x] = flags[x] /\ sendto'[x] = sendto[x]
  PROVE  sending_queue' \in [Procs -> Seq(Procs)] /\ QueueHoldsSenders'
<1>1. /\ sending_queue[dest] \in Seq(Procs)
      /\ Range(sending_queue[dest]) = {x \in Procs : SendingTo(x, dest)}
      /\ IsInjective(sending_queue[dest])
      /\ p \notin Range(sending_queue[dest])
  BY DEF QueueHoldsSenders, SendingTo
<1>2. sending_queue' \in [Procs -> Seq(Procs)]
  BY <1>1, AppendMember
<1>3. QueueHoldsSenders'
  <2> SUFFICES ASSUME NEW q \in Procs
               PROVE  /\ Range(sending_queue'[q]) = {x \in Procs : SendingTo(x, q)'}
                      /\ IsInjective(sending_queue'[q])
    BY DEF QueueHoldsSenders
  <2>1. CASE q = dest
    <3>1. sending_queue'[q] = Append(sending_queue[dest], p)
      BY <2>1
    <3>2. {x \in Procs : SendingTo(x, q)'} = {x \in Procs : SendingTo(x, dest)} \cup {p}
      BY <2>1 DEF SendingTo
    <3>3. /\ Range(Append(sending_queue[dest], p)) = Range(sending_queue[dest]) \cup {p}
          /\ IsInjective(Append(sending_queue[dest], p))
      BY <1>1, AppendMember, SMT
    <3> QED
      BY <3>1, <3>2, <3>3, <1>1
  <2>2. CASE q # dest
    <3>1. sending_queue'[q] = sending_queue[q]
      BY <2>2
    <3>2. {x \in Procs : SendingTo(x, q)'} = {x \in Procs : SendingTo(x, q)}
      BY <2>2 DEF SendingTo
    <3> QED
      BY <3>1, <3>2 DEF QueueHoldsSenders
  <2> QED
    BY <2>1, <2>2
<1> QED
  BY <1>2, <1>3

\* So they do when a process is unlinked as it stops being a sender.
LEMMA QueueLeft ==
  ASSUME sending_queue \in [Procs -> Seq(Procs)], QueueHoldsSenders,
         NEW p \in Procs, NEW q \in Procs, SendingTo(q, p),
         sending_queue' = [sending_queue EXCEPT ![p] = Unlink(@, q)],
         SENDING \notin flags'[q],
         \A x \in Procs \ {q} : flags'[x] = flags[x] /\ sendto'[x] = sendto[x]
  PROVE  sending_queue' \in [Procs -> Seq(Procs)] /\ QueueHoldsSenders'
<1>1. /\ sending_queue[p] \in Seq(Procs)
      /\ Range(sending_queue[p]) = {x \in Procs : SendingTo(x, p)}
      /\ IsInjective(sending_queue[p])
      /\ q \in Range(sending_queue[p])
  BY DEF QueueHoldsSenders
<1>2. /\ Unlink(sending_queue[p], q) \in Seq(Procs)
      /\ Range(Unlink(sending_queue[p], q)) = Range(sending_queue[p]) \ {q}
      /\ IsInjective(Unlink(sending_queue[p], q))
  BY <1>1, RemoveMember, SMT
<1>3. sending_queue' \in [Procs -> Seq(Procs)]
  BY <1>2
<1>4. QueueHoldsSenders'
  <2> SUFFICES ASSUME NEW y \in Procs
               PROVE  /\ Range(sending_queue'[y]) = {x \in Procs : SendingTo(x, y)'}
                      /\ IsInjective(sending_queue'[y])
    BY DEF QueueHoldsSenders
  <2>1. CASE y = p
    <3>1. sending_queue'[y] = Unlink(sending_queue[p], q)
      BY <2>1
    <3>2. {x \in Procs : SendingTo(x, y)'} = {x \in Procs : SendingTo(x, p)} \ {q}
      BY <2>1 DEF SendingTo
    <3> QED
      BY <3>1, <3>2, <1>1, <1>2
  <2>2. CASE y # p
    <3>1. sending_queue'[y] = sending_queue[y]
      BY <2>2
    <3>2. {x \in Procs : SendingTo(x, y)'} = {x \in Procs : SendingTo(x, y)}
      BY <2>2 DEF SendingTo
    <3> QED
      BY <3>1, <3>2 DEF QueueHoldsSenders
  <2> QED
    BY <2>1, <2>2
<1> QED
  BY <1>3, <1>4

-----------------------------------------------------------------------------

(***************************************************************************)
(* The inductive invariant.  The asserts of proc.c hold because the fields *)
(* of a process agree with its flags (FieldsAgree); that the caller's      *)
(* fields are clean when it calls is the same fact.  CallInv ties the      *)
(* caller's buffer and the pending interrupt to the call in progress.      *)
(***************************************************************************)
FieldsAgree ==
  \A p \in Procs :
    /\ flags[p] = {} => Idle(p)
    /\ SENDING \in flags[p] =>
         /\ flags[p] = {SENDING} /\ msg[p]
         /\ sendto[p] \in Procs \ {p} /\ recvfrom[p] = NO_TASK
    /\ RECEIVING \in flags[p] =>
         /\ flags[p] = {RECEIVING} /\ msg[p]
         /\ recvfrom[p] \in Sources \ {p} /\ sendto[p] = NO_TASK

CallInv ==
  \A p \in Procs :
    /\ SENDING \in flags[p] => buf[p].source = p
    /\ both[p] # NO_TASK =>
         /\ RECEIVING \notin flags[p] /\ both[p] # p
         /\ buf[p].body \in Bodies /\ ~has_int_msg[p]
    /\ has_int_msg[p] => p \in IntTasks

IInv ==
  /\ TypeOK
  /\ FieldsAgree
  /\ CallInv
  /\ QueueHoldsSenders
  /\ NoMissedRendezvous
  /\ NoMissedInterrupt
  /\ SendGraphAcyclic
  /\ AssertsHold

-----------------------------------------------------------------------------
(***************************************************************************)
(* Each outcome of a system call preserves the invariant                   *)
(***************************************************************************)

\* The caller of sendrec() is in neither a SEND nor a RECEIVE.
LEMMA CallerIdle ==
  ASSUME IInv, NEW p \in Procs, Runnable(p)
  PROVE  Idle(p) /\ halt = "no" /\ SENDING \notin flags[p] /\ RECEIVING \notin flags[p]
BY DEF IInv, FieldsAgree, Runnable, Idle

\* A message msg_receive can take is the message of a process that is blocked
\* in a SEND to the caller and linked in the caller's list.
LEMMA FromSends ==
  ASSUME IInv, NEW p \in Procs, NEW src \in Sources \ {p}, NEW q \in From(p, src)
  PROVE  /\ q \in Procs \ {p} /\ SendingTo(q, p)
         /\ q \in Range(sending_queue[p])
         /\ flags[q] = {SENDING} /\ msg[q] /\ recvfrom[q] = NO_TASK
<1>1. q \in Procs /\ SendingTo(q, p) /\ q \in Range(sending_queue[p])
  BY QueuedSends DEF IInv, TypeOK
<1> QED
  BY <1>1 DEF IInv, FieldsAgree, SendingTo

\* A RECEIVE that finds nothing to take is offered nothing.
LEMMA FromEmpty ==
  ASSUME IInv, NEW p \in Procs, NEW src \in Sources, From(p, src) = {},
         NEW q \in Procs, src \in {q, ANY}
  PROVE  ~SendingTo(q, p)
BY NothingQueued DEF IInv, TypeOK

\* What a sender writes is a message.
LEMMA SentMessage ==
  ASSUME NEW p \in Procs, NEW body \in Bodies \cup {ZeroBody}
  PROVE  /\ [source |-> p, body |-> body] \in Message
         /\ [source |-> p, body |-> body].source = p
         /\ [source |-> p, body |-> body].body = body
BY DEF Message

\* The panic of msg_send changes no table.
LEMMA SendPanicInv ==
  ASSUME IInv, NEW p \in Procs, NEW dest \in Procs \ {p}, NEW body \in Bodies,
         Runnable(p), SendPanic(p, dest, body),
         both' = both \/ (both' = [both EXCEPT ![p] = dest] /\ ~has_int_msg[p])
  PROVE  IInv'
<1> USE ConstantsAssumption DEF SENDING, RECEIVING
<1>1. Idle(p) /\ halt = "no"
  BY CallerIdle
<1>2. TypeOK'
  <2>1. buf' \in [Procs -> Message]
    BY SentMessage DEF IInv, TypeOK, SendPanic
  <2>2. both' \in [Procs -> Procs \cup {NO_TASK}]
    <3>1. both \in [Procs -> Procs \cup {NO_TASK}] /\ dest \in Procs \cup {NO_TASK}
      BY DEF IInv, TypeOK
    <3>2. CASE both' = both
      BY <3>1, <3>2
    <3>3. CASE both' = [both EXCEPT ![p] = dest]
      BY <3>1, <3>3
    <3> QED
      BY <3>2, <3>3
  <2> QED
    BY <2>1, <2>2 DEF IInv, TypeOK, SendPanic, kernel
<1>3. FieldsAgree' /\ QueueHoldsSenders' /\ NoMissedRendezvous' /\ NoMissedInterrupt'
      /\ SendGraphAcyclic'
  BY DEF IInv, SendPanic, kernel, FieldsAgree, Idle, QueueHoldsSenders,
         NoMissedRendezvous, NoMissedInterrupt, SendGraphAcyclic, SendingTo,
         Awaits, AwaitsInt
<1>4. CallInv'
  BY <1>1, SMT DEF IInv, TypeOK, SendPanic, kernel, CallInv, Idle
<1>5. AssertsHold'
  BY DEF SendPanic, AssertsHold
<1> QED
  BY <1>2, <1>3, <1>4, <1>5 DEF IInv

\* Handing a message to a waiting receiver preserves the invariant.
LEMMA SendDeliverInv ==
  ASSUME IInv, NEW p \in Procs, NEW dest \in Procs \ {p}, NEW body \in Bodies,
         Runnable(p), SendDeliver(p, dest, body),
         both' = both \/ (both' = [both EXCEPT ![p] = dest] /\ ~has_int_msg[p])
  PROVE  IInv'
<1> USE ConstantsAssumption DEF SENDING, RECEIVING
<1>1. Idle(p) /\ halt = "no" /\ RECEIVING \notin flags[p]
  BY CallerIdle
<1>2. /\ flags[dest] = {RECEIVING} /\ msg[dest] /\ sendto[dest] = NO_TASK
      /\ both[dest] = NO_TASK
  BY DEF IInv, FieldsAgree, CallInv, SendDeliver, Awaits
<1>3. TypeOK'
  <2>1. buf' \in [Procs -> Message]
    BY SentMessage DEF IInv, TypeOK, SendDeliver
  <2>2. both' \in [Procs -> Procs \cup {NO_TASK}]
    BY DEF IInv, TypeOK
  <2> QED
    BY <2>1, <2>2 DEF IInv, TypeOK, SendDeliver, AssertThat
<1>4. FieldsAgree'
  BY <1>2 DEF IInv, TypeOK, SendDeliver, FieldsAgree, Idle
<1>5. CallInv'
  <2>1. \A x \in Procs : buf'[x] = IF x \in {p, dest} THEN [source |-> p, body |-> body]
                                   ELSE buf[x]
    BY DEF IInv, TypeOK, SendDeliver
  <2>2. \A x \in Procs : flags'[x] = IF x = dest THEN {} ELSE flags[x]
    BY <1>2 DEF IInv, TypeOK, SendDeliver
  <2>3. has_int_msg' = has_int_msg /\ flags[p] = {}
    BY <1>1 DEF SendDeliver, Idle
  <2>4. \A x \in Procs : both'[x] = both[x] \/ (x = p /\ both'[x] = dest /\ ~has_int_msg[p])
    BY DEF IInv, TypeOK
  <2> QED
    BY <1>2, <2>1, <2>2, <2>3, <2>4, SMT DEF IInv, CallInv
<1>6. QueueHoldsSenders'
  BY <1>2 DEF IInv, TypeOK, SendDeliver, QueueHoldsSenders, SendingTo
<1>7. NoMissedRendezvous'
  BY <1>2 DEF IInv, TypeOK, SendDeliver, NoMissedRendezvous, SendingTo, Awaits
<1>8. NoMissedInterrupt'
  BY <1>2 DEF IInv, TypeOK, SendDeliver, NoMissedInterrupt, AwaitsInt
<1>9. SendGraphAcyclic'
  <2>1. \A x \in Procs : SENDING \in flags'[x] <=> SENDING \in flags[x]
    BY <1>2 DEF IInv, TypeOK, SendDeliver
  <2> QED
    BY <2>1 DEF IInv, SendDeliver, SendGraphAcyclic
<1>10. AssertsHold'
  <2>1. Idle(dest)'
    BY <1>2 DEF IInv, TypeOK, SendDeliver, Idle
  <2> QED
    BY <1>1, <1>2, <2>1 DEF IInv, AssertsHold, SendDeliver, AssertThat
<1> QED
  BY <1>3, <1>4, <1>5, <1>6, <1>7, <1>8, <1>9, <1>10 DEF IInv

\* A send that deadlock() lets pass adds an edge p -> dest to the graph of
\* blocked sends and closes no cycle: a cycle through the new edge, cut down
\* to the processes reachable from dest, would be a cycle already.
LEMMA NoNewCycle ==
  ASSUME IInv, NEW p \in Procs, NEW dest \in Procs \ {p}, NEW body \in Bodies,
         Runnable(p), SendBlock(p, dest, body)
  PROVE  SendGraphAcyclic'
<1> SUFFICES ASSUME NEW T \in SUBSET Procs, T # {},
                    \A x \in T : SENDING \in flags'[x] /\ sendto'[x] \in T
             PROVE  FALSE
  BY DEF SendGraphAcyclic
<1>1. \A x \in Procs \ {p} : flags'[x] = flags[x] /\ sendto'[x] = sendto[x]
  BY DEF IInv, TypeOK, SendBlock
<1>2. sendto'[p] = dest
  BY DEF IInv, TypeOK, SendBlock
<1>3. PICK S \in SUBSET Procs : dest \in S /\ SendClosed(S) /\ p \notin S
  BY DEF SendBlock, deadlock
<1>4. \A x \in T \cap S : SENDING \in flags[x] /\ sendto[x] \in T \cap S
  BY <1>1, <1>3 DEF SendClosed
<1>5. T \cap S = {}
  BY <1>4 DEF IInv, SendGraphAcyclic
<1>6. p \notin T
  BY <1>2, <1>3, <1>5
<1>7. \A x \in T : SENDING \in flags[x] /\ sendto[x] \in T
  BY <1>1, <1>6
<1> QED
  BY <1>7 DEF IInv, SendGraphAcyclic

\* A sender that joins the list and blocks preserves the invariant: no receiver
\* waits for it, and by deadlock() no cycle is closed.
LEMMA SendBlockInv ==
  ASSUME IInv, NEW p \in Procs, NEW dest \in Procs \ {p}, NEW body \in Bodies,
         Runnable(p), SendBlock(p, dest, body),
         both' = both \/ (both' = [both EXCEPT ![p] = dest] /\ ~has_int_msg[p])
  PROVE  IInv'
<1> USE ConstantsAssumption DEF SENDING, RECEIVING
<1>1. Idle(p) /\ halt = "no" /\ SENDING \notin flags[p]
  BY CallerIdle
<1>2. /\ \A x \in Procs : flags'[x] = IF x = p THEN {SENDING} ELSE flags[x]
      /\ \A x \in Procs : sendto'[x] = IF x = p THEN dest ELSE sendto[x]
      /\ msg'[p] /\ \A x \in Procs \ {p} : msg'[x] = msg[x]
      /\ recvfrom' = recvfrom /\ has_int_msg' = has_int_msg
  BY <1>1, SMT DEF IInv, TypeOK, SendBlock, Idle
<1>3. sending_queue' \in [Procs -> Seq(Procs)] /\ QueueHoldsSenders'
  BY <1>1, <1>2, QueueJoined DEF IInv, TypeOK, SendBlock
<1>4. TypeOK'
  <2>1. buf' \in [Procs -> Message]
    BY SentMessage DEF IInv, TypeOK, SendBlock
  <2>2. both' \in [Procs -> Procs \cup {NO_TASK}]
    BY DEF IInv, TypeOK
  <2> QED
    BY <2>1, <2>2, <1>3 DEF IInv, TypeOK, SendBlock, AssertThat
<1>5. FieldsAgree'
  <2> SUFFICES ASSUME NEW x \in Procs
               PROVE  /\ flags'[x] = {} => Idle(x)'
                      /\ SENDING \in flags'[x] =>
                           /\ flags'[x] = {SENDING} /\ msg'[x]
                           /\ sendto'[x] \in Procs \ {x} /\ recvfrom'[x] = NO_TASK
                      /\ RECEIVING \in flags'[x] =>
                           /\ flags'[x] = {RECEIVING} /\ msg'[x]
                           /\ recvfrom'[x] \in Sources \ {x} /\ sendto'[x] = NO_TASK
    BY DEF FieldsAgree
  <2>1. CASE x = p
    BY <2>1, <1>1, <1>2, SMT DEF Idle
  <2>2. CASE x # p
    BY <2>2, <1>2 DEF IInv, FieldsAgree, Idle
  <2> QED
    BY <2>1, <2>2
<1>6. CallInv'
  <2>1. \A x \in Procs : buf'[x] = IF x = p THEN [source |-> p, body |-> body]
                                   ELSE buf[x]
    BY DEF IInv, TypeOK, SendBlock
  <2>2. \A x \in Procs : both'[x] = both[x] \/ (x = p /\ both'[x] = dest /\ ~has_int_msg[p])
    BY DEF IInv, TypeOK
  <2> QED
    BY <1>2, <2>1, <2>2, SMT DEF IInv, CallInv
<1>8. NoMissedRendezvous'
  BY <1>2, SMT DEF IInv, SendBlock, NoMissedRendezvous, SendingTo, Awaits
<1>9. NoMissedInterrupt'
  BY <1>2, SMT DEF IInv, NoMissedInterrupt, AwaitsInt
<1>10. SendGraphAcyclic'
  BY NoNewCycle
<1>11. AssertsHold'
  BY <1>1 DEF IInv, AssertsHold, SendBlock, AssertThat, Idle
<1> QED
  BY <1>3, <1>4, <1>5, <1>6, <1>8, <1>9, <1>10, <1>11 DEF IInv
-----------------------------------------------------------------------------

\* Taking a pending interrupt preserves the invariant.
LEMMA ReceiveIntInv ==
  ASSUME IInv, NEW p \in Procs, NEW src \in Sources \ {p},
         Runnable(p), ReceiveInt(p, src), both' = [both EXCEPT ![p] = NO_TASK]
  PROVE  IInv'
<1> USE ConstantsAssumption DEF SENDING, RECEIVING
<1>1. Idle(p) /\ halt = "no" /\ SENDING \notin flags[p]
  BY CallerIdle
<1>2. TypeOK'
  <2>1. IntMessage \in Message
    BY DEF IntMessage, Message
  <2> QED
    BY <2>1 DEF IInv, TypeOK, ReceiveInt, AssertThat
<1>3. FieldsAgree' /\ QueueHoldsSenders' /\ NoMissedRendezvous' /\ SendGraphAcyclic'
  BY DEF IInv, ReceiveInt, FieldsAgree, Idle, QueueHoldsSenders,
         NoMissedRendezvous, SendGraphAcyclic, SendingTo, Awaits
<1>4. CallInv'
  <2>1. /\ \A x \in Procs \ {p} : buf'[x] = buf[x] /\ has_int_msg'[x] = has_int_msg[x]
                                                /\ both'[x] = both[x]
        /\ flags' = flags /\ both'[p] = NO_TASK /\ ~has_int_msg'[p]
    BY DEF IInv, TypeOK, ReceiveInt
  <2> QED
    BY <1>1, <2>1 DEF IInv, CallInv
<1>5. NoMissedInterrupt'
  BY DEF IInv, TypeOK, ReceiveInt, NoMissedInterrupt, AwaitsInt
<1>6. AssertsHold'
  BY <1>1 DEF IInv, AssertsHold, ReceiveInt, AssertThat, Idle
<1> QED
  BY <1>2, <1>3, <1>4, <1>5, <1>6 DEF IInv

\* Taking, unlinking and unblocking a sender preserves the invariant.
LEMMA ReceiveQueuedInv ==
  ASSUME IInv, NEW p \in Procs, NEW src \in Sources \ {p},
         Runnable(p), ReceiveQueued(p, src), both' = [both EXCEPT ![p] = NO_TASK]
  PROVE  IInv'
<1> USE ConstantsAssumption DEF SENDING, RECEIVING
<1>1. Idle(p) /\ halt = "no" /\ SENDING \notin flags[p] /\ RECEIVING \notin flags[p]
  BY CallerIdle
<1>2. PICK q \in From(p, src) :
       /\ sending_queue' = [sending_queue EXCEPT ![p] = Unlink(@, q)]
       /\ buf' = [buf EXCEPT ![p] = buf[q]]
       /\ msg' = [msg EXCEPT ![q] = FALSE]
       /\ sendto' = [sendto EXCEPT ![q] = NO_TASK]
       /\ flags' = [flags EXCEPT ![q] = @ \ {SENDING}]
       /\ AssertThat(/\ Idle(p) /\ q \in Range(sending_queue[p])
                     /\ flags[q] = {SENDING} /\ msg[q]
                     /\ recvfrom[q] = NO_TASK /\ sendto[q] = p)
  BY DEF ReceiveQueued
<1>3. /\ q \in Procs \ {p} /\ SendingTo(q, p)
      /\ q \in Range(sending_queue[p])
      /\ flags[q] = {SENDING} /\ msg[q] /\ recvfrom[q] = NO_TASK
  BY FromSends
<1>4. /\ flags'[q] = {} /\ \A x \in Procs \ {q} : flags'[x] = flags[x]
      /\ sendto'[q] = NO_TASK /\ \A x \in Procs \ {q} : sendto'[x] = sendto[x]
      /\ ~msg'[q] /\ \A x \in Procs \ {q} : msg'[x] = msg[x]
      /\ recvfrom' = recvfrom /\ has_int_msg' = has_int_msg
  <2>1. flags'[q] = {} /\ \A x \in Procs \ {q} : flags'[x] = flags[x]
    BY <1>2, <1>3 DEF IInv, TypeOK
  <2>2. sendto'[q] = NO_TASK /\ \A x \in Procs \ {q} : sendto'[x] = sendto[x]
    BY <1>2, <1>3 DEF IInv, TypeOK
  <2>3. ~msg'[q] /\ \A x \in Procs \ {q} : msg'[x] = msg[x]
    BY <1>2, <1>3 DEF IInv, TypeOK
  <2> QED
    BY <2>1, <2>2, <2>3 DEF ReceiveQueued
<1>5. sending_queue' \in [Procs -> Seq(Procs)] /\ QueueHoldsSenders'
  BY <1>2, <1>3, <1>4, QueueLeft DEF IInv, TypeOK
<1>7. TypeOK'
  <2>2. buf' \in [Procs -> Message] /\ both' \in [Procs -> Procs \cup {NO_TASK}]
    BY <1>2, <1>3 DEF IInv, TypeOK
  <2>3. halt' \in {"no", "assert", "panic"}
    BY <1>1, <1>2 DEF AssertThat
  <2> QED
    BY <1>2, <1>3, <1>4, <1>5, <2>2, <2>3 DEF IInv, TypeOK
<1>8. FieldsAgree'
  <2> SUFFICES ASSUME NEW x \in Procs
               PROVE  /\ flags'[x] = {} => Idle(x)'
                      /\ SENDING \in flags'[x] =>
                           /\ flags'[x] = {SENDING} /\ msg'[x]
                           /\ sendto'[x] \in Procs \ {x} /\ recvfrom'[x] = NO_TASK
                      /\ RECEIVING \in flags'[x] =>
                           /\ flags'[x] = {RECEIVING} /\ msg'[x]
                           /\ recvfrom'[x] \in Sources \ {x} /\ sendto'[x] = NO_TASK
    BY DEF FieldsAgree
  <2>1. CASE x = q
    BY <2>1, <1>3, <1>4 DEF Idle
  <2>2. CASE x # q
    BY <2>2, <1>4 DEF IInv, FieldsAgree, Idle
  <2> QED
    BY <2>1, <2>2
<1>9. CallInv'
  <2>1. /\ \A x \in Procs \ {p} : buf'[x] = buf[x] /\ both'[x] = both[x]
        /\ both'[p] = NO_TASK
    BY <1>2 DEF IInv, TypeOK
  <2> QED
    BY <1>1, <1>3, <1>4, <2>1, SMT DEF IInv, CallInv
<1>11. NoMissedRendezvous'
  BY <1>3, <1>4 DEF IInv, NoMissedRendezvous, SendingTo, Awaits
<1>12. NoMissedInterrupt'
  BY <1>3, <1>4 DEF IInv, NoMissedInterrupt, AwaitsInt
<1>13. SendGraphAcyclic'
  <2>1. \A x \in Procs : SENDING \in flags'[x] =>
                            SENDING \in flags[x] /\ sendto'[x] = sendto[x]
    BY <1>3, <1>4
  <2> QED
    BY <2>1 DEF IInv, SendGraphAcyclic
<1>14. AssertsHold'
  <2>1. q \in Range(sending_queue[p]) /\ sendto[q] = p
    BY <1>3 DEF SendingTo
  <2> QED
    BY <1>1, <1>2, <1>3, <2>1 DEF IInv, AssertsHold, AssertThat
<1> QED
  BY <1>5, <1>7, <1>8, <1>9, <1>11, <1>12, <1>13, <1>14 DEF IInv

\* A receiver that finds neither an interrupt nor a sender may block.
LEMMA ReceiveBlockInv ==
  ASSUME IInv, NEW p \in Procs, NEW src \in Sources \ {p},
         NEW body \in Bodies \cup {ZeroBody}, src \in Procs => ~has_int_msg[p],
         Runnable(p), ReceiveBlock(p, src, body), both' = [both EXCEPT ![p] = NO_TASK]
  PROVE  IInv'
<1> USE ConstantsAssumption DEF SENDING, RECEIVING
<1>1. Idle(p) /\ halt = "no" /\ SENDING \notin flags[p]
  BY CallerIdle
<1>2. /\ flags'[p] = {RECEIVING} /\ \A x \in Procs \ {p} : flags'[x] = flags[x]
      /\ recvfrom'[p] = src /\ \A x \in Procs \ {p} : recvfrom'[x] = recvfrom[x]
      /\ sendto' = sendto /\ has_int_msg' = has_int_msg
      /\ sending_queue' = sending_queue
  BY <1>1 DEF IInv, TypeOK, ReceiveBlock, Idle
<1>3. msg'[p] /\ \A x \in Procs \ {p} : msg'[x] = msg[x]
  BY DEF IInv, TypeOK, ReceiveBlock
<1>4. ~has_int_msg[p]
  BY DEF ReceiveBlock, IntPending, Sources
<1>5. TypeOK'
  <2>1. buf' \in [Procs -> Message]
    BY SentMessage DEF IInv, TypeOK, ReceiveBlock
  <2> QED
    BY <2>1 DEF IInv, TypeOK, ReceiveBlock, AssertThat
<1>6. FieldsAgree'
  <2> SUFFICES ASSUME NEW x \in Procs
               PROVE  /\ flags'[x] = {} => Idle(x)'
                      /\ SENDING \in flags'[x] =>
                           /\ flags'[x] = {SENDING} /\ msg'[x]
                           /\ sendto'[x] \in Procs \ {x} /\ recvfrom'[x] = NO_TASK
                      /\ RECEIVING \in flags'[x] =>
                           /\ flags'[x] = {RECEIVING} /\ msg'[x]
                           /\ recvfrom'[x] \in Sources \ {x} /\ sendto'[x] = NO_TASK
    BY DEF FieldsAgree
  <2>1. CASE x = p
    BY <2>1, <1>1, <1>2, <1>3 DEF Idle
  <2>2. CASE x # p
    BY <2>2, <1>2, <1>3 DEF IInv, FieldsAgree, Idle
  <2> QED
    BY <2>1, <2>2
<1>7. CallInv'
  <2>1. /\ \A x \in Procs \ {p} : buf'[x] = buf[x] /\ both'[x] = both[x]
        /\ both'[p] = NO_TASK
    BY DEF IInv, TypeOK, ReceiveBlock
  <2> QED
    BY <1>1, <1>2, <2>1, SMT DEF IInv, CallInv
<1>8. QueueHoldsSenders'
  <2>1. \A x, y \in Procs : SendingTo(x, y)' <=> SendingTo(x, y)
    BY <1>1, <1>2 DEF SendingTo
  <2> QED
    BY <1>2, <2>1 DEF IInv, QueueHoldsSenders
<1>9. NoMissedRendezvous'
  <2> SUFFICES ASSUME NEW x \in Procs, NEW y \in Procs, SendingTo(x, y)', Awaits(y, x)'
               PROVE  FALSE
    BY DEF NoMissedRendezvous
  <2>1. SendingTo(x, y)
    BY <1>2, SMT DEF SendingTo
  <2>2. CASE y = p
    <3>1. src \in {x, ANY}
      BY <2>2, <1>2 DEF Awaits
    <3> QED
      BY <2>1, <2>2, <3>1, FromEmpty DEF ReceiveBlock
  <2>3. CASE y # p
    BY <2>1, <2>3, <1>2 DEF IInv, NoMissedRendezvous, Awaits
  <2> QED
    BY <2>2, <2>3
<1>10. NoMissedInterrupt'
  BY <1>2, <1>4 DEF IInv, NoMissedInterrupt, AwaitsInt
<1>11. SendGraphAcyclic'
  <2>1. \A x \in Procs : SENDING \in flags'[x] => SENDING \in flags[x]
    BY <1>2, SMT
  <2> QED
    BY <1>2, <2>1 DEF IInv, SendGraphAcyclic
<1>12. AssertsHold'
  BY <1>1, <1>2, <1>4 DEF IInv, AssertsHold, ReceiveBlock, AssertThat, Idle
<1> QED
  BY <1>5, <1>6, <1>7, <1>8, <1>9, <1>10, <1>11, <1>12 DEF IInv

\* inform_init preserves the invariant, whether it wakes the task or latches.
LEMMA InformInv ==
  ASSUME IInv, NEW t \in IntTasks, inform_init(t)
  PROVE  IInv'
<1> USE ConstantsAssumption DEF SENDING, RECEIVING
<1>1. t \in Procs /\ halt = "no" /\ both[t] = NO_TASK /\ both' = both
  BY DEF inform_init, InDialogue
<1>2. CASE InformDeliver(t)
  <2>1. flags[t] = {RECEIVING} /\ msg[t] /\ sendto[t] = NO_TASK
    BY <1>1, <1>2 DEF IInv, FieldsAgree, InformDeliver, AwaitsInt
  <2>2. /\ flags'[t] = {} /\ \A x \in Procs \ {t} : flags'[x] = flags[x]
        /\ recvfrom'[t] = NO_TASK /\ \A x \in Procs \ {t} : recvfrom'[x] = recvfrom[x]
        /\ sendto' = sendto /\ sending_queue' = sending_queue
    BY <1>1, <1>2, <2>1 DEF IInv, TypeOK, InformDeliver
  <2>3. /\ ~msg'[t] /\ \A x \in Procs \ {t} : msg'[x] = msg[x]
        /\ ~has_int_msg'[t] /\ \A x \in Procs \ {t} : has_int_msg'[x] = has_int_msg[x]
    BY <1>1, <1>2 DEF IInv, TypeOK, InformDeliver
  <2>4. TypeOK'
    <3>1. IntMessage \in Message
      BY DEF IntMessage, Message
    <3> QED
      BY <1>1, <1>2, <3>1 DEF IInv, TypeOK, InformDeliver, AssertThat
  <2>5. FieldsAgree'
    <3> SUFFICES ASSUME NEW x \in Procs
                 PROVE  /\ flags'[x] = {} => Idle(x)'
                        /\ SENDING \in flags'[x] =>
                             /\ flags'[x] = {SENDING} /\ msg'[x]
                             /\ sendto'[x] \in Procs \ {x} /\ recvfrom'[x] = NO_TASK
                        /\ RECEIVING \in flags'[x] =>
                             /\ flags'[x] = {RECEIVING} /\ msg'[x]
                             /\ recvfrom'[x] \in Sources \ {x} /\ sendto'[x] = NO_TASK
      BY DEF FieldsAgree
    <3>1. CASE x = t
      BY <3>1, <2>1, <2>2, <2>3 DEF Idle
    <3>2. CASE x # t
      BY <3>2, <2>2, <2>3 DEF IInv, FieldsAgree, Idle
    <3> QED
      BY <3>1, <3>2
  <2>6. CallInv'
    <3>1. \A x \in Procs \ {t} : buf'[x] = buf[x]
      BY <1>2 DEF IInv, TypeOK, InformDeliver
    <3> QED
      BY <1>1, <2>2, <2>3, <3>1 DEF IInv, CallInv
  <2>7. \A x \in Procs : SENDING \in flags'[x] <=> SENDING \in flags[x]
    BY <2>1, <2>2, SMT
  <2>8. QueueHoldsSenders' /\ SendGraphAcyclic'
    BY <2>2, <2>7 DEF IInv, QueueHoldsSenders, SendGraphAcyclic, SendingTo
  <2>9. NoMissedRendezvous' /\ NoMissedInterrupt'
    BY <2>2, <2>3, <2>7 DEF IInv, NoMissedRendezvous, NoMissedInterrupt,
                            SendingTo, Awaits, AwaitsInt
  <2>10. AssertsHold'
    BY <1>1, <1>2, <2>1, <2>2 DEF AssertsHold, InformDeliver, AssertThat
  <2> QED
    BY <2>4, <2>5, <2>6, <2>8, <2>9, <2>10 DEF IInv
<1>3. CASE InformLatch(t)
  <2>1. TypeOK' /\ FieldsAgree' /\ QueueHoldsSenders' /\ NoMissedRendezvous'
        /\ SendGraphAcyclic' /\ AssertsHold'
    <3>1. UNCHANGED <<flags, msg, recvfrom, sendto, sending_queue, buf, both, halt>>
      BY <1>1, <1>3 DEF InformLatch
    <3>2. has_int_msg' \in [Procs -> BOOLEAN]
      BY <1>3 DEF IInv, TypeOK, InformLatch
    <3>3. TypeOK'
      BY <3>1, <3>2 DEF IInv, TypeOK
    <3>4. FieldsAgree' /\ QueueHoldsSenders' /\ NoMissedRendezvous'
      BY <3>1 DEF IInv, FieldsAgree, Idle, QueueHoldsSenders, NoMissedRendezvous, SendingTo, Awaits
    <3>5. SendGraphAcyclic' /\ AssertsHold'
      BY <3>1 DEF IInv, SendGraphAcyclic, AssertsHold
    <3> QED
      BY <3>3, <3>4, <3>5
  <2>2. CallInv' /\ NoMissedInterrupt'
    BY <1>1, <1>3, SMT DEF IInv, TypeOK, InformLatch, CallInv, NoMissedInterrupt, AwaitsInt
  <2> QED
    BY <2>1, <2>2 DEF IInv
<1> QED
  BY <1>2, <1>3 DEF inform_init

-----------------------------------------------------------------------------
(***************************************************************************)
(* Safety                                                                  *)
(***************************************************************************)

\* proc_table as kernel_main leaves it satisfies the invariant.
LEMMA InitInv == Init => IInv
<1> SUFFICES ASSUME Init PROVE IInv
  OBVIOUS
<1> USE ConstantsAssumption DEF Init
<1>1. TypeOK
  BY SMT DEF TypeOK, Message
<1>2. FieldsAgree /\ CallInv
  BY DEF FieldsAgree, CallInv, Idle
<1>3. QueueHoldsSenders
  BY SMT DEF QueueHoldsSenders, SendingTo, Range, IsInjective
<1>4. NoMissedRendezvous /\ NoMissedInterrupt /\ SendGraphAcyclic /\ AssertsHold
  BY DEF NoMissedRendezvous, NoMissedInterrupt, SendGraphAcyclic, AssertsHold,
         SendingTo, AwaitsInt
<1> QED
  BY <1>1, <1>2, <1>3, <1>4 DEF IInv

\* A step that changes nothing preserves the invariant.
LEMMA StutterInv == IInv /\ UNCHANGED vars => IInv'
<1> SUFFICES ASSUME IInv, UNCHANGED vars PROVE IInv'
  OBVIOUS
<1>1. (TypeOK /\ FieldsAgree /\ CallInv)'
  BY DEF IInv, vars, kernel, TypeOK, FieldsAgree, CallInv, Idle
<1>2. (QueueHoldsSenders /\ SendGraphAcyclic /\ AssertsHold)'
  BY DEF IInv, vars, kernel, QueueHoldsSenders, SendGraphAcyclic, AssertsHold, SendingTo
<1>3. (NoMissedRendezvous /\ NoMissedInterrupt)'
  BY DEF IInv, vars, kernel, NoMissedRendezvous, NoMissedInterrupt, SendingTo, Awaits,
         AwaitsInt
<1> QED
  BY <1>1, <1>2, <1>3 DEF IInv

\* What every receiving step is, whether it is a plain RECEIVE or the second
\* half of BOTH: the caller's dialogue ends with it, the body it puts into the
\* buffer is the cleared one or the request, and no interrupt is pending when
\* it asks for a process.
LEMMA ReceiveStep ==
  ASSUME IInv, NEW p \in Procs,
         ReceiveBoth(p) \/ \E src \in Sources \ {p} : Receive(p, src)
  PROVE  /\ Runnable(p) /\ both' = [both EXCEPT ![p] = NO_TASK]
         /\ \E src \in Sources \ {p}, body \in Bodies \cup {ZeroBody} :
              /\ src \in Procs => ~has_int_msg[p]
              /\ msg_receive(p, src, body)
<1>1. CASE ReceiveBoth(p)
  <2>1. both[p] \in Sources \ {p} /\ buf[p].body \in Bodies /\ ~has_int_msg[p]
    BY <1>1 DEF ReceiveBoth, IInv, TypeOK, CallInv, Sources
  <2> QED
    BY <1>1, <2>1 DEF ReceiveBoth
<1>2. CASE \E src \in Sources \ {p} : Receive(p, src)
  <2>1. PICK src \in Sources \ {p} : Receive(p, src)
    BY <1>2
  <2>2. src \in Procs => ~has_int_msg[p]
    BY <2>1 DEF Receive, MayTalk, IInv, CallInv
  <2>3. both' = [both EXCEPT ![p] = NO_TASK]
    BY <2>1 DEF Receive, IInv, TypeOK
  <2> QED
    BY <2>1, <2>2, <2>3 DEF Receive
<1> QED
  BY <1>1, <1>2

\* The same for the sending steps.
LEMMA SendStep ==
  ASSUME IInv, NEW p \in Procs, NEW dest \in Procs \ {p}, NEW body \in Bodies,
         Send(p, dest, body) \/ SendBoth(p, dest, body)
  PROVE  /\ Runnable(p) /\ msg_send(p, dest, body)
         /\ both' = both \/ (both' = [both EXCEPT ![p] = dest] /\ ~has_int_msg[p])
BY DEF Send, SendBoth, MayTalk, IInv, CallInv

\* Every step preserves the invariant.
LEMMA NextInv == IInv /\ [Next]_vars => IInv'
<1> SUFFICES ASSUME IInv, [Next]_vars PROVE IInv'
  OBVIOUS
<1>1. ASSUME NEW p \in Procs, NEW dest \in Procs \ {p}, NEW body \in Bodies,
             Send(p, dest, body) \/ SendBoth(p, dest, body)
      PROVE  IInv'
  BY <1>1, SendStep, SendPanicInv, SendDeliverInv, SendBlockInv DEF msg_send
<1>2. ASSUME NEW p \in Procs,
             ReceiveBoth(p) \/ \E src \in Sources \ {p} : Receive(p, src)
      PROVE  IInv'
  <2>1. /\ Runnable(p) /\ both' = [both EXCEPT ![p] = NO_TASK]
        /\ \E src \in Sources \ {p}, body \in Bodies \cup {ZeroBody} :
             /\ src \in Procs => ~has_int_msg[p]
             /\ msg_receive(p, src, body)
    BY <1>2, ReceiveStep
  <2> QED
    BY <2>1, ReceiveIntInv, ReceiveQueuedInv, ReceiveBlockInv DEF msg_receive
<1>3. ASSUME NEW t \in IntTasks, inform_init(t)
      PROVE  IInv'
  BY <1>3, InformInv
<1>4. CASE UNCHANGED vars
  BY <1>4, StutterInv
<1> QED
  BY <1>1, <1>2, <1>3, <1>4 DEF Next

\* The invariant holds of every behaviour of sendrec() and inform_init().
THEOREM Inductive == Spec => []IInv
<1>1. Init => IInv
  BY InitInv
<1>2. IInv /\ [Next]_vars => IInv'
  BY NextInv
<1> QED
  BY <1>1, <1>2, PTL DEF Spec

\* The variables of proc_table keep their types.
THEOREM TypeCorrect == Spec => []TypeOK
<1>1. IInv => TypeOK
  BY DEF IInv
<1> QED
  BY <1>1, Inductive, PTL

\* No assert() of msg_send, msg_receive or inform_init fails, whatever
\* processes call whatever processes in whatever order.
THEOREM AssertsNeverFail == Spec => []AssertsHold
<1>1. IInv => AssertsHold
  BY DEF IInv
<1> QED
  BY <1>1, Inductive, PTL

\* The list of a process holds its blocked senders, each of them once.
THEOREM QueueIsSenders == Spec => []QueueHoldsSenders
<1>1. IInv => QueueHoldsSenders
  BY DEF IInv
<1> QED
  BY <1>1, Inductive, PTL

\* A sender and a receiver that would match are never both blocked.
THEOREM NoRendezvousMissed == Spec => []NoMissedRendezvous
<1>1. IInv => NoMissedRendezvous
  BY DEF IInv
<1> QED
  BY <1>1, Inductive, PTL

\* No task sleeps in msg_receive on an interrupt that inform_init signalled.
THEOREM NoInterruptMissed == Spec => []NoMissedInterrupt
<1>1. IInv => NoMissedInterrupt
  BY DEF IInv
<1> QED
  BY <1>1, Inductive, PTL

\* Blocked sends never form a cycle: what deadlock() is there for.
THEOREM NoSendCycle == Spec => []SendGraphAcyclic
<1>1. IInv => SendGraphAcyclic
  BY DEF IInv
<1> QED
  BY <1>1, Inductive, PTL
=============================================================================
