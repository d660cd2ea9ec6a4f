--------------------------- MODULE ReportingProofs ---------------------------
(* Theorems about Reporting, for any clients, reports, runs and keys, and any  *)
(* number of deaths and late requests.                                         *)
EXTENDS Reporting, PickingProofs

\* What a client does.
Doing == {"idle", "next", "wait", "ok", "error", "rejected", "rewrite"}

\* A request of this module, whatever report it carries.
Shaped(m) == m = [from |-> m.from, report |-> m.report, stage |-> m.stage]

\* A client that waits for an answer waits for one request, that of the report at
\* the head of its list; the keys seen are those of the stream; who was answered
\* ok has its key there.
JudgeInv ==
    /\ pc \in [Clients -> Doing]
    /\ todo = [c \in Clients |-> todo[c]]
    /\ \A m \in wire : Shaped(m)
    /\ \A m \in wire : m.from \in Clients => pc[m.from] = "wait" /\ m.report = Current(m.from)
    /\ \A m, n \in wire : m.from \in Clients /\ m.from = n.from => m = n
    /\ stream \in Seq(Keys)
    /\ seen = ToSet(stream)
    /\ \A i, j \in DOMAIN stream : stream[i] = stream[j] => i = j
    /\ \A c \in Clients : pc[c] = "ok" => KeyOf[Current(c)] \in ToSet(stream)
    /\ \A r \in settled : KeyOf[r] \in ToSet(stream)

LEMMA JudgeInit == Init => JudgeInv
<1> SUFFICES ASSUME Init PROVE JudgeInv
    OBVIOUS
<1>1. stream = <<>> /\ stream \in Seq(Keys) /\ ToSet(stream) = {} /\ DOMAIN stream = {}
    BY DEF Init, ToSet
<1> QED
    BY <1>1 DEF Init, JudgeInv, Doing

\* A client that goes on has no request and no answer of its own left.
LEMMA ClientGoesOn ==
    ASSUME JudgeInv, NEW c \in Clients,
           pc' \in [Clients -> Doing], pc'[c] \notin {"wait", "ok"},
           todo' = [d \in Clients |-> todo'[d]],
           \A d \in Clients \ {c} : pc'[d] = pc[d] /\ todo'[d] = todo[d],
           \A m \in wire' : Shaped(m) /\ (m.from \in Clients => m \in wire /\ m.from # c),
           UNCHANGED <<seen, stream>>,
           \A r \in settled' : KeyOf[r] \in ToSet(stream)
    PROVE  JudgeInv'
BY DEF JudgeInv, Current

\* Nobody waits for an abandoned request.
LEMMA AbandonedType ==
    ASSUME JudgeInv, NEW c \in Clients,
           wire' \in {wire \ By(c), Abandoned(c)}
    PROVE  \A m \in wire' : Shaped(m) /\ (m.from \in Clients => m \in wire /\ m.from # c)
<1> DEFINE orphans == {[m EXCEPT !.from = Nobody] : m \in By(c)}
<1>1. wire' \subseteq (wire \ By(c)) \cup orphans
    BY DEF Abandoned
<1>2. ASSUME NEW m \in wire \ By(c)
      PROVE  Shaped(m) /\ m.from # c
    BY <1>2 DEF JudgeInv, By
<1>3. ASSUME NEW m \in By(c)
      PROVE  LET o == [m EXCEPT !.from = Nobody]
             IN  Shaped(o) /\ o.from = Nobody
    BY <1>3 DEF JudgeInv, By, Shaped
<1> QED
    BY <1>1, <1>2, <1>3, ReportingAssumption

LEMMA ClientNext ==
    ASSUME JudgeInv, NEW c \in Clients, BeginRun(c) \/ Work(c) \/ ClientDies(c)
    PROVE  JudgeInv'
<1> USE DEF client, server, history
<1>1. pc[c] # "wait" => \A m \in wire : Shaped(m) /\ (m.from \in Clients => m.from # c)
    BY DEF JudgeInv
<1>2. CASE BeginRun(c)
    BY <1>1, <1>2, ClientGoesOn DEF BeginRun, JudgeInv, Doing
<1>3. CASE Send(c)
  <2> DEFINE new == [from |-> c, report |-> Current(c), stage |-> "sent"]
  <2>1. /\ wire' = wire \cup {new} /\ pc[c] = "next"
        /\ pc' = [pc EXCEPT ![c] = "wait"]
        /\ UNCHANGED <<todo, seen, stream, settled>>
    BY <1>3 DEF Send
  <2>2. Shaped(new) /\ new.from = c /\ new.report = Current(c)
    BY DEF Shaped
  <2>3. /\ pc' \in [Clients -> Doing] /\ pc'[c] = "wait"
        /\ \A d \in Clients \ {c} : pc'[d] = pc[d]
    BY <2>1 DEF JudgeInv, Doing
  <2>4. \A d \in Clients : Current(d)' = Current(d)
    BY <2>1 DEF Current
  <2> QED
    BY <1>1, <2>1, <2>2, <2>3, <2>4 DEF JudgeInv
<1>4. CASE GiveUp(c)
  <2>1. pc' = [pc EXCEPT ![c] = "error"] /\ UNCHANGED <<todo, seen, stream, settled>>
    BY <1>4 DEF GiveUp
  <2>2. \A m \in wire' : Shaped(m) /\ (m.from \in Clients => m \in wire /\ m.from # c)
    BY <1>4, AbandonedType DEF GiveUp
  <2> QED
    BY <2>1, <2>2, ClientGoesOn DEF JudgeInv, Doing
<1>5. ASSUME Advance(c)
      PROVE  /\ pc' \in [Clients -> Doing] /\ pc'[c] = "next"
             /\ todo' = [d \in Clients |-> todo'[d]]
             /\ \A d \in Clients \ {c} : pc'[d] = pc[d] /\ todo'[d] = todo[d]
    BY <1>5 DEF Advance, JudgeInv, Doing
<1>6. CASE Delivered(c)
  <2>1. \A r \in settled' : KeyOf[r] \in ToSet(stream)
    BY <1>6 DEF Delivered, JudgeInv
  <2> QED
    BY <1>1, <1>5, <1>6, <2>1, ClientGoesOn DEF Delivered
<1>7. CASE Rejected(c) \/ Queued(c)
  <2>1. /\ Advance(c) /\ pc[c] # "wait" /\ UNCHANGED <<wire, seen, stream, settled>>
    BY <1>7 DEF Rejected, Queued
  <2> QED
    BY <1>1, <1>5, <2>1, ClientGoesOn DEF JudgeInv
<1>8. ASSUME EndRun(c)
      PROVE  /\ pc' \in [Clients -> Doing] /\ pc'[c] = "idle"
             /\ todo' = [d \in Clients |-> todo'[d]]
             /\ \A d \in Clients \ {c} : pc'[d] = pc[d] /\ todo'[d] = todo[d]
    BY <1>8 DEF EndRun, JudgeInv, Doing
<1>9. CASE ReadQueue(c)
  <2>1. pc[c] = "next" /\ UNCHANGED <<wire, seen, stream, settled>>
    BY <1>9 DEF ReadQueue
  <2>2. CASE EndRun(c)
    BY <1>1, <1>8, <2>1, <2>2, ClientGoesOn DEF JudgeInv
  <2>3. CASE pc' = pc /\ todo' = [todo EXCEPT ![c] = History(c)]
    BY <1>1, <2>1, <2>3, ClientGoesOn DEF JudgeInv
  <2> QED
    BY <1>9, <2>2, <2>3 DEF ReadQueue
<1>10. CASE Truncate(c)
    BY <1>1, <1>10, ClientGoesOn DEF Truncate, JudgeInv, Doing
<1>11. CASE Rewrite(c)
  <2>1. EndRun(c) /\ pc[c] = "rewrite" /\ UNCHANGED <<wire, seen, stream, settled>>
    BY <1>11 DEF Rewrite
  <2> QED
    BY <1>1, <1>8, <2>1, ClientGoesOn DEF JudgeInv
<1>12. CASE ClientDies(c)
  <2>1. EndRun(c) /\ UNCHANGED <<seen, stream, settled>>
    BY <1>12 DEF ClientDies
  <2>2. \A m \in wire' : Shaped(m) /\ (m.from \in Clients => m \in wire /\ m.from # c)
    BY <1>12, AbandonedType DEF ClientDies
  <2> QED
    BY <1>8, <2>1, <2>2, ClientGoesOn DEF JudgeInv
<1> QED
    BY <1>2, <1>3, <1>4, <1>6, <1>7, <1>9, <1>10, <1>11, <1>12 DEF Work, Conclude, FlushQueue

-----------------------------------------------------------------------------
(* The server.                                                              *)

\* A key that is judged joins the stream, unless it is there.
LEMMA Judged ==
    ASSUME JudgeInv, NEW r \in Reports, Judge(r)
    PROVE  /\ stream' \in Seq(Keys)
           /\ seen' = ToSet(stream')
           /\ \A i, j \in DOMAIN stream' : stream'[i] = stream'[j] => i = j
           /\ ToSet(stream') = ToSet(stream) \cup {KeyOf[r]}
<1>1. KeyOf[r] \in Keys /\ stream \in Seq(Keys) /\ seen = ToSet(stream)
    BY DEF Keys, JudgeInv
<1>2. CASE KeyOf[r] \in seen
    BY <1>1, <1>2 DEF Judge, JudgeInv
<1>3. CASE KeyOf[r] \notin seen
  <2>1. stream' = Append(stream, KeyOf[r]) /\ seen' = seen \cup {KeyOf[r]}
    BY <1>3 DEF Judge
  <2>2. /\ stream' \in Seq(Keys) /\ Len(stream') = Len(stream) + 1
        /\ \A i \in 1 .. Len(stream) : stream'[i] = stream[i]
        /\ stream'[Len(stream) + 1] = KeyOf[r]
        /\ DOMAIN stream = 1 .. Len(stream) /\ DOMAIN stream' = 1 .. (Len(stream) + 1)
        /\ Len(stream) \in Nat
    BY <1>1, <2>1
  <2>3. ToSet(stream') = ToSet(stream) \cup {KeyOf[r]}
    <3>1. ASSUME NEW k \in ToSet(stream) PROVE k \in ToSet(stream')
      <4>1. PICK i \in 1 .. Len(stream) : k = stream[i]
        BY <2>2 DEF ToSet
      <4>2. i \in DOMAIN stream' /\ stream'[i] = k
        BY <2>2, <4>1
      <4> QED
        BY <4>2 DEF ToSet
    <3>2. KeyOf[r] \in ToSet(stream')
      <4>1. Len(stream) + 1 \in DOMAIN stream'
        BY <2>2
      <4> QED
        BY <2>2, <4>1 DEF ToSet
    <3>3. ASSUME NEW k \in ToSet(stream') PROVE k \in ToSet(stream) \cup {KeyOf[r]}
      <4>1. PICK i \in 1 .. (Len(stream) + 1) : k = stream'[i]
        BY <2>2 DEF ToSet
      <4>2. CASE i \in 1 .. Len(stream)
        BY <2>2, <4>1, <4>2 DEF ToSet
      <4>3. CASE i = Len(stream) + 1
        BY <2>2, <4>1, <4>3
      <4> QED
        BY <2>2, <4>1, <4>2, <4>3
    <3> QED
      BY <3>1, <3>2, <3>3
  <2>4. \A i \in 1 .. Len(stream) : stream[i] # KeyOf[r]
    BY <1>1, <1>3, <2>2 DEF ToSet
  <2>5. ASSUME NEW i \in DOMAIN stream', NEW j \in DOMAIN stream', stream'[i] = stream'[j]
        PROVE  i = j
    <3>1. CASE i \in 1 .. Len(stream) /\ j \in 1 .. Len(stream)
      BY <2>2, <2>5, <3>1 DEF JudgeInv
    <3>2. CASE i = Len(stream) + 1 \/ j = Len(stream) + 1
      BY <2>2, <2>4, <2>5, <3>2
    <3> QED
      BY <2>2, <3>1, <3>2
  <2> QED
    BY <1>1, <2>1, <2>2, <2>3, <2>5
<1> QED
    BY <1>2, <1>3

\* A client takes an answer only to the request it waits for.
LEMMA Answered ==
    ASSUME JudgeInv, NEW m \in wire, NEW result \in {"ok", "error", "rejected"},
           Answer(m, result), wire' = wire \ {m}, UNCHANGED <<todo, settled>>,
           stream' \in Seq(Keys), seen' = ToSet(stream'), ToSet(stream) \subseteq ToSet(stream'),
           \A i, j \in DOMAIN stream' : stream'[i] = stream'[j] => i = j,
           result = "ok" => KeyOf[m.report] \in ToSet(stream'),
           m.from \in Clients \cup {Nobody}
    PROVE  JudgeInv'
<1>1. \A d \in Clients : Current(d)' = Current(d)
    BY DEF Current
<1>2. CASE pc' = pc
    BY <1>1, <1>2 DEF JudgeInv
<1>3. CASE m.from # Nobody /\ pc' = [pc EXCEPT ![m.from] = result]
  <2>1. m.from \in Clients /\ m.report = Current(m.from)
    BY <1>3 DEF JudgeInv
  <2>2. /\ pc' \in [Clients -> Doing] /\ pc'[m.from] = result
        /\ \A d \in Clients \ {m.from} : pc'[d] = pc[d]
    BY <1>3, <2>1 DEF JudgeInv, Doing
  <2>3. \A n \in wire' : n \in wire /\ n.from # m.from
    BY <2>1 DEF JudgeInv
  <2>4. \A n \in wire' : n.from \in Clients =>
            pc'[n.from] = "wait" /\ n.report = Current(n.from)'
    BY <1>1, <2>2, <2>3 DEF JudgeInv
  <2>5. \A d \in Clients : pc'[d] = "ok" => KeyOf[Current(d)'] \in ToSet(stream')
    BY <1>1, <2>1, <2>2 DEF JudgeInv
  <2> QED
    BY <2>2, <2>3, <2>4, <2>5 DEF JudgeInv
<1> QED
    BY <1>2, <1>3 DEF Answer

LEMMA ServerNext ==
    ASSUME JudgeInv, NEW m \in Requests, LookUp(m) \/ Handle(m)
    PROVE  JudgeInv'
<1> USE DEF client, server, history
<1>0. m.from \in Clients \cup {Nobody} /\ m.report \in Reports
    BY DEF Requests
<1>1. CASE LookUp(m)
  <2>1. m \in wire /\ UNCHANGED <<todo, settled, seen, stream>>
    BY <1>1 DEF LookUp
  <2>2. CASE wire' = wire \ {m} /\ Answer(m, "rejected")
    BY <1>0, <2>1, <2>2, Answered DEF JudgeInv
  <2>3. CASE /\ wire' = (wire \ {m}) \cup {[m EXCEPT !.stage = "known"]}
             /\ UNCHANGED pc
    <3> DEFINE known == [m EXCEPT !.stage = "known"]
    <3>1. Shaped(known) /\ known.from = m.from /\ known.report = m.report
      BY DEF Requests, Shaped
    <3>2. \A n \in wire' : n = known \/ (n \in wire /\ n # m)
      BY <2>3
    <3>3. \A n \in wire' : Shaped(n)
      BY <3>1, <3>2 DEF JudgeInv
    <3>4. \A n \in wire' : n.from \in Clients =>
              pc'[n.from] = "wait" /\ n.report = Current(n.from)'
      BY <2>1, <2>3, <3>1, <3>2 DEF JudgeInv, Current
    <3>5. \A n, o \in wire' : n.from \in Clients /\ n.from = o.from => n = o
      BY <2>1, <3>1, <3>2 DEF JudgeInv
    <3> QED
      BY <2>1, <2>3, <3>3, <3>4, <3>5 DEF JudgeInv, Current
  <2> QED
    BY <1>1, <2>2, <2>3 DEF LookUp
<1>2. CASE Handle(m)
  <2>1. m \in wire /\ wire' = wire \ {m} /\ UNCHANGED <<todo, settled>>
    BY <1>2 DEF Handle
  <2>2. ASSUME Judge(m.report), NEW result \in {"ok", "error"}, Answer(m, result)
        PROVE  JudgeInv'
    BY <1>0, <2>1, <2>2, Judged, Answered
  <2>3. CASE Answer(m, "error") /\ UNCHANGED <<seen, stream>>
    BY <1>0, <2>1, <2>3, Answered DEF JudgeInv
  <2> QED
    BY <1>2, <2>2, <2>3 DEF Handle
<1> QED
    BY <1>1, <1>2

LEMMA JudgeNext == JudgeInv /\ [Next]_vars => JudgeInv'
<1> SUFFICES ASSUME JudgeInv, [Next]_vars PROVE JudgeInv'
    OBVIOUS
<1> USE DEF client, server, history
<1>1. ASSUME NEW c \in Clients, BeginRun(c) \/ Work(c) \/ ClientDies(c)
      PROVE  JudgeInv'
    BY <1>1, ClientNext
<1>2. ASSUME NEW m \in Requests, LookUp(m) \/ Handle(m)
      PROVE  JudgeInv'
    BY <1>2, ServerNext
<1>3. CASE Revoke
    BY <1>3 DEF Revoke, JudgeInv, Current
<1>4. CASE ServerDies
    BY <1>4 DEF ServerDies, Reload, JudgeInv, Current
<1>5. CASE UNCHANGED vars
    BY <1>5 DEF vars, JudgeInv, Current
<1> QED
    BY <1>1, <1>2, <1>3, <1>4, <1>5 DEF Next

\* A report that was delivered has been judged, and no report was judged twice:
\* not when it was sent again after a late or a lost answer, not by two clients,
\* and not across restarts of the gateway.
THEOREM ReportsJudgedOnce == Spec => []JudgedOnce
<1>1. JudgeInv => JudgedOnce
    BY DEF JudgeInv, JudgedOnce
<1> QED
    BY <1>1, JudgeInit, JudgeNext, PTL DEF Spec

-----------------------------------------------------------------------------
(* The set of the entries of a sequence.                                    *)

LEMMA ToSetOf ==
    ASSUME NEW S, NEW s \in Seq(S)
    PROVE  /\ \A x : x \in ToSet(s) <=> \E i \in 1..Len(s) : s[i] = x
           /\ ToSet(s) \subseteq S
BY DEF ToSet

LEMMA ToSetEmpty == ToSet(<<>>) = {}
BY DEF ToSet

LEMMA ToSetAppend ==
    ASSUME NEW S, NEW s \in Seq(S), NEW x \in S
    PROVE  ToSet(Append(s, x)) = ToSet(s) \cup {x}
<1>0. PICK u : u = Append(s, x)
    OBVIOUS
<1>1. /\ u \in Seq(S) /\ Len(u) = Len(s) + 1 /\ Len(s) \in Nat
      /\ \A i \in 1..Len(s) : u[i] = s[i]
      /\ u[Len(s) + 1] = x
    BY <1>0, AppendProperties
<1>2. ASSUME NEW y \in ToSet(s) PROVE y \in ToSet(u)
    <2>1. PICK i \in 1..Len(s) : s[i] = y
        BY ToSetOf
    <2> QED
        BY <1>1, <2>1, ToSetOf
<1>3. x \in ToSet(u)
    BY <1>1, ToSetOf
<1>4. ASSUME NEW y \in ToSet(u) PROVE y \in ToSet(s) \cup {x}
    <2>1. PICK i \in 1..(Len(s) + 1) : u[i] = y
        BY <1>1, ToSetOf
    <2> QED
        BY <1>1, <2>1, ToSetOf
<1> QED
    BY <1>0, <1>2, <1>3, <1>4

LEMMA ToSetTail ==
    ASSUME NEW S, NEW s \in Seq(S), s # <<>>
    PROVE  Head(s) \in S /\ Tail(s) \in Seq(S) /\ ToSet(s) = {Head(s)} \cup ToSet(Tail(s))
<1>0. PICK u : u = Tail(s)
    OBVIOUS
<1>1. /\ Head(s) \in S /\ u \in Seq(S) /\ Len(u) = Len(s) - 1
      /\ \A i \in 1..Len(u) : u[i] = s[i + 1]
      /\ Len(s) \in Nat \ {0} /\ Head(s) = s[1]
    BY <1>0, HeadTailProperties, EmptySeq
<1>2. ASSUME NEW y \in ToSet(s) PROVE y \in {Head(s)} \cup ToSet(u)
    <2>1. PICK i \in 1..Len(s) : s[i] = y
        BY ToSetOf
    <2>2. CASE i = 1
        BY <1>1, <2>1, <2>2
    <2>3. CASE i # 1
        <3>1. i - 1 \in 1..Len(u) /\ u[i - 1] = y
            BY <1>1, <2>1, <2>3
        <3> QED
            BY <1>1, <3>1, ToSetOf
    <2> QED
        BY <2>2, <2>3
<1>3. ASSUME NEW y \in ToSet(u) PROVE y \in ToSet(s)
    <2>1. PICK i \in 1..Len(u) : u[i] = y
        BY <1>1, ToSetOf
    <2>2. i + 1 \in 1..Len(s) /\ s[i + 1] = y
        BY <1>1, <2>1
    <2> QED
        BY <2>2, ToSetOf
<1>4. Head(s) \in ToSet(s)
    BY <1>1, ToSetOf
<1> QED
    BY <1>0, <1>1, <1>2, <1>3, <1>4

LEMMA ToSetConcat ==
    ASSUME NEW S, NEW s \in Seq(S), NEW t \in Seq(S)
    PROVE  s \o t \in Seq(S) /\ ToSet(s \o t) = ToSet(s) \cup ToSet(t)
<1>1. /\ s \o t \in Seq(S) /\ Len(s \o t) = Len(s) + Len(t)
      /\ Len(s) \in Nat /\ Len(t) \in Nat
      /\ \A i \in 1..(Len(s) + Len(t)) :
            (s \o t)[i] = IF i =< Len(s) THEN s[i] ELSE t[i - Len(s)]
    BY ConcatProperties
<1>2. ASSUME NEW y \in ToSet(s) PROVE y \in ToSet(s \o t)
    <2>1. PICK i \in 1..Len(s) : s[i] = y
        BY ToSetOf
    <2>2. i \in 1..(Len(s) + Len(t)) /\ (s \o t)[i] = y
        BY <1>1, <2>1
    <2> QED
        BY <1>1, <2>2, ToSetOf
<1>3. ASSUME NEW y \in ToSet(t) PROVE y \in ToSet(s \o t)
    <2>1. PICK i \in 1..Len(t) : t[i] = y
        BY ToSetOf
    <2>2. Len(s) + i \in 1..(Len(s) + Len(t)) /\ (s \o t)[Len(s) + i] = y
        BY <1>1, <2>1
    <2> QED
        BY <1>1, <2>2, ToSetOf
<1>4. ASSUME NEW y \in ToSet(s \o t) PROVE y \in ToSet(s) \cup ToSet(t)
    <2>1. PICK i \in 1..(Len(s) + Len(t)) : (s \o t)[i] = y
        BY <1>1, ToSetOf
    <2>2. CASE i =< Len(s)
        BY <1>1, <2>1, <2>2, ToSetOf
    <2>3. CASE ~(i =< Len(s))
        <3>1. i - Len(s) \in 1..Len(t) /\ t[i - Len(s)] = y
            BY <1>1, <2>1, <2>3
        <3> QED
            BY <3>1, ToSetOf
    <2> QED
        BY <2>2, <2>3
<1> QED
    BY <1>1, <1>2, <1>3, <1>4

\* A sequence cut in two.
LEMMA ToSetCut ==
    ASSUME NEW S, NEW s \in Seq(S), NEW n \in 0..Len(s)
    PROVE  /\ SubSeq(s, 1, n) \in Seq(S) /\ SubSeq(s, n + 1, Len(s)) \in Seq(S)
           /\ ToSet(s) = ToSet(SubSeq(s, 1, n)) \cup ToSet(SubSeq(s, n + 1, Len(s)))
<1>1. Len(s) \in Nat
    OBVIOUS
<1>2. SubSeq(s, 1, n) \in Seq(S) /\ SubSeq(s, n + 1, Len(s)) \in Seq(S)
    <2>1. (\A i \in 1..n : s[i] \in S) /\ (\A i \in (n + 1)..Len(s) : s[i] \in S)
        BY <1>1
    <2> QED
        BY <1>1, <2>1, SubSeqProperties
<1>3. s = SubSeq(s, 1, n) \o SubSeq(s, n + 1, Len(s))
    <2>1. CASE Len(s) = 0
        BY <1>1, <2>1
    <2>2. CASE Len(s) # 0
        <3>1. 1 \in 1..(Len(s) + 1) /\ n \in (1 - 1)..Len(s) /\ Len(s) \in n..Len(s)
            BY <1>1
        <3>2. SubSeq(s, 1, n) \o SubSeq(s, n + 1, Len(s)) = SubSeq(s, 1, Len(s))
            BY <3>1, ConcatAdjacentSubSeq
        <3> QED
            BY <3>2, SubSeqFull
    <2> QED
        BY <2>1, <2>2
<1> QED
    BY <1>2, <1>3, ToSetConcat

\* What a comprehension over the entries keeps.
LEMMA ToSetPicked ==
    ASSUME NEW S, NEW s \in Seq(S), NEW I \in SUBSET (DOMAIN s)
    PROVE  /\ Picked(s, I) \in Seq(S)
           /\ \A x : x \in ToSet(Picked(s, I)) <=> \E i \in I : s[i] = x
<1>1. PICK n \in Nat : n = Len(s) /\ DOMAIN s = 1..n
    OBVIOUS
<1>2. I \in SUBSET (1..n) /\ \A k \in I : s[k] \in S
    BY <1>1
<1>3. /\ Picked(s, I) \in Seq(S)
      /\ DOMAIN Picked(s, I) = 1..Cardinality(I)
      /\ \A r \in 1..Cardinality(I) : Place(I, r) \in I /\ Picked(s, I)[r] = s[Place(I, r)]
      /\ \A k \in I : \E r \in 1..Cardinality(I) : Picked(s, I)[r] = s[k]
    BY <1>2, PickedFacts
<1> QED
    BY <1>3 DEF ToSet

LEMMA WithinFacts ==
    ASSUME NEW S, NEW q \in Seq(S), NEW A
    PROVE  Within(q, A) \in Seq(S) /\ ToSet(Within(q, A)) = ToSet(q) \cap A
<1> DEFINE I == {i \in DOMAIN q : q[i] \in A}
<1>1. /\ Picked(q, I) \in Seq(S)
      /\ \A x : x \in ToSet(Picked(q, I)) <=> \E i \in I : q[i] = x
    <2>1. I \in SUBSET (DOMAIN q)
        OBVIOUS
    <2> HIDE DEF I
    <2> QED
        BY <2>1, ToSetPicked
<1>2. \A x : x \in ToSet(q) <=> \E i \in DOMAIN q : q[i] = x
    BY DEF ToSet
<1> QED
    BY <1>1, <1>2 DEF Within

-----------------------------------------------------------------------------
(* What a client holds.                                                     *)

\* A client that waits has a report to wait for; it flushes before it rewrites,
\* and with everything sent; nothing that failed this round is up for flushing.
Sound(c) ==
    /\ pc[c] \in Waiting => todo[c] # <<>>
    /\ pc[c] = "idle" => ~Flushing(c)
    /\ pc[c] = "rewrite" => Flushing(c) /\ todo[c] = <<>>
    /\ Flushing(c) => \A r \in ToSet(todo[c]) : r \notin skip[c]

ClientTypes ==
    /\ queue \in Seq(Reports) /\ Len(queue) =< MaxQueue
    /\ todo \in [Clients -> Seq(Reports)] /\ failed \in [Clients -> Seq(Reports)]
    /\ flush \in [Clients -> Seq(Reports)]
    /\ skip \in [Clients -> SUBSET Reports] /\ foreign \in [Clients -> SUBSET Reports]
    /\ wire \subseteq Requests /\ active \in BOOLEAN

ClientInv == JudgeInv /\ ClientTypes /\ \A c \in Clients : Sound(c)

LEMMA ClientInit == Init => ClientInv
<1> SUFFICES ASSUME Init PROVE ClientInv
    OBVIOUS
<1>1. <<>> \in Seq(Reports) /\ Len(<<>>) = 0 /\ MaxQueue \in Nat
    BY ReportingAssumption
<1>2. ClientTypes
    BY <1>1 DEF Init, ClientTypes, NotFlushing
<1>3. \A c \in Clients : Sound(c)
    BY DEF Init, Sound, Flushing, NotFlushing, Waiting
<1> QED
    BY <1>2, <1>3, JudgeInit DEF ClientInv

\* A step of one client leaves the others alone.
LEMMA ClientMoves ==
    ASSUME ClientInv, [Next]_vars, NEW c \in Clients, ClientTypes', Sound(c)',
           \A d \in Clients \ {c} : /\ pc'[d] = pc[d] /\ todo'[d] = todo[d]
                                    /\ flush'[d] = flush[d] /\ skip'[d] = skip[d]
    PROVE  ClientInv'
<1>1. \A d \in Clients \ {c} : Sound(d)'
    BY DEF ClientInv, Sound, Flushing
<1>2. JudgeInv'
    BY JudgeNext DEF ClientInv
<1> QED
    BY <1>1, <1>2 DEF ClientInv

LEMMA UnknownType ==
    ASSUME ClientTypes, NEW c \in Clients, NEW A \in SUBSET Reports, Unknown(c, A)
    PROVE  foreign' \in [Clients -> SUBSET Reports]
BY DEF ClientTypes, Unknown

LEMMA WireType ==
    ASSUME ClientTypes, NEW c \in Clients, wire' \in {wire \ By(c), Abandoned(c)}
    PROVE  wire' \subseteq Requests
<1> DEFINE orphans == {[m EXCEPT !.from = Nobody] : m \in By(c)}
<1>1. wire' \subseteq (wire \ By(c)) \cup orphans
    BY DEF Abandoned
<1>2. \A m \in By(c) : [m EXCEPT !.from = Nobody] \in Requests
    BY DEF ClientTypes, By, Requests
<1> QED
    BY <1>1, <1>2 DEF ClientTypes

\* The run of c ends: all it had is forgotten.
LEMMA RunEnds ==
    ASSUME ClientInv, NEW c \in Clients, EndRun(c)
    PROVE  /\ {todo', failed', flush'} \subseteq [Clients -> Seq(Reports)]
           /\ skip' \in [Clients -> SUBSET Reports]
           /\ \A d \in Clients \ {c} : /\ pc'[d] = pc[d] /\ todo'[d] = todo[d]
                                       /\ flush'[d] = flush[d] /\ skip'[d] = skip[d]
                                       /\ failed'[d] = failed[d]
           /\ pc'[c] = "idle" /\ ~Flushing(c)' /\ Sound(c)'
<1>1. <<>> \in Seq(Reports)
    OBVIOUS
<1>2. pc \in [Clients -> Doing] /\ ClientTypes
    BY DEF ClientInv, JudgeInv
<1>3. /\ {todo', failed', flush'} \subseteq [Clients -> Seq(Reports)]
      /\ skip' \in [Clients -> SUBSET Reports]
    BY <1>1, <1>2 DEF EndRun, ClientTypes, NotFlushing
<1>4. \A d \in Clients \ {c} : /\ pc'[d] = pc[d] /\ todo'[d] = todo[d]
                               /\ flush'[d] = flush[d] /\ skip'[d] = skip[d]
                               /\ failed'[d] = failed[d]
    BY <1>2 DEF EndRun, ClientTypes
<1>5. pc'[c] = "idle" /\ flush'[c] = NotFlushing
    BY <1>2 DEF EndRun, ClientTypes
<1> QED
    BY <1>3, <1>4, <1>5 DEF Sound, Flushing, Waiting

\* The report under way is done with.
LEMMA Advances ==
    ASSUME ClientInv, NEW c \in Clients, pc[c] \in Waiting, Advance(c)
    PROVE  /\ todo' \in [Clients -> Seq(Reports)] /\ Current(c) \in Reports
           /\ ToSet(todo[c]) = {Current(c)} \cup ToSet(todo'[c])
           /\ pc'[c] = "next"
           /\ \A d \in Clients \ {c} : pc'[d] = pc[d] /\ todo'[d] = todo[d]
<1>1. /\ pc \in [Clients -> Doing] /\ todo \in [Clients -> Seq(Reports)]
      /\ todo[c] \in Seq(Reports) /\ todo[c] # <<>>
    BY DEF ClientInv, JudgeInv, ClientTypes, Sound
<1>2. /\ Head(todo[c]) \in Reports /\ Tail(todo[c]) \in Seq(Reports)
      /\ ToSet(todo[c]) = {Head(todo[c])} \cup ToSet(Tail(todo[c]))
    BY <1>1, ToSetTail
<1> QED
    BY <1>1, <1>2 DEF Advance, Current

LEMMA HoldsNext ==
    ASSUME ClientInv, NEW c \in Clients, BeginRun(c) \/ Work(c) \/ ClientDies(c)
    PROVE  ClientInv'
<1> USE DEF client, server, history
<1>0. /\ [Next]_vars /\ ClientTypes /\ JudgeInv /\ Sound(c)
      /\ pc \in [Clients -> Doing] /\ MaxQueue \in Nat
    BY ReportingAssumption DEF Next, ClientInv, JudgeInv
<1>1. CASE BeginRun(c)
  <2>1. PICK run \in Runs[c] : todo' = [todo EXCEPT ![c] = run]
    BY <1>1 DEF BeginRun
  <2>2. run \in Seq(Reports)
    BY <2>1, ReportingAssumption
  <2>3. ClientTypes'
    BY <1>0, <1>1, <2>1, <2>2 DEF BeginRun, ClientTypes
  <2>4. Sound(c)'
    BY <1>0, <1>1 DEF BeginRun, Sound, Flushing, Waiting
  <2> QED
    BY <1>0, <1>1, <2>1, <2>3, <2>4, ClientMoves DEF BeginRun, ClientTypes
<1>2. CASE Send(c)
  <2>1. Current(c) \in Reports
    BY <1>0, <1>2, ToSetTail DEF Send, Current, ClientTypes
  <2>2. [from |-> c, report |-> Current(c), stage |-> "sent"] \in Requests
    BY <2>1 DEF Requests
  <2>3. ClientTypes'
    BY <1>0, <1>2, <2>2 DEF Send, ClientTypes
  <2>4. Sound(c)'
    BY <1>0, <1>2 DEF Send, Sound, Flushing, Waiting
  <2> QED
    BY <1>0, <1>2, <2>3, <2>4, ClientMoves DEF Send
<1>3. CASE GiveUp(c)
  <2>1. wire' \subseteq Requests
    BY <1>0, <1>3, WireType DEF GiveUp
  <2>2. ClientTypes'
    BY <1>0, <1>3, <2>1 DEF GiveUp, ClientTypes
  <2>3. Sound(c)'
    BY <1>0, <1>3 DEF GiveUp, Sound, Flushing, Waiting
  <2> QED
    BY <1>0, <1>3, <2>2, <2>3, ClientMoves DEF GiveUp
<1>4. CASE Delivered(c)
  <2>1. Advance(c) /\ pc[c] \in Waiting
    BY <1>4 DEF Delivered, Waiting
  <2>2. ClientTypes'
    BY <1>0, <1>4, <2>1, Advances DEF Delivered, ClientTypes
  <2>3. Sound(c)'
    BY <1>0, <1>4, <2>1, Advances DEF Delivered, Sound, Flushing, Waiting
  <2> QED
    BY <1>0, <1>4, <2>1, <2>2, <2>3, Advances, ClientMoves DEF Delivered
<1>5. ASSUME pc[c] \in Waiting, Advance(c), flush' = flush,
             skip'[c] = skip[c] \/ ~Flushing(c)
      PROVE  Sound(c)'
    BY <1>0, <1>5, Advances DEF Sound, Flushing, Waiting
<1>6. ASSUME Current(c) \in Reports
      PROVE  [failed EXCEPT ![c] = Append(@, Current(c))] \in [Clients -> Seq(Reports)]
    BY <1>0, <1>6 DEF ClientTypes
<1>7. CASE Rejected(c)
  <2>1. Advance(c) /\ pc[c] \in Waiting
    BY <1>7 DEF Rejected, Waiting
  <2>2. failed' \in [Clients -> Seq(Reports)]
    BY <1>0, <1>6, <1>7, <2>1, Advances DEF Rejected, ClientTypes
  <2>3. ClientTypes'
    BY <1>0, <1>7, <2>1, <2>2, Advances DEF Rejected, ClientTypes
  <2> QED
    BY <1>0, <1>5, <1>7, <2>1, <2>3, Advances, ClientMoves DEF Rejected
<1>8. CASE Queued(c)
  <2>1. Advance(c) /\ pc[c] \in Waiting /\ Current(c) \in Reports
    BY <1>8, Advances DEF Queued, Waiting
  <2>2. queue' \in Seq(Reports) /\ Len(queue') =< MaxQueue
    <3>1. CASE Len(queue) < MaxQueue /\ queue' = Append(queue, Current(c))
      BY <1>0, <2>1, <3>1 DEF ClientTypes
    <3> QED
      BY <1>0, <1>8, <3>1 DEF Queued, ClientTypes
  <2>3. foreign' \in [Clients -> SUBSET Reports]
    BY <1>0, <1>8, <2>1, UnknownType DEF Queued, ClientTypes
  <2>4. failed' \in [Clients -> Seq(Reports)]
    BY <1>0, <1>6, <1>8, <2>1 DEF Queued, ClientTypes
  <2>5. /\ skip' \in [Clients -> SUBSET Reports]
        /\ \A d \in Clients \ {c} : skip'[d] = skip[d]
        /\ skip'[c] = skip[c] \/ ~Flushing(c)
    <3>1. CASE UNCHANGED skip
      BY <1>0, <3>1 DEF ClientTypes
    <3>2. CASE ~Flushing(c) /\ skip' = [skip EXCEPT ![c] = @ \cup {Current(c)}]
      <4>1. skip \in [Clients -> SUBSET Reports] /\ skip[c] \cup {Current(c)} \in SUBSET Reports
        BY <1>0, <2>1 DEF ClientTypes
      <4> QED
        BY <3>2, <4>1
    <3> QED
      BY <1>8, <3>1, <3>2 DEF Queued
  <2>6. /\ todo' \in [Clients -> Seq(Reports)] /\ UNCHANGED <<flush, wire, active>>
        /\ \A d \in Clients \ {c} : pc'[d] = pc[d] /\ todo'[d] = todo[d]
    BY <1>8, <2>1, Advances DEF Queued
  <2>7. ClientTypes'
    BY <1>0, <2>2, <2>3, <2>4, <2>5, <2>6 DEF ClientTypes
  <2> QED
    BY <1>0, <1>5, <2>1, <2>5, <2>6, <2>7, ClientMoves
<1>9. CASE ReadQueue(c)
  <2>1. CASE EndRun(c)
    <3>1. ClientTypes'
      BY <1>0, <1>9, <2>1, RunEnds DEF ReadQueue, ClientTypes
    <3> QED
      BY <1>0, <2>1, <3>1, RunEnds, ClientMoves
  <2>2. CASE /\ flush' = [flush EXCEPT ![c] = Pending]
             /\ todo' = [todo EXCEPT ![c] = History(c)]
             /\ foreign' = [foreign EXCEPT ![c] = ToSet(queue) \cap Separated]
             /\ UNCHANGED <<pc, skip, failed>>
    <3>0. Pending \in Seq(Reports) /\ Separated \subseteq Reports
      BY <1>0, WithinFacts, ReportingAssumption DEF Pending, ClientTypes
    <3>1. History(c) \in Seq(Reports) /\ \A r \in ToSet(History(c)) : r \notin skip[c]
      BY <3>0, WithinFacts DEF History
    <3>2. ClientTypes'
      BY <1>0, <1>9, <2>2, <3>0, <3>1 DEF ReadQueue, ClientTypes
    <3>3. Sound(c)'
      BY <1>0, <1>9, <2>2, <3>0, <3>1 DEF ReadQueue, Sound, Flushing, Waiting, ClientTypes
    <3> QED
      BY <1>0, <2>2, <3>2, <3>3, ClientMoves DEF ClientTypes
  <2> QED
    BY <1>9, <2>1, <2>2 DEF ReadQueue
<1>10. CASE Truncate(c)
  <2>1. <<>> \in Seq(Reports) /\ Len(<<>>) = 0
    OBVIOUS
  <2>2. ClientTypes'
    BY <1>0, <1>10, <2>1 DEF Truncate, ClientTypes
  <2>3. Sound(c)'
    BY <1>0, <1>10 DEF Truncate, Sound, Flushing, Waiting
  <2> QED
    BY <1>0, <1>10, <2>2, <2>3, ClientMoves DEF Truncate
<1>11. CASE Rewrite(c)
  <2>1. PICK over \in 0 .. Len(queue) :
              /\ queue' = Remaining(c) \o SubSeq(queue, over + 1, Len(queue))
              /\ Len(queue') =< MaxQueue
    BY <1>11 DEF Rewrite
  <2>2. Remaining(c) \in Seq(Reports)
    BY <1>0, WithinFacts, ToSetConcat DEF Remaining, ClientTypes
  <2>3. SubSeq(queue, over + 1, Len(queue)) \in Seq(Reports)
    BY <1>0, <2>1, ToSetCut DEF ClientTypes
  <2>4. queue' \in Seq(Reports)
    BY <2>1, <2>2, <2>3, ToSetConcat
  <2>5. foreign' \in [Clients -> SUBSET Reports]
    <3>1. ToSet(Remaining(c)) \in SUBSET Reports
      BY <2>2, ToSetOf
    <3> QED
      BY <1>0, <1>11, <3>1, UnknownType DEF Rewrite
  <2>6. ClientTypes'
    BY <1>0, <1>11, <2>1, <2>4, <2>5, RunEnds DEF Rewrite, ClientTypes
  <2> QED
    BY <1>0, <1>11, <2>6, RunEnds, ClientMoves DEF Rewrite
<1>12. CASE ClientDies(c)
  <2>1. wire' \subseteq Requests /\ EndRun(c)
    BY <1>0, <1>12, WireType DEF ClientDies
  <2>2. ClientTypes'
    BY <1>0, <1>12, <2>1, RunEnds DEF ClientDies, ClientTypes
  <2> QED
    BY <1>0, <2>1, <2>2, RunEnds, ClientMoves
<1> QED
  BY <1>1, <1>2, <1>3, <1>4, <1>7, <1>8, <1>9, <1>10, <1>11, <1>12 DEF Work, Conclude, FlushQueue

\* The server changes nothing of a client but that it waits no longer.
LEMMA ServerAnswers ==
    ASSUME ClientInv, [Next]_vars, ClientTypes', UNCHANGED <<todo, flush, skip>>,
           \A c \in Clients : pc'[c] = pc[c] \/ (pc[c] \in Waiting /\ pc'[c] \in Waiting)
    PROVE  ClientInv'
<1>1. \A c \in Clients : Sound(c)'
    BY DEF ClientInv, Sound, Flushing, Waiting
<1> QED
    BY <1>1, JudgeNext DEF ClientInv

LEMMA ClientInvNext == ClientInv /\ [Next]_vars => ClientInv'
<1> SUFFICES ASSUME ClientInv, [Next]_vars PROVE ClientInv'
    OBVIOUS
<1> USE DEF client, server, history
<1>0. ClientTypes /\ JudgeInv /\ pc \in [Clients -> Doing]
    BY DEF ClientInv, JudgeInv
<1>1. ASSUME NEW c \in Clients, BeginRun(c) \/ Work(c) \/ ClientDies(c)
      PROVE  ClientInv'
    BY <1>1, HoldsNext
<1>2. ASSUME NEW m \in Requests, LookUp(m) \/ Handle(m)
      PROVE  ClientInv'
  <2>1. ASSUME NEW result \in {"ok", "error", "rejected"}, Answer(m, result), m \in wire
        PROVE  \A c \in Clients : pc'[c] = pc[c] \/ (pc[c] \in Waiting /\ pc'[c] \in Waiting)
    BY <1>0, <2>1 DEF Answer, JudgeInv, Waiting, Requests
  <2>2. CASE LookUp(m)
    <3>1. [m EXCEPT !.stage = "known"] \in Requests
      BY DEF Requests
    <3>2. wire' \subseteq Requests
      BY <1>0, <2>2, <3>1 DEF LookUp, ClientTypes
    <3>3. ClientTypes'
      BY <1>0, <2>2, <3>2 DEF LookUp, ClientTypes
    <3> QED
      BY <2>1, <2>2, <3>3, ServerAnswers DEF LookUp
  <2>3. CASE Handle(m)
    <3>1. ClientTypes'
      BY <1>0, <2>3 DEF Handle, ClientTypes
    <3> QED
      BY <2>1, <2>3, <3>1, ServerAnswers DEF Handle
  <2> QED
    BY <1>2, <2>2, <2>3
<1>3. CASE Revoke
    BY <1>0, <1>3, ServerAnswers DEF Revoke, ClientTypes
<1>4. CASE ServerDies
    BY <1>0, <1>4, ServerAnswers DEF ServerDies, ClientTypes
<1>5. CASE UNCHANGED vars
    BY <1>0, <1>5, ServerAnswers DEF vars, ClientTypes
<1> QED
    BY <1>1, <1>2, <1>3, <1>4, <1>5 DEF Next

\* A client that waits has a report under way, and only a client that flushes
\* rewrites the file, whatever faults there are (reporting.py, send and flush_queue).
THEOREM TypesKept == Spec => []TypeOK
<1>1. ClientInv => TypeOK
  <2> SUFFICES ASSUME ClientInv PROVE TypeOK
    OBVIOUS
  <2>1. ClientTypes /\ JudgeInv /\ \A c \in Clients : Sound(c)
    BY DEF ClientInv
  <2>2. seen \subseteq Keys
    BY <2>1, ToSetOf DEF JudgeInv
  <2>3. pc \in [Clients -> Waiting \cup {"idle", "next", "rewrite"}]
    BY <2>1 DEF JudgeInv, Doing, Waiting
  <2> QED
    BY <2>1, <2>2, <2>3 DEF ClientTypes, Sound, TypeOK
<1> QED
    BY <1>1, ClientInit, ClientInvNext, PTL DEF Spec

\* What failed in this round is not sent again in it, whatever else the queue file
\* holds (flush_queue's skip).
THEOREM NotSentTwiceARound == Spec => []NotTwiceARound
<1>1. ClientInv => NotTwiceARound
  <2> SUFFICES ASSUME ClientInv, NEW c \in Plugins, pc[c] = "wait", Flushing(c)
               PROVE  Current(c) \notin skip[c]
    BY DEF NotTwiceARound
  <2>1. c \in Clients /\ Sound(c) /\ todo[c] \in Seq(Reports) /\ todo[c] # <<>>
    BY ReportingAssumption DEF ClientInv, ClientTypes, Sound, Waiting
  <2>2. Current(c) \in ToSet(todo[c])
    BY <2>1, ToSetTail DEF Current
  <2> QED
    BY <2>1, <2>2 DEF Sound
<1> QED
    BY <1>1, ClientInit, ClientInvNext, PTL DEF Spec

-----------------------------------------------------------------------------
(* Where a report is.                                                       *)

\* Held, without the sequences.
HeldBy(c, r) ==
    /\ pc[c] # "idle"
    /\ \/ r \in ToSet(todo[c])
       \/ Flushing(c) /\ r \in (ToSet(flush[c]) \cap skip[c]) \cup ToSet(failed[c])

HeldRight == \A c \in Clients, r \in Reports : r \in Held(c) <=> HeldBy(c, r)

LEMMA HeldIs == ClientTypes => HeldRight
<1> SUFFICES ASSUME ClientTypes, NEW c \in Clients, NEW r \in Reports
             PROVE  r \in Held(c) <=> HeldBy(c, r)
    BY DEF HeldRight
<1>1. flush[c] \in Seq(Reports) /\ failed[c] \in Seq(Reports)
    BY DEF ClientTypes
<1>2. /\ Within(flush[c], skip[c]) \in Seq(Reports)
      /\ ToSet(Within(flush[c], skip[c])) = ToSet(flush[c]) \cap skip[c]
    BY <1>1, WithinFacts
<1>3. ToSet(Remaining(c)) = (ToSet(flush[c]) \cap skip[c]) \cup ToSet(failed[c])
    BY <1>1, <1>2, ToSetConcat DEF Remaining
<1> QED
    BY <1>3 DEF Held, HeldBy

\* A client holds it, or the history says where it went.
Accounted(r) ==
    \/ r \in settled \/ r \in lost
    \/ \E c \in Clients : HeldBy(c, r)

\* The client has read the file and not emptied it yet.
Reads(c) == Flushing(c) /\ pc[c] # "rewrite"

\* Of what is in the file, a client that has read it knows what was there, and that
\* is accounted for; the other lines are foreign to it.
ReadInv ==
    \A c \in Clients : Reads(c) =>
        \A r \in ToSet(queue) : r \in foreign[c] \/ Accounted(r)

\* A line of the file that is foreign to all who have read it.
Noted(r) == r \in ToSet(queue) /\ \A c \in Clients : Reads(c) => r \in foreign[c]

\* What a step does with a report: one that was accounted for, and one whose line
\* comes or goes.
Keeps(r) ==
    /\ Accounted(r) => Accounted(r)' \/ Noted(r)'
    /\ \A c \in Clients :
          r \in foreign[c] /\ Reads(c) /\ Reads(c)' => r \in foreign'[c] \/ r \in lost'
    /\ r \in ToSet(queue') => r \in ToSet(queue) \/ Accounted(r)' \/ Noted(r)'
    /\ \A c \in Clients :
          Reads(c)' => Reads(c) \/ (r \in ToSet(queue') => r \in foreign'[c] \/ Accounted(r)')
    /\ r \in ToSet(queue) => r \in ToSet(queue') \/ Accounted(r)'

\* The file is not touched, and nobody begins to read it.
LEMMA FileStays ==
    ASSUME NEW r \in Reports, UNCHANGED <<queue, foreign>>,
           Accounted(r) => Accounted(r)',
           \A c \in Clients : Reads(c)' => Reads(c)
    PROVE  Keeps(r)
BY DEF Keeps

\* What another client holds it goes on holding.
LEMMA OthersHold ==
    ASSUME NEW c \in Clients, NEW r \in Reports,
           r \in settled => r \in settled' \/ HeldBy(c, r)',
           r \in lost => r \in lost' \/ HeldBy(c, r)',
           \A d \in Clients \ {c} : /\ pc'[d] = pc[d] /\ todo'[d] = todo[d]
                                    /\ flush'[d] = flush[d] /\ skip'[d] = skip[d]
                                    /\ failed'[d] = failed[d],
           HeldBy(c, r) => r \in settled' \/ r \in lost' \/ HeldBy(c, r)'
    PROVE  Accounted(r) => Accounted(r)'
<1>1. \A d \in Clients \ {c} : HeldBy(d, r) => HeldBy(d, r)'
    BY DEF HeldBy, Flushing
<1> QED
    BY <1>1 DEF Accounted

LEMMA ClientKeeps ==
    ASSUME ClientInv, ReadInv, NEW c \in Clients, NEW r \in Reports,
           BeginRun(c) \/ Work(c) \/ ClientDies(c)
    PROVE  Keeps(r)
<1> USE DEF client, server, history
<1>0. /\ [Next]_vars /\ ClientTypes /\ JudgeInv /\ Sound(c)
      /\ pc \in [Clients -> Doing] /\ HeldRight
    BY HeldIs DEF Next, ClientInv, JudgeInv
<1>1. CASE BeginRun(c)
  <2>1. PICK run \in Runs[c] : /\ todo' = [todo EXCEPT ![c] = run]
                               /\ settled' = settled \ ToSet(run)
                               /\ lost' = lost \ ToSet(run)
    BY <1>1 DEF BeginRun
  <2>2. /\ pc'[c] = "next" /\ todo'[c] = run /\ ~HeldBy(c, r)
        /\ \A d \in Clients \ {c} : pc'[d] = pc[d] /\ todo'[d] = todo[d]
        /\ UNCHANGED <<queue, foreign, flush, skip, failed>>
    BY <1>0, <1>1, <2>1 DEF BeginRun, ClientTypes, HeldBy
  <2>3. r \in ToSet(run) => HeldBy(c, r)'
    BY <2>2 DEF HeldBy
  <2>4. Accounted(r) => Accounted(r)'
    BY <2>1, <2>2, <2>3, OthersHold
  <2>5. \A d \in Clients : Reads(d)' => Reads(d)
    BY <1>0, <1>1, <2>2 DEF Reads, Flushing, Sound, BeginRun
  <2> QED
    BY <2>2, <2>4, <2>5, FileStays
<1>2. CASE Send(c) \/ GiveUp(c)
  <2>1. /\ pc[c] \notin {"idle", "rewrite"} /\ pc'[c] \notin {"idle", "rewrite"}
        /\ \A d \in Clients \ {c} : pc'[d] = pc[d]
        /\ UNCHANGED <<queue, foreign, todo, flush, skip, failed, settled, lost>>
    BY <1>0, <1>2 DEF Send, GiveUp, Doing
  <2>2. HeldBy(c, r) => HeldBy(c, r)'
    BY <2>1 DEF HeldBy, Flushing
  <2>3. Accounted(r) => Accounted(r)'
    BY <2>1, <2>2, OthersHold
  <2>4. \A d \in Clients : Reads(d)' => Reads(d)
    BY <2>1 DEF Reads, Flushing
  <2> QED
    BY <2>1, <2>3, <2>4, FileStays
<1>3. ASSUME pc[c] \in Waiting, Advance(c), UNCHANGED flush
      PROVE  \A d \in Clients : Reads(d)' <=> Reads(d)
    BY <1>0, <1>3, Advances DEF Reads, Flushing, Waiting
<1>4. CASE Delivered(c)
  <2>1. /\ Advance(c) /\ pc[c] \in Waiting /\ settled' = settled \cup {Current(c)}
        /\ UNCHANGED <<queue, foreign, flush, skip, failed, lost>>
    BY <1>4 DEF Delivered, Waiting
  <2>2. HeldBy(c, r) => r \in settled' \/ HeldBy(c, r)'
    BY <2>1, Advances DEF HeldBy, Flushing
  <2>3. Accounted(r) => Accounted(r)'
    BY <2>1, <2>2, Advances, OthersHold
  <2> QED
    BY <1>3, <2>1, <2>3, FileStays
\* A report that failed joins those of a flush.
<1>5. ASSUME Current(c) \in Reports, failed' = [failed EXCEPT ![c] = Append(@, Current(c))]
      PROVE  /\ ToSet(failed'[c]) = ToSet(failed[c]) \cup {Current(c)}
             /\ \A d \in Clients \ {c} : failed'[d] = failed[d]
    BY <1>0, <1>5, ToSetAppend DEF ClientTypes
<1>6. CASE Rejected(c)
  <2>1. /\ Advance(c) /\ pc[c] \in Waiting /\ lost' = lost \cup {Current(c)}
        /\ UNCHANGED <<queue, foreign, flush, skip, settled>>
        /\ failed' = IF Flushing(c) THEN [failed EXCEPT ![c] = Append(@, Current(c))] ELSE failed
    BY <1>6 DEF Rejected, Waiting
  <2>2. /\ ToSet(failed[c]) \subseteq ToSet(failed'[c])
        /\ \A d \in Clients \ {c} : failed'[d] = failed[d]
    BY <1>5, <2>1, Advances
  <2>3. HeldBy(c, r) => r \in lost' \/ HeldBy(c, r)'
    BY <2>1, <2>2, Advances DEF HeldBy, Flushing
  <2>4. Accounted(r) => Accounted(r)'
    BY <2>1, <2>2, <2>3, Advances, OthersHold
  <2> QED
    BY <1>3, <2>1, <2>4, FileStays
<1>7. CASE Queued(c)
  <2>1. /\ Advance(c) /\ pc[c] \in Waiting /\ Current(c) \in Reports
        /\ UNCHANGED <<flush, settled>>
    BY <1>7, Advances DEF Queued, Waiting
  <2>2. \/ /\ queue' = Append(queue, Current(c)) /\ Unknown(c, {Current(c)})
           /\ UNCHANGED lost
        \/ /\ lost' = IF Flushing(c) THEN lost ELSE lost \cup {Current(c)}
           /\ UNCHANGED <<queue, foreign>>
    BY <1>7 DEF Queued
  <2>3. /\ ToSet(failed[c]) \subseteq ToSet(failed'[c])
        /\ Flushing(c) => Current(c) \in ToSet(failed'[c])
        /\ \A d \in Clients \ {c} : failed'[d] = failed[d]
    BY <1>5, <1>7, <2>1 DEF Queued
  <2>4. /\ skip[c] \subseteq skip'[c] \/ ~Flushing(c)
        /\ Flushing(c) => skip'[c] = skip[c]
        /\ \A d \in Clients \ {c} : skip'[d] = skip[d]
    BY <1>0, <1>7 DEF Queued, ClientTypes
  <2>5. /\ pc'[c] = "next" /\ pc[c] # "idle" /\ pc[c] # "rewrite"
        /\ Flushing(c)' = Flushing(c)
        /\ ToSet(todo[c]) = {Current(c)} \cup ToSet(todo'[c])
        /\ \A d \in Clients \ {c} : pc'[d] = pc[d] /\ todo'[d] = todo[d]
    BY <2>1, Advances DEF Flushing, Waiting
  <2>6. HeldBy(c, r) => HeldBy(c, r)' \/ (r = Current(c) /\ ~Flushing(c))
    BY <2>1, <2>3, <2>4, <2>5 DEF HeldBy
  <2>7. r = Current(c) /\ Flushing(c) => HeldBy(c, r)'
    BY <2>3, <2>5 DEF HeldBy
  <2>8. \A d \in Clients : Reads(d)' <=> Reads(d)
    BY <1>3, <2>1
  <2>9. ASSUME ~(r = Current(c) /\ ~Flushing(c)) PROVE Accounted(r) => Accounted(r)'
    BY <2>1, <2>2, <2>3, <2>4, <2>5, <2>6, <2>9, OthersHold
  <2>10. CASE /\ queue' = Append(queue, Current(c)) /\ Unknown(c, {Current(c)})
              /\ UNCHANGED lost
    <3>1. ToSet(queue') = ToSet(queue) \cup {Current(c)}
      BY <1>0, <2>1, <2>10, ToSetAppend DEF ClientTypes
    <3>2. \A d \in Clients : /\ foreign[d] \subseteq foreign'[d]
                             /\ d # c /\ Reads(d) => Current(c) \in foreign'[d]
      BY <2>10 DEF Unknown, Reads
    <3>3. r = Current(c) /\ ~Flushing(c) => Noted(r)'
      BY <2>8, <3>1, <3>2 DEF Noted, Reads
    <3>4. Accounted(r) => Accounted(r)' \/ Noted(r)'
      BY <2>9, <3>3
    <3>5. r = Current(c) /\ Flushing(c) => Accounted(r)'
      BY <2>7 DEF Accounted
    <3> QED
      BY <2>8, <3>1, <3>2, <3>3, <3>4, <3>5 DEF Keeps
  <2>11. CASE /\ lost' = IF Flushing(c) THEN lost ELSE lost \cup {Current(c)}
              /\ UNCHANGED <<queue, foreign>>
    <3>1. r = Current(c) /\ ~Flushing(c) => Accounted(r)'
      BY <2>11 DEF Accounted
    <3> QED
      BY <2>8, <2>9, <2>11, <3>1, FileStays
  <2> QED
    BY <2>2, <2>10, <2>11
<1>8. CASE ReadQueue(c)
  <2>0. /\ pc[c] = "next" /\ todo[c] = <<>> /\ ~Flushing(c) /\ UNCHANGED <<queue, settled, lost>>
        /\ ~HeldBy(c, r)
    BY <1>8, ToSetEmpty DEF ReadQueue, HeldBy
  <2>1. CASE EndRun(c) /\ UNCHANGED foreign
    <3>1. Accounted(r) => Accounted(r)'
      BY <2>0, <2>1, RunEnds, OthersHold
    <3>2. \A d \in Clients : Reads(d)' => Reads(d)
      BY <2>1, RunEnds DEF Reads, Flushing
    <3> QED
      BY <2>0, <2>1, <3>1, <3>2, FileStays
  <2>2. CASE /\ flush' = [flush EXCEPT ![c] = Pending]
             /\ todo' = [todo EXCEPT ![c] = History(c)]
             /\ foreign' = [foreign EXCEPT ![c] = ToSet(queue) \cap Separated]
             /\ UNCHANGED <<pc, skip, failed>> /\ Pending # <<>>
    <3>0. /\ Pending \in Seq(Reports) /\ ToSet(Pending) = ToSet(queue) \cap (Reports \ Separated)
          /\ foreign \in [Clients -> SUBSET Reports]
      BY <1>0, WithinFacts DEF Pending, ClientTypes
    <3>1. ToSet(History(c)) = ToSet(Pending) \cap (Reports \ skip[c])
      BY <3>0, WithinFacts DEF History
    <3>2. /\ todo'[c] = History(c) /\ flush'[c] = Pending
          /\ foreign'[c] = ToSet(queue) \cap Separated
          /\ \A d \in Clients \ {c} : /\ todo'[d] = todo[d] /\ flush'[d] = flush[d]
                                       /\ foreign'[d] = foreign[d]
      BY <1>0, <2>2, <3>0 DEF ClientTypes
    <3>3. Accounted(r) => Accounted(r)'
      BY <2>0, <2>2, <3>2, OthersHold
    <3>4. r \in ToSet(Pending) => HeldBy(c, r)'
      BY <2>0, <2>2, <3>1, <3>2 DEF HeldBy, Flushing, NotFlushing
    <3>5. r \in ToSet(queue) => r \in foreign'[c] \/ Accounted(r)'
      BY <3>0, <3>2, <3>4 DEF Accounted
    <3>6. \A d \in Clients \ {c} : Reads(d)' => Reads(d)
      BY <2>2, <3>2 DEF Reads, Flushing
    <3>7. ~Reads(c)
      BY <2>0 DEF Reads
    <3> QED
      BY <2>0, <3>2, <3>3, <3>5, <3>6, <3>7 DEF Keeps
  <2> QED
    BY <1>8, <2>1, <2>2 DEF ReadQueue
<1>9. CASE Truncate(c)
  <2>1. /\ pc[c] = "next" /\ Flushing(c) /\ pc' = [pc EXCEPT ![c] = "rewrite"]
        /\ lost' = lost \cup foreign[c] /\ foreign' = [foreign EXCEPT ![c] = {}]
        /\ queue' = <<>> /\ UNCHANGED <<todo, skip, flush, failed, settled>>
    BY <1>9 DEF Truncate
  <2>2. /\ pc'[c] = "rewrite" /\ \A d \in Clients \ {c} : pc'[d] = pc[d]
        /\ \A d \in Clients \ {c} : foreign'[d] = foreign[d]
    BY <1>0, <2>1 DEF ClientTypes
  <2>3. HeldBy(c, r) => HeldBy(c, r)'
    BY <2>1, <2>2 DEF HeldBy, Flushing
  <2>4. Accounted(r) => Accounted(r)'
    BY <2>1, <2>2, <2>3, OthersHold
  <2>5. \A d \in Clients : Reads(d)' => Reads(d) /\ d # c
    BY <2>1, <2>2 DEF Reads, Flushing
  <2>6. r \in ToSet(queue) => Accounted(r)'
    <3>1. r \in ToSet(queue) => r \in foreign[c] \/ Accounted(r)
      BY <2>1 DEF ReadInv, Reads
    <3> QED
      BY <2>1, <2>4, <3>1 DEF Accounted
  <2> QED
    BY <2>1, <2>2, <2>4, <2>5, <2>6, ToSetEmpty DEF Keeps
<1>10. CASE Rewrite(c)
  <2>1. PICK over \in 0 .. Len(queue) :
              /\ queue' = Remaining(c) \o SubSeq(queue, over + 1, Len(queue))
              /\ lost' = lost \cup ToSet(SubSeq(queue, 1, over))
    BY <1>10 DEF Rewrite
  <2>2. /\ pc[c] = "rewrite" /\ EndRun(c) /\ UNCHANGED settled
        /\ Unknown(c, ToSet(Remaining(c)))
    BY <1>10 DEF Rewrite
  <2>3. Remaining(c) \in Seq(Reports)
    BY <1>0, WithinFacts, ToSetConcat DEF Remaining, ClientTypes
  <2>4. /\ SubSeq(queue, over + 1, Len(queue)) \in Seq(Reports)
        /\ ToSet(queue) = ToSet(SubSeq(queue, 1, over))
                            \cup ToSet(SubSeq(queue, over + 1, Len(queue)))
    BY <1>0, <2>1, ToSetCut DEF ClientTypes
  <2>5. ToSet(queue') = ToSet(Remaining(c)) \cup ToSet(SubSeq(queue, over + 1, Len(queue)))
    <3>1. PICK rest \in Seq(Reports) : rest = SubSeq(queue, over + 1, Len(queue))
      BY <2>4
    <3>2. ToSet(Remaining(c) \o rest) = ToSet(Remaining(c)) \cup ToSet(rest)
      BY <2>3, ToSetConcat
    <3> QED
      BY <2>1, <3>1, <3>2
  <2>6. HeldBy(c, r) => r \in ToSet(Remaining(c))
    BY <1>0, <2>2, ToSetEmpty DEF HeldRight, Held, Sound
  <2>7. \A d \in Clients : Reads(d)' => Reads(d) /\ d # c
    BY <2>2, RunEnds DEF Reads, Flushing
  <2>8. \A d \in Clients : foreign[d] \subseteq foreign'[d]
    BY <2>2 DEF Unknown
  <2>9. r \in ToSet(Remaining(c)) => Noted(r)'
    BY <2>2, <2>5, <2>7 DEF Unknown, Noted, Reads
  <2>10. Accounted(r) => Accounted(r)' \/ Noted(r)'
    <3>1. CASE HeldBy(c, r)
      BY <2>6, <2>9, <3>1
    <3>2. CASE ~HeldBy(c, r)
      <4>1. Accounted(r) => Accounted(r)'
        BY <2>1, <2>2, <3>2, RunEnds, OthersHold
      <4> QED
        BY <4>1
    <3> QED
      BY <3>1, <3>2
  <2>11. r \in ToSet(queue) => r \in ToSet(queue') \/ Accounted(r)'
    BY <2>1, <2>4, <2>5 DEF Accounted
  <2>12. r \in ToSet(queue') => r \in ToSet(queue) \/ Noted(r)'
    BY <2>4, <2>5, <2>9
  <2> QED
    BY <2>7, <2>8, <2>10, <2>11, <2>12 DEF Keeps
<1>11. CASE ClientDies(c)
  <2>1. /\ EndRun(c) /\ lost' = lost \cup Held(c) /\ foreign' = [foreign EXCEPT ![c] = {}]
        /\ UNCHANGED <<queue, settled>>
    BY <1>11 DEF ClientDies
  <2>2. HeldBy(c, r) => r \in lost'
    BY <1>0, <2>1 DEF HeldRight
  <2>3. Accounted(r) => Accounted(r)'
    BY <2>1, <2>2, RunEnds, OthersHold
  <2>4. \A d \in Clients : Reads(d)' => Reads(d) /\ d # c
    BY <2>1, RunEnds DEF Reads, Flushing
  <2>5. \A d \in Clients \ {c} : foreign'[d] = foreign[d]
    BY <1>0, <2>1 DEF ClientTypes
  <2> QED
    BY <2>1, <2>3, <2>4, <2>5 DEF Keeps
<1> QED
  BY <1>1, <1>2, <1>4, <1>6, <1>7, <1>8, <1>9, <1>10, <1>11 DEF Work, Conclude, FlushQueue

\* The server changes nothing of where a report is.
LEMMA ServerKeeps ==
    ASSUME ClientInv, NEW r \in Reports,
           (\E m \in Requests : LookUp(m) \/ Handle(m)) \/ Revoke \/ ServerDies \/ UNCHANGED vars
    PROVE  Keeps(r)
<1> USE DEF client, server, history
<1>1. UNCHANGED <<queue, todo, skip, flush, failed, settled, lost, foreign>>
    BY DEF LookUp, Handle, Revoke, ServerDies, vars
<1>2. \A c \in Clients : pc'[c] = pc[c] \/ (pc[c] \in Waiting /\ pc'[c] \in Waiting)
  <2>1. ASSUME NEW m \in Requests, NEW result \in {"ok", "error", "rejected"},
               Answer(m, result), m \in wire
        PROVE  \A c \in Clients : pc'[c] = pc[c] \/ (pc[c] \in Waiting /\ pc'[c] \in Waiting)
    BY <2>1 DEF Answer, ClientInv, JudgeInv, Waiting, Requests
  <2>2. ASSUME NEW m \in Requests, LookUp(m) \/ Handle(m)
        PROVE  \A c \in Clients : pc'[c] = pc[c] \/ (pc[c] \in Waiting /\ pc'[c] \in Waiting)
    BY <2>1, <2>2 DEF LookUp, Handle
  <2> QED
    BY <2>2 DEF Revoke, ServerDies, vars
<1>3. Accounted(r) => Accounted(r)'
    BY <1>1, <1>2 DEF Accounted, HeldBy, Flushing, Waiting
<1>4. \A c \in Clients : Reads(c)' => Reads(c)
    BY <1>1, <1>2 DEF Reads, Flushing, Waiting
<1> QED
    BY <1>1, <1>3, <1>4, FileStays

LEMMA StepKeeps ==
    ASSUME ClientInv, ReadInv, [Next]_vars
    PROVE  \A r \in Reports : Keeps(r)
<1> SUFFICES ASSUME NEW r \in Reports PROVE Keeps(r)
    OBVIOUS
<1>1. ASSUME NEW c \in Clients, BeginRun(c) \/ Work(c) \/ ClientDies(c)
      PROVE  Keeps(r)
    BY <1>1, ClientKeeps
<1> QED
    BY <1>1, ServerKeeps DEF Next

FileInv == ClientInv /\ ReadInv

LEMMA FileInit == Init => FileInv
BY ClientInit DEF Init, FileInv, ReadInv, Reads, Flushing

LEMMA FileNext == FileInv /\ [Next]_vars => FileInv'
<1> SUFFICES ASSUME ClientInv, ReadInv, [Next]_vars PROVE ReadInv'
    BY ClientInvNext DEF FileInv
<1>1. queue' \in Seq(Reports)
    BY ClientInvNext DEF ClientInv, ClientTypes
<1> SUFFICES ASSUME NEW c \in Clients, Reads(c)', NEW r \in ToSet(queue')
             PROVE  r \in foreign'[c] \/ Accounted(r)'
    BY DEF ReadInv
<1>2. r \in Reports /\ Keeps(r)
    BY <1>1, ToSetOf, StepKeeps
<1>3. CASE Reads(c) /\ r \in ToSet(queue)
    <2>1. r \in foreign[c] \/ Accounted(r)
        BY <1>3 DEF ReadInv
    <2> QED
        BY <1>2, <2>1 DEF Keeps, Noted, Accounted
<1> QED
    BY <1>2, <1>3 DEF Keeps, Noted

\* No report disappears: one that no client and no line of the file has any more was
\* delivered, or refused, or lost in one of the three ways that lost records, with
\* any number of clients and whatever dies (send, _enqueue, flush_queue).
THEOREM NoReportDropped == Spec => NothingDropped
<1>1. ASSUME FileInv, FileInv', [Next]_vars
      PROVE  \A r \in Reports : Present(r) /\ ~Present(r)' => r \in settled' \cup lost'
  <2> SUFFICES ASSUME NEW r \in Reports, Present(r), ~Present(r)'
               PROVE  r \in settled' \cup lost'
    OBVIOUS
  <2>1. HeldRight /\ HeldRight'
    <3>1. ClientTypes /\ ClientTypes'
      BY <1>1 DEF FileInv, ClientInv
    <3>2. (ClientTypes => HeldRight)'
      BY HeldIs, PTL
    <3> QED
      BY <3>1, <3>2, HeldIs
  <2>2. r \in ToSet(queue) \/ \E d \in Clients : HeldBy(d, r)
    BY <2>1 DEF Present, HeldRight
  <2>3. r \notin ToSet(queue') /\ \A d \in Clients : ~HeldBy(d, r)'
    BY <2>1 DEF Present, HeldRight
  <2>4. Keeps(r)
    BY <1>1, StepKeeps DEF FileInv
  <2>5. Accounted(r)'
    BY <2>2, <2>3, <2>4 DEF Keeps, Accounted, Noted
  <2> QED
    BY <2>3, <2>5 DEF Accounted
<1> QED
    BY <1>1, FileInit, FileNext, PTL DEF Spec, NothingDropped
=============================================================================
