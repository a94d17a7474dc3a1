------------------------ MODULE ChunkedUpload_proofs ------------------------
(***************************************************************************)
(* The handshake of ChunkedUpload: types, pacing, and that a success is one.*)
(***************************************************************************)
EXTENDS ChunkedUpload, TLAPS

LEMMA TypeInit == Init => TypeOK
<1> SUFFICES ASSUME Init PROVE TypeOK
  OBVIOUS
<1>1. <<>> \in Seq(Statuses) /\ <<>> \in Seq(Acks)
  OBVIOUS
<1>2. /\ pc \in [Uploaders -> {"idle", "writing", "written", "waiting"}]
      /\ \A u \in Uploaders : pc[u] = "idle"
      /\ kind \in [Uploaders -> AllKinds]
      /\ content \in [Uploaders -> Contents \cup {Nothing}]
      /\ attempt \in [Uploaders -> 1..2]
      /\ index \in [Uploaders -> Nat \ {0}]
      /\ outcome \in [Uploaders -> {"none", "ok", "failed", "lost"}]
  BY UsesAssumption DEF Init
<1>3. /\ transfer \in [Families -> [of : Contents \cup {Nothing}, got : Nat, doomed : BOOLEAN]]
      /\ digesting \in [Families -> Chunk \cup {NoChunk}]
      /\ stored \in [Families -> Contents \cup {Nothing}]
  BY DEF Init
<1>4. acks \in [Uploaders -> Seq(Statuses)] /\ air \in Seq(Acks)
  BY <1>1 DEF Init
<1>5. uploads \in 0..MaxUploads /\ faults \in 0..MaxFaults
  BY UsesAssumption DEF Init
<1> QED
  BY <1>2, <1>3, <1>4, <1>5 DEF TypeOK

LEMMA SendType ==
  ASSUME TypeOK, NEW u \in Uploaders, NEW n \in Nat \ {0}, Send(u, n)
  PROVE  /\ pc' \in [Uploaders -> {"idle", "writing", "written", "waiting"}]
         /\ index' \in [Uploaders -> Nat \ {0}]
         /\ acks' \in [Uploaders -> Seq(Statuses)]
         /\ pc'[u] = "writing" /\ acks'[u] = <<>>
         /\ \A v \in Uploaders \ {u} : pc'[v] = pc[v] /\ acks'[v] = acks[v]
<1>1. <<>> \in Seq(Statuses)
  OBVIOUS
<1> QED
  BY <1>1 DEF Send, TypeOK

LEMMA FinishType ==
  ASSUME TypeOK, NEW u \in Uploaders, NEW how \in {"ok", "failed", "lost"}, Finish(u, how)
  PROVE  /\ pc' \in [Uploaders -> {"idle", "writing", "written", "waiting"}]
         /\ acks' \in [Uploaders -> Seq(Statuses)]
         /\ outcome' \in [Uploaders -> {"none", "ok", "failed", "lost"}]
         /\ UNCHANGED <<attempt, index>>
         /\ pc'[u] = "idle" /\ outcome'[u] = how
         /\ \A v \in Uploaders \ {u} :
               pc'[v] = pc[v] /\ acks'[v] = acks[v] /\ outcome'[v] = outcome[v]
<1>1. <<>> \in Seq(Statuses)
  OBVIOUS
<1> QED
  BY <1>1 DEF Finish, TypeOK

(* The two ways in which an uploader goes on after an ack or a timeout. *)
LEMMA PassFailedMoves ==
  ASSUME TypeOK, NEW u \in Uploaders, PassFailed(u)
  PROVE  \/ /\ Send(u, 1) /\ UNCHANGED outcome
            /\ attempt' \in [Uploaders -> 1..2]
         \/ Finish(u, "failed")
<1>1. CASE Retries(u)
  <2>1. attempt' = [attempt EXCEPT ![u] = 2] /\ Send(u, 1) /\ UNCHANGED outcome
    BY <1>1 DEF PassFailed
  <2>2. attempt' \in [Uploaders -> 1..2]
    BY <2>1 DEF TypeOK
  <2> QED
    BY <2>1, <2>2
<1>2. CASE ~Retries(u)
  BY <1>2 DEF PassFailed
<1> QED
  BY <1>1, <1>2

LEMMA InterpretMoves ==
  ASSUME TypeOK, NEW u \in Uploaders, NEW status, Interpret(u, status)
  PROVE  \/ \E n \in Nat \ {0} : /\ Send(u, n) /\ UNCHANGED outcome
                                 /\ attempt' \in [Uploaders -> 1..2]
         \/ Finish(u, "failed")
         \/ Finish(u, "ok") /\ status = "saved"
<1>1. CASE Send(u, index[u] + 1) /\ UNCHANGED <<attempt, outcome>>
  BY <1>1 DEF TypeOK
<1>2. CASE PassFailed(u)
  BY <1>2, PassFailedMoves
<1> QED
  BY <1>1, <1>2 DEF Interpret

LEMMA GoesOnType ==
  ASSUME TypeOK, NEW u \in Uploaders, UNCHANGED <<kind, content, panelVars, air, uploads, faults>>,
         pc[u] # "idle",
         \/ \E n \in Nat \ {0} : /\ Send(u, n) /\ UNCHANGED outcome
                                 /\ attempt' \in [Uploaders -> 1..2]
         \/ Finish(u, "failed")
         \/ Finish(u, "ok")
  PROVE  TypeOK'
<1>1. ASSUME NEW n \in Nat \ {0}, Send(u, n), UNCHANGED outcome, attempt' \in [Uploaders -> 1..2]
      PROVE  TypeOK'
  BY <1>1, SendType DEF TypeOK, panelVars
<1>2. ASSUME NEW how \in {"failed", "ok"}, Finish(u, how)
      PROVE  TypeOK'
  BY <1>2, FinishType DEF TypeOK, panelVars
<1> QED
  BY <1>1, <1>2

LEMMA DigestedType ==
  ASSUME TypeOK, NEW f \in Families, Digested(f)
  PROVE  TypeOK'
<1>1. digesting[f] \in Chunk
  BY DEF Digested, TypeOK
<1>2. digesting' \in [Families -> Chunk \cup {NoChunk}]
  BY DEF Digested, TypeOK
<1>3. \E status \in Statuses, gone \in BOOLEAN, keep \in BOOLEAN :
        /\ air' = Append(air, [family |-> f, status |-> status])
        /\ transfer' = [transfer EXCEPT ![f] =
                          [of |-> digesting[f].of, got |-> digesting[f].n, doomed |-> gone]]
        /\ stored' = [stored EXCEPT ![f] = IF keep THEN digesting[f].of ELSE @]
  <2> DEFINE
      chunk == digesting[f]
      fits == chunk.n = 1 \/ (chunk.of = transfer[f].of /\ chunk.n = transfer[f].got + 1)
      doomed == chunk.n # 1 /\ transfer[f].doomed
  <2>1. doomed \in BOOLEAN /\ (doomed \/ ~fits) \in BOOLEAN
    BY DEF TypeOK
  <2>2. (IF fits \/ doomed THEN "next" ELSE "failed") \in Statuses
    BY DEF Statuses
  <2> QED
    BY <2>1, <2>2 DEF Digested, Statuses
<1>4. PICK status \in Statuses, gone \in BOOLEAN, keep \in BOOLEAN :
        /\ air' = Append(air, [family |-> f, status |-> status])
        /\ transfer' = [transfer EXCEPT ![f] =
                          [of |-> digesting[f].of, got |-> digesting[f].n, doomed |-> gone]]
        /\ stored' = [stored EXCEPT ![f] = IF keep THEN digesting[f].of ELSE @]
  BY <1>3
<1>5. air' \in Seq(Acks)
  BY <1>4 DEF TypeOK, Acks
<1>6. transfer' \in [Families -> [of : Contents \cup {Nothing}, got : Nat, doomed : BOOLEAN]]
  BY <1>1, <1>4 DEF TypeOK, Chunk
<1>7. stored' \in [Families -> Contents \cup {Nothing}]
  BY <1>1, <1>4 DEF TypeOK, Chunk
<1>8. faults' \in 0..MaxFaults
  BY UsesAssumption DEF Digested, Fault, TypeOK
<1> QED
  BY <1>2, <1>5, <1>6, <1>7, <1>8 DEF Digested, TypeOK, taskVars

LEMMA HeardType ==
  ASSUME TypeOK, NEW family, NEW new \in Seq(Statuses), Heard(family, new)
  PROVE  /\ acks' \in [Uploaders -> Seq(Statuses)]
         /\ \A u \in Uploaders :
              acks'[u] = IF ListensTo(u, family) THEN acks[u] \o new ELSE acks[u]
<1>1. \A u \in Uploaders : acks[u] \in Seq(Statuses) /\ acks[u] \o new \in Seq(Statuses)
  BY DEF TypeOK
<1> QED
  BY <1>1 DEF Heard

LEMMA NotifiedMoves ==
  ASSUME TypeOK, Notified
  PROVE  /\ air # <<>> /\ Head(air) \in Acks /\ Tail(air) \in Seq(Acks)
         /\ \E new \in Seq(Statuses) :
              /\ Heard(Head(air).family, new)
              /\ \A i \in 1..Len(new) : new[i] = Head(air).status
         /\ air' \in {air, Tail(air)}
         /\ "straggle" \notin Faults => air' = Tail(air)
<1>1. air # <<>> /\ Head(air) \in Acks /\ Tail(air) \in Seq(Acks)
  BY DEF Notified, TypeOK
<1> DEFINE s == Head(air).status
<1>2. s \in Statuses
  BY <1>1 DEF Acks
<1>3. <<>> \in Seq(Statuses) /\ <<s>> \in Seq(Statuses) /\ <<s, s>> \in Seq(Statuses)
  BY <1>2
<1>4. /\ \A i \in 1..Len(<<>>) : <<>>[i] = s
      /\ \A i \in 1..Len(<<s>>) : <<s>>[i] = s
      /\ \A i \in 1..Len(<<s, s>>) : <<s, s>>[i] = s
  OBVIOUS
<1>5. \/ Heard(Head(air).family, <<>>) \/ Heard(Head(air).family, <<s>>)
      \/ Heard(Head(air).family, <<s, s>>)
  BY DEF Notified
<1>6. \E new \in Seq(Statuses) :
        /\ Heard(Head(air).family, new)
        /\ \A i \in 1..Len(new) : new[i] = s
  BY <1>3, <1>4, <1>5
<1> QED
  BY <1>1, <1>6 DEF Notified, Fault

LEMMA NotifiedType ==
  ASSUME TypeOK, Notified
  PROVE  TypeOK'
<1>1. acks' \in [Uploaders -> Seq(Statuses)]
  BY NotifiedMoves, HeardType
<1>2. air' \in Seq(Acks)
  BY NotifiedMoves DEF TypeOK
<1>3. faults' \in 0..MaxFaults
  BY UsesAssumption DEF Notified, Fault, TypeOK
<1> QED
  BY <1>1, <1>2, <1>3 DEF Notified, TypeOK, panelVars

LEMMA DoomedType ==
  ASSUME NEW A, NEW B, NEW r \in [of : A, got : B, doomed : BOOLEAN]
  PROVE  [r EXCEPT !.doomed = TRUE] \in [of : A, got : B, doomed : BOOLEAN]
  OBVIOUS

LEMMA UploaderStepType ==
  ASSUME TypeOK, NEW u \in Uploaders, UploaderStep(u)
  PROVE  TypeOK'
<1>1. CASE WriteReturns(u)
  BY <1>1 DEF WriteReturns, TypeOK, panelVars
<1>2. CASE WriteRaises(u)
  <2>1. faults' \in 0..MaxFaults
    BY <1>2, UsesAssumption DEF WriteRaises, Fault, TypeOK
  <2>2. digesting' \in [Families -> Chunk \cup {NoChunk}]
    BY <1>2 DEF WriteRaises
  <2>4. <<>> \in Seq(Acks)
    OBVIOUS
  <2>5. air' \in Seq(Acks)
    BY <1>2, <2>4 DEF WriteRaises
  <2>3. Finish(u, "lost") /\ UNCHANGED <<kind, content, transfer, stored, uploads>>
    BY <1>2 DEF WriteRaises
  <2> QED
    BY <2>1, <2>2, <2>3, <2>5, FinishType DEF TypeOK
<1>3. CASE GotAck(u)
  BY <1>3, InterpretMoves, GoesOnType DEF GotAck
<1>4. CASE TimesOut(u)
  <2>1. 1 \in Nat \ {0}
    OBVIOUS
  <2> QED
    BY <1>4, <2>1, PassFailedMoves, GoesOnType DEF TimesOut
<1>5. CASE ChunkArrives(u)
  <2>1. [of |-> content[u], n |-> index[u]] \in Chunk
    BY <1>5 DEF ChunkArrives, TypeOK, Chunk
  <2>2. digesting' \in [Families -> Chunk \cup {NoChunk}]
    BY <1>5, <2>1 DEF ChunkArrives, TypeOK
  <2>3. transfer' \in [Families -> [of : Contents \cup {Nothing}, got : Nat, doomed : BOOLEAN]]
    <3> DEFINE f == Family(kind[u])
    <3>1. f \in Families
      BY DEF Family, Families
    <3>4. transfer[f] \in [of : Contents \cup {Nothing}, got : Nat, doomed : BOOLEAN]
      BY <3>1 DEF TypeOK
    <3>2. [transfer[f] EXCEPT !.doomed = TRUE]
             \in [of : Contents \cup {Nothing}, got : Nat, doomed : BOOLEAN]
      BY <3>4, DoomedType
    <3>3. \/ transfer' = transfer
          \/ transfer' = [transfer EXCEPT ![f] = [transfer[f] EXCEPT !.doomed = TRUE]]
      BY <1>5 DEF ChunkArrives
    <3> HIDE DEF f
    <3> QED
      BY <3>1, <3>2, <3>3 DEF TypeOK
  <2> QED
    BY <1>5, <2>2, <2>3 DEF ChunkArrives, TypeOK
<1> QED
  BY <1>1, <1>2, <1>3, <1>4, <1>5 DEF UploaderStep

LEMMA UploadType ==
  ASSUME TypeOK, NEW u \in Uploaders, Upload(u)
  PROVE  TypeOK'
<1>1. Send(u, 1) /\ 1 \in Nat \ {0}
  BY DEF Upload
<1>2. /\ kind' \in [Uploaders -> AllKinds]
      /\ content' \in [Uploaders -> Contents \cup {Nothing}]
      /\ content'[u] \in Contents
      /\ \A v \in Uploaders \ {u} : content'[v] = content[v]
  BY UsesAssumption DEF Upload, TypeOK
<1>3. uploads' \in 0..MaxUploads
  BY UsesAssumption DEF Upload, TypeOK
<1>4. /\ attempt' \in [Uploaders -> 1..2]
      /\ outcome' \in [Uploaders -> {"none", "ok", "failed", "lost"}]
  BY DEF Upload, TypeOK
<1> QED
  BY <1>1, <1>2, <1>3, <1>4, SendType DEF Upload, TypeOK, panelVars

LEMMA TypeNext == TypeOK /\ [Next]_vars => TypeOK'
<1>1. TypeOK /\ UNCHANGED vars => TypeOK'
  BY DEF TypeOK, vars, taskVars, panelVars
<1> QED
  BY <1>1, UploadType, UploaderStepType, DigestedType, NotifiedType DEF Next, Finished

(* Every variable keeps its type; in particular a GIF upload makes at most    *)
(* two attempts.                                                              *)
THEOREM Typing == Spec => []TypeOK
  BY TypeInit, TypeNext, PTL DEF Spec
-----------------------------------------------------------------------------
(* The pacing handshake.  Acks are consumed one per chunk only because of all *)
(* four parts together: one listener per family, which is past its write and  *)
(* has an empty queue for as long as the panel owes an ack, nothing in the    *)
(* queue of one that writes, and the panel owing one ack at a time.           *)
Owes(f) == digesting[f] # NoChunk \/ \E i \in 1..Len(air) : air[i].family = f
Awaits(u, f) == ListensTo(u, f) /\ pc[u] \in {"written", "waiting"} /\ acks[u] = <<>>

OneListener ==
  \A u, v \in Uploaders :
     pc[u] # "idle" /\ pc[v] # "idle" /\ Family(kind[u]) = Family(kind[v]) => u = v
OwedIsAwaited == \A f \in Families : Owes(f) => \E u \in Uploaders : Awaits(u, f)
OneAckOwed ==
  /\ \A f \in Families : digesting[f] # NoChunk => \A i \in 1..Len(air) : air[i].family # f
  /\ \A i, j \in 1..Len(air) : air[i].family = air[j].family => i = j
WritesUnheard == \A u \in Uploaders : pc[u] = "writing" => acks[u] = <<>>
PaceInv == OneListener /\ OwedIsAwaited /\ WritesUnheard /\ OneAckOwed

(* A status "saved" speaks of the content of whoever is going to hear it.     *)
DigestsItsOwn ==
  \A f \in Families, u \in Uploaders :
     digesting[f] # NoChunk /\ ListensTo(u, f) => digesting[f].of = content[u]
SavedInAir ==
  \A i \in 1..Len(air), u \in Uploaders :
     air[i].status = "saved" /\ ListensTo(u, air[i].family) => stored[air[i].family] = content[u]
SavedHeard ==
  \A u \in Uploaders : \A i \in 1..Len(acks[u]) :
     pc[u] # "idle" /\ acks[u][i] = "saved" => stored[Family(kind[u])] = content[u]
HonestInv == DigestsItsOwn /\ SavedInAir /\ SavedHeard

-----------------------------------------------------------------------------
LEMMA AppendAt ==
  ASSUME NEW S, NEW s \in Seq(S), NEW e \in S
  PROVE  /\ Len(Append(s, e)) = Len(s) + 1
         /\ \A i \in 1..Len(s) : Append(s, e)[i] = s[i]
         /\ Append(s, e)[Len(s) + 1] = e
  OBVIOUS

LEMMA TailAt ==
  ASSUME NEW S, NEW s \in Seq(S), s # <<>>
  PROVE  /\ 1 \in 1..Len(s) /\ s[1] = Head(s)
         /\ Tail(s) \in Seq(S)
         /\ Len(s) \in Nat /\ Len(Tail(s)) = Len(s) - 1
         /\ \A i \in 1..Len(Tail(s)) : i + 1 \in 1..Len(s) /\ Tail(s)[i] = s[i + 1]
  OBVIOUS

LEMMA InitInv == Init => PaceInv /\ HonestInv
<1> SUFFICES ASSUME Init PROVE PaceInv /\ HonestInv
  OBVIOUS
<1>1. /\ \A u \in Uploaders : pc[u] = "idle"
      /\ \A f \in Families : digesting[f] = NoChunk
      /\ Len(air) = 0
  BY DEF Init
<1>2. \A i : i \notin 1..Len(air)
  BY <1>1
<1>3. PaceInv
  BY <1>1, <1>2 DEF PaceInv, OneListener, OwedIsAwaited, WritesUnheard, OneAckOwed, Owes
<1>4. HonestInv
  BY <1>1, <1>2 DEF HonestInv, DigestsItsOwn, SavedInAir, SavedHeard, ListensTo
<1> QED
  BY <1>3, <1>4

LEMMA FamilyType == ASSUME NEW k PROVE Family(k) \in Families
  BY DEF Family, Families

(* The listener of a family that is owed an ack awaits it.                    *)
LEMMA ListenerAwaits ==
  ASSUME PaceInv, NEW u \in Uploaders, NEW f \in Families, ListensTo(u, f), Owes(f)
  PROVE  Awaits(u, f)
<1>1. PICK v \in Uploaders : Awaits(v, f)
  BY DEF PaceInv, OwedIsAwaited
<1>2. v = u
  BY <1>1 DEF PaceInv, OneListener, Awaits, ListensTo
<1> QED
  BY <1>1, <1>2

(* An uploader that is owed nothing sends its next chunk, or finishes.        *)
LEMMA GoesOnInv ==
  ASSUME PaceInv, HonestInv, NEW u \in Uploaders, pc[u] # "idle", ~Owes(Family(kind[u])),
         UNCHANGED <<kind, content, panelVars, air>>, acks'[u] = <<>>,
         \A v \in Uploaders \ {u} : pc'[v] = pc[v] /\ acks'[v] = acks[v]
  PROVE  PaceInv' /\ HonestInv'
<1>1. UNCHANGED <<kind, content, digesting, stored, air>>
  BY DEF panelVars
<1>2. \A v \in Uploaders : pc'[v] # "idle" => pc[v] # "idle"
  OBVIOUS
<1>3. \A v \in Uploaders : \A f : ListensTo(v, f)' => ListensTo(v, f)
  BY <1>1, <1>2 DEF ListensTo
<1>4. OneListener'
  BY <1>1, <1>2 DEF PaceInv, OneListener
<1>5. OwedIsAwaited'
  <2> SUFFICES ASSUME NEW f \in Families, Owes(f)' PROVE \E v \in Uploaders : Awaits(v, f)'
    BY DEF OwedIsAwaited
  <2>1. Owes(f)
    BY <1>1 DEF Owes
  <2>2. PICK v \in Uploaders : Awaits(v, f)
    BY <2>1 DEF PaceInv, OwedIsAwaited
  <2>3. v # u
    BY <2>1, <2>2 DEF Awaits, ListensTo
  <2> QED
    BY <1>1, <2>2, <2>3 DEF Awaits, ListensTo
<1>6. WritesUnheard'
  BY DEF PaceInv, WritesUnheard
<1>7. OneAckOwed'
  BY <1>1 DEF PaceInv, OneAckOwed
<1>8. DigestsItsOwn' /\ SavedInAir'
  BY <1>1, <1>3 DEF HonestInv, DigestsItsOwn, SavedInAir
<1>9. SavedHeard'
  <2>1. \A i : i \notin 1..Len(acks'[u])
    BY SMT
  <2> QED
    BY <1>1, <1>2, <2>1 DEF HonestInv, SavedHeard
<1> QED
  BY <1>4, <1>5, <1>6, <1>7, <1>8, <1>9 DEF PaceInv, HonestInv

LEMMA UploadInv ==
  ASSUME ~Overlap, TypeOK, PaceInv, HonestInv, NEW u \in Uploaders, Upload(u)
  PROVE  PaceInv' /\ HonestInv'
<1>1. PICK k \in Kinds, c \in Contents :
        /\ \A v \in Uploaders : ~ListensTo(v, Family(k))
        /\ kind' = [kind EXCEPT ![u] = k]
        /\ content' = [content EXCEPT ![u] = c]
  BY DEF Upload
<1>2. pc[u] = "idle" /\ UNCHANGED <<digesting, stored, air>> /\ Send(u, 1)
  BY DEF Upload, panelVars
<1>3. /\ pc'[u] = "writing" /\ acks'[u] = <<>> /\ kind'[u] = k
      /\ \A v \in Uploaders \ {u} : /\ pc'[v] = pc[v] /\ acks'[v] = acks[v]
                                    /\ kind'[v] = kind[v] /\ content'[v] = content[v]
  BY <1>1, <1>2, SendType DEF TypeOK
<1>4. ~Owes(Family(k))
  BY <1>1, FamilyType DEF PaceInv, OwedIsAwaited, Awaits
<1>5. \A v \in Uploaders \ {u} : \A f : ListensTo(v, f)' <=> ListensTo(v, f)
  BY <1>3 DEF ListensTo
<1>6. OneListener'
  BY <1>1, <1>3 DEF PaceInv, OneListener, ListensTo
<1>7. OwedIsAwaited'
  <2> SUFFICES ASSUME NEW f \in Families, Owes(f)' PROVE \E v \in Uploaders : Awaits(v, f)'
    BY DEF OwedIsAwaited
  <2>1. Owes(f)
    BY <1>2 DEF Owes
  <2>2. PICK v \in Uploaders : Awaits(v, f)
    BY <2>1 DEF PaceInv, OwedIsAwaited
  <2>3. v # u
    BY <1>2, <2>2 DEF Awaits, ListensTo
  <2> QED
    BY <1>3, <1>5, <2>2, <2>3 DEF Awaits
<1>8. WritesUnheard'
  BY <1>3 DEF PaceInv, WritesUnheard
<1>9. OneAckOwed'
  BY <1>2 DEF PaceInv, OneAckOwed
<1>10. \A f : ListensTo(u, f)' => f = Family(k)
  BY <1>3 DEF ListensTo
<1>11. DigestsItsOwn'
  BY <1>2, <1>3, <1>4, <1>5, <1>10 DEF HonestInv, DigestsItsOwn, Owes
<1>12. SavedInAir'
  BY <1>2, <1>3, <1>4, <1>5, <1>10 DEF HonestInv, SavedInAir, Owes
<1>13. SavedHeard'
  <2>1. \A i : i \notin 1..Len(acks'[u])
    BY <1>3, SMT
  <2> QED
    BY <1>2, <1>3, <2>1 DEF HonestInv, SavedHeard
<1> QED
  BY <1>6, <1>7, <1>8, <1>9, <1>11, <1>12, <1>13 DEF PaceInv, HonestInv

LEMMA WriteReturnsInv ==
  ASSUME TypeOK, PaceInv, HonestInv, NEW u \in Uploaders, WriteReturns(u)
  PROVE  PaceInv' /\ HonestInv'
<1>1. /\ UNCHANGED <<kind, content, digesting, stored, air, acks>>
      /\ pc[u] = "written" /\ pc'[u] = "waiting"
      /\ \A v \in Uploaders \ {u} : pc'[v] = pc[v]
  BY DEF WriteReturns, TypeOK, panelVars
<1>2. \A v \in Uploaders : \A f : ListensTo(v, f)' <=> ListensTo(v, f)
  BY <1>1 DEF ListensTo
<1>3. OneListener' /\ OneAckOwed' /\ WritesUnheard'
  BY <1>1 DEF PaceInv, OneListener, OneAckOwed, WritesUnheard
<1>4. OwedIsAwaited'
  <2>1. \A v \in Uploaders : \A f : Awaits(v, f) => Awaits(v, f)'
    BY <1>1, <1>2 DEF Awaits
  <2>2. \A f \in Families : Owes(f)' => Owes(f)
    BY <1>1 DEF Owes
  <2> QED
    BY <2>1, <2>2 DEF PaceInv, OwedIsAwaited
<1>5. DigestsItsOwn' /\ SavedInAir' /\ SavedHeard'
  BY <1>1, <1>2 DEF HonestInv, DigestsItsOwn, SavedInAir, SavedHeard
<1> QED
  BY <1>3, <1>4, <1>5 DEF PaceInv, HonestInv

(* A lost connection takes every ack that is owed with it.                    *)
LEMMA WriteRaisesInv ==
  ASSUME TypeOK, PaceInv, HonestInv, NEW u \in Uploaders, WriteRaises(u)
  PROVE  PaceInv' /\ HonestInv'
<1>1. /\ UNCHANGED <<kind, content, stored>> /\ air' = <<>>
      /\ \A f \in Families : digesting'[f] = NoChunk
      /\ Finish(u, "lost")
  BY DEF WriteRaises
<1>2. /\ pc'[u] = "idle" /\ acks'[u] = <<>>
      /\ \A v \in Uploaders \ {u} : pc'[v] = pc[v] /\ acks'[v] = acks[v]
  BY <1>1 DEF Finish, TypeOK
<1>3. \A i : i \notin 1..Len(air')
  BY <1>1, SMT
<1>4. OneListener' /\ WritesUnheard'
  BY <1>1, <1>2 DEF PaceInv, OneListener, WritesUnheard
<1>5. OwedIsAwaited' /\ OneAckOwed'
  BY <1>1, <1>3 DEF OwedIsAwaited, OneAckOwed, Owes
<1>6. DigestsItsOwn' /\ SavedInAir'
  BY <1>1, <1>3 DEF DigestsItsOwn, SavedInAir
<1>7. SavedHeard'
  BY <1>1, <1>2 DEF HonestInv, SavedHeard
<1> QED
  BY <1>4, <1>5, <1>6, <1>7 DEF PaceInv, HonestInv

LEMMA ChunkArrivesInv ==
  ASSUME TypeOK, PaceInv, HonestInv, NEW u \in Uploaders, ChunkArrives(u)
  PROVE  PaceInv' /\ HonestInv'
<1> DEFINE f == Family(kind[u])
<1>1. /\ UNCHANGED <<kind, content, stored, air, acks>>
      /\ pc[u] = "writing" /\ pc'[u] = "written"
      /\ \A v \in Uploaders \ {u} : pc'[v] = pc[v]
  BY DEF ChunkArrives, TypeOK
<1>2. f \in Families /\ ListensTo(u, f)
  BY <1>1, FamilyType DEF ListensTo
<1>3. ~Owes(f)
  BY <1>1, <1>2, ListenerAwaits DEF Awaits
<1>4. /\ digesting'[f] = [of |-> content[u], n |-> index[u]]
      /\ \A g \in Families \ {f} : digesting'[g] = digesting[g]
  BY <1>2, <1>3 DEF ChunkArrives, Owes, TypeOK
<1>5. \A v \in Uploaders : \A g : ListensTo(v, g)' <=> ListensTo(v, g)
  BY <1>1 DEF ListensTo
<1>6. OneListener' /\ WritesUnheard'
  BY <1>1 DEF PaceInv, OneListener, WritesUnheard
<1>7. OwedIsAwaited'
  <2> SUFFICES ASSUME NEW g \in Families, Owes(g)' PROVE \E v \in Uploaders : Awaits(v, g)'
    BY DEF OwedIsAwaited
  <2>1. CASE g = f
    <3>1. acks[u] = <<>>
      BY <1>1 DEF PaceInv, WritesUnheard
    <3> QED
      BY <1>1, <1>2, <1>5, <2>1, <3>1 DEF Awaits
  <2>2. CASE g # f
    <3>1. Owes(g)
      BY <1>1, <1>4, <2>2 DEF Owes
    <3>2. PICK v \in Uploaders : Awaits(v, g)
      BY <3>1 DEF PaceInv, OwedIsAwaited
    <3>3. v # u
      BY <1>1, <3>2 DEF Awaits
    <3> QED
      BY <1>1, <1>5, <3>2, <3>3 DEF Awaits
  <2> QED
    BY <2>1, <2>2
<1>8. OneAckOwed'
  BY <1>1, <1>3, <1>4 DEF PaceInv, OneAckOwed, Owes
<1>9. DigestsItsOwn'
  <2> SUFFICES ASSUME NEW g \in Families, NEW v \in Uploaders, digesting'[g] # NoChunk,
                      ListensTo(v, g)'
               PROVE  digesting'[g].of = content'[v]
    BY DEF DigestsItsOwn
  <2>1. CASE g = f
    <3>1. v = u
      BY <1>1, <1>2, <1>5, <2>1 DEF PaceInv, OneListener, ListensTo
    <3> QED
      BY <1>1, <1>4, <2>1, <3>1
  <2>2. CASE g # f
    BY <1>1, <1>4, <1>5, <2>2 DEF HonestInv, DigestsItsOwn
  <2> QED
    BY <2>1, <2>2
<1>10. SavedInAir' /\ SavedHeard'
  BY <1>1, <1>5 DEF HonestInv, SavedInAir, SavedHeard
<1> QED
  BY <1>6, <1>7, <1>8, <1>9, <1>10 DEF PaceInv, HonestInv

(* What the panel's answer to a chunk says: "saved" only of what it stores.   *)
LEMMA DigestedReply ==
  ASSUME TypeOK, NEW f \in Families, Digested(f)
  PROVE  \E ack \in Acks :
           /\ air' = Append(air, ack) /\ ack.family = f
           /\ ack.status = "saved" => stored'[f] = digesting[f].of
           /\ \A g \in Families \ {f} : stored'[g] = stored[g]
<1> DEFINE
    chunk == digesting[f]
    fits == chunk.n = 1 \/ (chunk.of = transfer[f].of /\ chunk.n = transfer[f].got + 1)
    doomed == chunk.n # 1 /\ transfer[f].doomed
    Answer(status, keep) ==
      /\ air' = Append(air, [family |-> f, status |-> status])
      /\ stored' = [stored EXCEPT ![f] = IF keep THEN chunk.of ELSE @]
<1>1. (IF fits \/ doomed THEN "next" ELSE "failed") \in {"next", "failed"}
  OBVIOUS
<1>2. Answer("saved", TRUE) \/ \E status \in {"next", "failed", "odd"} : Answer(status, FALSE)
  BY <1>1 DEF Digested
<1>3. ASSUME NEW status \in Statuses, NEW keep \in BOOLEAN, Answer(status, keep),
             status = "saved" => keep
      PROVE  \E ack \in Acks :
               /\ air' = Append(air, ack) /\ ack.family = f
               /\ ack.status = "saved" => stored'[f] = chunk.of
               /\ \A g \in Families \ {f} : stored'[g] = stored[g]
  <2>1. [family |-> f, status |-> status] \in Acks
    BY <1>3 DEF Acks
  <2> QED
    BY <1>3, <2>1 DEF TypeOK
<1> HIDE DEF Answer
<1> QED
  BY <1>2, <1>3 DEF Statuses

LEMMA DigestedInv ==
  ASSUME TypeOK, PaceInv, HonestInv, NEW f \in Families, Digested(f)
  PROVE  PaceInv' /\ HonestInv'
<1>1. /\ UNCHANGED <<pc, kind, content, acks>> /\ digesting[f] # NoChunk
      /\ digesting'[f] = NoChunk
      /\ \A g \in Families \ {f} : digesting'[g] = digesting[g]
  BY DEF Digested, TypeOK, taskVars
<1>2. PICK ack \in Acks :
        /\ air' = Append(air, ack) /\ ack.family = f
        /\ ack.status = "saved" => stored'[f] = digesting[f].of
        /\ \A g \in Families \ {f} : stored'[g] = stored[g]
  BY DigestedReply
<1>3. air \in Seq(Acks) /\ Len(air) \in Nat
  BY DEF TypeOK
<1>4. /\ Len(air') = Len(air) + 1
      /\ \A i \in 1..Len(air) : air'[i] = air[i]
      /\ air'[Len(air) + 1] = ack
  BY <1>2, <1>3, AppendAt
<1>5. \A i \in 1..Len(air') : i \in 1..Len(air) \/ i = Len(air) + 1
  BY <1>3, <1>4
<1>6. Owes(f) /\ \A i \in 1..Len(air) : air[i].family # f
  BY <1>1 DEF PaceInv, OneAckOwed, Owes
<1>7. \A u \in Uploaders : \A g : ListensTo(u, g)' <=> ListensTo(u, g)
  BY <1>1 DEF ListensTo
<1>8. OneListener' /\ WritesUnheard'
  BY <1>1 DEF PaceInv, OneListener, WritesUnheard
<1>9. OwedIsAwaited'
  <2>1. \A g \in Families : Owes(g)' => Owes(g)
    BY <1>1, <1>2, <1>4, <1>5, <1>6 DEF Owes
  <2>2. \A u \in Uploaders : \A g : Awaits(u, g) => Awaits(u, g)'
    BY <1>1, <1>7 DEF Awaits
  <2> QED
    BY <2>1, <2>2 DEF PaceInv, OwedIsAwaited
<1>10. OneAckOwed'
  <2>1. \A g \in Families : digesting'[g] # NoChunk => \A i \in 1..Len(air') : air'[i].family # g
    BY <1>1, <1>2, <1>4, <1>5 DEF PaceInv, OneAckOwed
  <2>2. \A i, j \in 1..Len(air') : air'[i].family = air'[j].family => i = j
    BY <1>2, <1>4, <1>5, <1>6 DEF PaceInv, OneAckOwed
  <2> QED
    BY <2>1, <2>2 DEF OneAckOwed
<1>11. DigestsItsOwn'
  BY <1>1, <1>7 DEF HonestInv, DigestsItsOwn
<1>12. SavedInAir'
  <2> SUFFICES ASSUME NEW i \in 1..Len(air'), NEW u \in Uploaders, air'[i].status = "saved",
                      ListensTo(u, air'[i].family)
               PROVE  stored'[air'[i].family] = content[u]
    BY <1>1, <1>7 DEF SavedInAir
  <2>1. CASE i \in 1..Len(air)
    <3>1. air'[i] = air[i] /\ air[i] \in Acks
      BY <1>3, <1>4, <2>1
    <3>2. air[i].family \in Families \ {f}
      BY <1>6, <2>1, <3>1 DEF Acks
    <3> QED
      BY <1>2, <2>1, <3>1, <3>2 DEF HonestInv, SavedInAir
  <2>2. CASE i = Len(air) + 1
    BY <1>1, <1>2, <1>4, <2>2 DEF HonestInv, DigestsItsOwn
  <2> QED
    BY <1>5, <2>1, <2>2
<1>13. SavedHeard'
  <2> SUFFICES ASSUME NEW u \in Uploaders, NEW i \in 1..Len(acks[u]), pc[u] # "idle",
                      acks[u][i] = "saved"
               PROVE  stored'[Family(kind[u])] = content[u]
    BY <1>1 DEF SavedHeard
  <2>1. Family(kind[u]) # f
    <3> SUFFICES ASSUME Family(kind[u]) = f PROVE FALSE
      OBVIOUS
    <3>1. Awaits(u, f)
      BY <1>6, ListenerAwaits DEF ListensTo
    <3>2. acks[u] = <<>>
      BY <3>1 DEF Awaits
    <3> QED
      BY <3>2, SMT
  <2> QED
    BY <1>2, <2>1, FamilyType DEF HonestInv, SavedHeard
<1> QED
  BY <1>8, <1>9, <1>10, <1>11, <1>12, <1>13 DEF PaceInv, HonestInv

(* The one place where the assumption on late duplicates is needed: an ack    *)
(* that was heard is not heard again.                                         *)
LEMMA NotifiedInv ==
  ASSUME "straggle" \notin Faults, TypeOK, PaceInv, HonestInv, Notified
  PROVE  PaceInv' /\ HonestInv'
<1> DEFINE f == Head(air).family
<1>1. UNCHANGED <<pc, kind, content, digesting, stored>> /\ air' = Tail(air) /\ air # <<>>
  BY NotifiedMoves DEF Notified, panelVars
<1>2. PICK new \in Seq(Statuses) :
        /\ Heard(f, new)
        /\ \A i \in 1..Len(new) : new[i] = Head(air).status
  BY NotifiedMoves
<1>3. f \in Families /\ Tail(air) \in Seq(Acks)
  BY NotifiedMoves DEF Acks
<1>4. /\ 1 \in 1..Len(air) /\ air[1] = Head(air)
      /\ \A i \in 1..Len(air') : i + 1 \in 1..Len(air) /\ air'[i] = air[i + 1]
  BY <1>1, TailAt DEF TypeOK
<1>5. Owes(f)
  BY <1>4 DEF Owes
<1>6. \A u \in Uploaders : acks'[u] = IF ListensTo(u, f) THEN acks[u] \o new ELSE acks[u]
  BY <1>2, HeardType
<1>7. \A u \in Uploaders : \A g : ListensTo(u, g)' <=> ListensTo(u, g)
  BY <1>1 DEF ListensTo
<1>8. \A u \in Uploaders : ListensTo(u, f) => pc[u] \in {"written", "waiting"} /\ acks[u] = <<>>
  BY <1>3, <1>5, ListenerAwaits DEF Awaits
<1>9. OneListener'
  BY <1>1 DEF PaceInv, OneListener
<1>10. WritesUnheard'
  <2> SUFFICES ASSUME NEW u \in Uploaders, pc[u] = "writing" PROVE acks'[u] = <<>>
    BY <1>1 DEF WritesUnheard
  <2>1. ~ListensTo(u, f) /\ acks[u] = <<>>
    BY <1>8 DEF PaceInv, WritesUnheard
  <2> QED
    BY <1>6, <2>1
<1>11. \A i \in 1..Len(air') : air'[i].family # f
  <2> SUFFICES ASSUME NEW i \in 1..Len(air'), air'[i].family = f PROVE FALSE
    OBVIOUS
  <2>1. i + 1 \in 1..Len(air) /\ air[i + 1].family = air[1].family
    BY <1>4
  <2>2. i + 1 = 1
    BY <1>4, <2>1 DEF PaceInv, OneAckOwed
  <2> QED
    BY <2>2
<1>12. digesting[f] = NoChunk
  BY <1>3, <1>4 DEF PaceInv, OneAckOwed
<1>13. OwedIsAwaited'
  <2> SUFFICES ASSUME NEW g \in Families, Owes(g)' PROVE \E u \in Uploaders : Awaits(u, g)'
    BY DEF OwedIsAwaited
  <2>1. g # f
    BY <1>1, <1>11, <1>12 DEF Owes
  <2>2. Owes(g)
    BY <1>1, <1>4 DEF Owes
  <2>3. PICK u \in Uploaders : Awaits(u, g)
    BY <2>2 DEF PaceInv, OwedIsAwaited
  <2>4. ~ListensTo(u, f)
    BY <2>1, <2>3 DEF Awaits, ListensTo
  <2> QED
    BY <1>1, <1>6, <1>7, <2>3, <2>4 DEF Awaits
<1>14. OneAckOwed'
  <2>1. \A g \in Families : digesting'[g] # NoChunk => \A i \in 1..Len(air') : air'[i].family # g
    BY <1>1, <1>4 DEF PaceInv, OneAckOwed
  <2>2. ASSUME NEW i \in 1..Len(air'), NEW j \in 1..Len(air'), air'[i].family = air'[j].family
        PROVE  i = j
    <3>1. i + 1 = j + 1
      BY <1>4, <2>2 DEF PaceInv, OneAckOwed
    <3> QED
      BY <3>1
  <2> QED
    BY <2>1, <2>2 DEF OneAckOwed
<1>15. DigestsItsOwn' /\ SavedInAir'
  BY <1>1, <1>4, <1>7 DEF HonestInv, DigestsItsOwn, SavedInAir
<1>16. SavedHeard'
  <2> SUFFICES ASSUME NEW u \in Uploaders, NEW i \in 1..Len(acks'[u]), pc[u] # "idle",
                      acks'[u][i] = "saved"
               PROVE  stored[Family(kind[u])] = content[u]
    BY <1>1 DEF SavedHeard
  <2>1. CASE ListensTo(u, f)
    <3>1. acks'[u] = new
      <4>1. acks'[u] = acks[u] \o new /\ acks[u] = <<>>
        BY <1>6, <1>8, <2>1
      <4>2. <<>> \o new = new
        OBVIOUS
      <4> QED
        BY <4>1, <4>2
    <3>2. Head(air).status = "saved"
      BY <1>2, <3>1
    <3> QED
      BY <1>4, <2>1, <3>2 DEF HonestInv, SavedInAir, ListensTo
  <2>2. CASE ~ListensTo(u, f)
    BY <1>6, <2>2 DEF HonestInv, SavedHeard
  <2> QED
    BY <2>1, <2>2
<1> QED
  BY <1>9, <1>10, <1>13, <1>14, <1>15, <1>16 DEF PaceInv, HonestInv

LEMMA GotAckInv ==
  ASSUME TypeOK, PaceInv, HonestInv, NEW u \in Uploaders, GotAck(u) \/ TimesOut(u)
  PROVE  PaceInv' /\ HonestInv'
<1>1. pc[u] = "waiting" /\ UNCHANGED <<kind, content, panelVars, air>>
  BY DEF GotAck, TimesOut
<1>2. ListensTo(u, Family(kind[u]))
  BY <1>1 DEF ListensTo
<1>3. ~Owes(Family(kind[u]))
  <2>1. CASE GotAck(u)
    BY <1>2, <2>1, ListenerAwaits, FamilyType DEF GotAck, Awaits
  <2>2. CASE TimesOut(u)
    BY <2>2 DEF TimesOut, Owes
  <2> QED
    BY <2>1, <2>2
<1>4. /\ acks'[u] = <<>>
      /\ \A v \in Uploaders \ {u} : pc'[v] = pc[v] /\ acks'[v] = acks[v]
  <2>1. \/ \E n \in Nat \ {0} : Send(u, n)
        \/ \E how \in {"ok", "failed", "lost"} : Finish(u, how)
    <3>1. CASE GotAck(u)
      BY <3>1, InterpretMoves DEF GotAck
    <3>2. CASE TimesOut(u)
      BY <3>2, PassFailedMoves DEF TimesOut
    <3> QED
      BY <3>1, <3>2
  <2>2. ASSUME NEW n \in Nat \ {0}, Send(u, n)
        PROVE  acks'[u] = <<>> /\ \A v \in Uploaders \ {u} : pc'[v] = pc[v] /\ acks'[v] = acks[v]
    BY <2>2, SendType
  <2>3. ASSUME NEW how \in {"ok", "failed", "lost"}, Finish(u, how)
        PROVE  acks'[u] = <<>> /\ \A v \in Uploaders \ {u} : pc'[v] = pc[v] /\ acks'[v] = acks[v]
    BY <2>3 DEF Finish, TypeOK
  <2> QED
    BY <2>1, <2>2, <2>3
<1> QED
  BY <1>1, <1>3, <1>4, GoesOnInv

LEMMA InvNext ==
  ASSUME ~Overlap, "straggle" \notin Faults
  PROVE  TypeOK /\ PaceInv /\ HonestInv /\ [Next]_vars => PaceInv' /\ HonestInv'
<1> SUFFICES ASSUME TypeOK, PaceInv, HonestInv, [Next]_vars PROVE PaceInv' /\ HonestInv'
  OBVIOUS
<1>1. CASE UNCHANGED vars
  <2>1. UNCHANGED <<pc, kind, content, acks, digesting, stored, air>>
    BY <1>1 DEF vars, taskVars, panelVars
  <2>2. PaceInv'
    BY <2>1 DEF PaceInv, OneListener, OwedIsAwaited, WritesUnheard, OneAckOwed, Owes, Awaits,
                ListensTo
  <2>3. HonestInv'
    BY <2>1 DEF HonestInv, DigestsItsOwn, SavedInAir, SavedHeard, ListensTo
  <2> QED
    BY <2>2, <2>3
<1>2. ASSUME NEW u \in Uploaders, UploaderStep(u)
      PROVE  PaceInv' /\ HonestInv'
  BY <1>2, WriteReturnsInv, WriteRaisesInv, ChunkArrivesInv, GotAckInv DEF UploaderStep
<1> QED
  BY <1>1, <1>2, UploadInv, DigestedInv, NotifiedInv DEF Next, Finished

LEMMA PacedState == PaceInv => Paced
<1> SUFFICES ASSUME PaceInv, NEW u \in Uploaders, pc[u] = "writing"
             PROVE  ~Owes(Family(kind[u]))
  BY DEF Paced, Owes
<1> QED
  BY ListenerAwaits, FamilyType DEF Awaits, ListensTo

(* The handshake paces every upload, for any number of uploaders, contents    *)
(* and faults, as long as uploads of one family take turns and a duplicate    *)
(* ack does not come late: then no chunk is ever sent into a busy panel.      *)
THEOREM HandshakePaces ==
  ASSUME ~Overlap, "straggle" \notin Faults
  PROVE  Spec => []Paced
<1>1. Init => TypeOK /\ PaceInv /\ HonestInv
  BY TypeInit, InitInv
<1>2. TypeOK /\ PaceInv /\ HonestInv /\ [Next]_vars => TypeOK' /\ PaceInv' /\ HonestInv'
  BY TypeNext, InvNext
<1> QED
  BY <1>1, <1>2, PacedState, PTL DEF Spec

LEMMA SuccessStep ==
  ASSUME TypeOK, HonestInv, Next, NEW u \in Uploaders, outcome[u] # "ok", outcome'[u] = "ok"
  PROVE  stored[Family(kind[u])] = content[u]
<1>1. CASE UNCHANGED outcome
  BY <1>1
<1>2. ASSUME NEW v \in Uploaders, Upload(v)
      PROVE  FALSE
  BY <1>2 DEF Upload, TypeOK
<1>3. ASSUME NEW v \in Uploaders, WriteRaises(v)
      PROVE  FALSE
  BY <1>3 DEF WriteRaises, Finish, TypeOK
<1>4. ASSUME NEW v \in Uploaders, TimesOut(v)
      PROVE  FALSE
  BY <1>4, PassFailedMoves DEF TimesOut, Finish, TypeOK
<1>5. ASSUME NEW v \in Uploaders, GotAck(v)
      PROVE  v = u /\ acks[u] # <<>> /\ Head(acks[u]) = "saved" /\ pc[u] # "idle"
  <2> DEFINE status == Head(acks[v])
  <2>1. pc[v] = "waiting" /\ acks[v] # <<>> /\ Interpret(v, status)
    BY <1>5 DEF GotAck
  <2>2. ~UNCHANGED outcome
    OBVIOUS
  <2>3. Finish(v, "failed") \/ (Finish(v, "ok") /\ status = "saved")
    <3> HIDE DEF status
    <3> QED
      BY <2>1, <2>2, InterpretMoves
  <2>4. outcome' = [outcome EXCEPT ![v] = "failed"] \/ outcome' = [outcome EXCEPT ![v] = "ok"]
    BY <2>3 DEF Finish
  <2>5. v = u
    BY <2>4 DEF TypeOK
  <2>6. status = "saved"
    BY <2>3, <2>5 DEF Finish, TypeOK
  <2> QED
    BY <2>1, <2>5, <2>6
<1>6. ASSUME NEW v \in Uploaders, GotAck(v)
      PROVE  stored[Family(kind[u])] = content[u]
  <2>1. 1 \in 1..Len(acks[u]) /\ acks[u][1] = "saved" /\ pc[u] # "idle"
    BY <1>5, <1>6, TailAt DEF TypeOK
  <2> QED
    BY <2>1 DEF HonestInv, SavedHeard
<1> QED
  BY <1>1, <1>2, <1>3, <1>4, <1>6
     DEF Next, UploaderStep, WriteReturns, ChunkArrives, Digested, Notified, Finished, vars,
         taskVars

(* An upload that returns as a success has its content stored in the panel,   *)
(* under the same two assumptions.                                            *)
THEOREM SuccessIsStored ==
  ASSUME ~Overlap, "straggle" \notin Faults
  PROVE  Spec => SuccessMeansStored
<1>1. Init => TypeOK /\ PaceInv /\ HonestInv
  BY TypeInit, InitInv
<1>2. TypeOK /\ PaceInv /\ HonestInv /\ [Next]_vars => TypeOK' /\ PaceInv' /\ HonestInv'
  BY TypeNext, InvNext
<1>3. TypeOK /\ PaceInv /\ HonestInv /\ [Next]_vars =>
        [\A u \in Uploaders :
           outcome[u] # "ok" /\ outcome'[u] = "ok" => stored[Family(kind[u])] = content[u]]_vars
  BY SuccessStep
<1> QED
  BY <1>1, <1>2, <1>3, PTL DEF Spec, SuccessMeansStored
-----------------------------------------------------------------------------
(* The retry of a GIF upload.  A pass without trouble is on track: the panel  *)
(* has got, in order and not doomed, all that comes before the chunk which is *)
(* being sent or worked on, or it has granted the one sent, and the ack of it *)
(* is in the air or heard.  An attempt goes off its track only by a fault of  *)
(* its own, so the second attempt fails only after two.                       *)
Ready(u) ==
  index[u] = 1 \/ transfer["gif"] = [of |-> content[u], got |-> index[u] - 1, doomed |-> FALSE]
Granted(u, status) ==
  \/ status = "saved"
  \/ /\ status = "next" /\ index[u] < Length[content[u]]
     /\ transfer["gif"] = [of |-> content[u], got |-> index[u], doomed |-> FALSE]
GrantedInAir(u) == \E i \in 1..Len(air) : air[i].family = "gif" /\ Granted(u, air[i].status)
GrantHeard(u) == acks[u] # <<>> /\ Granted(u, Head(acks[u]))
OnTrack(u) ==
  \/ Ready(u) /\ (pc[u] = "writing" \/ digesting["gif"] # NoChunk)
  \/ GrantedInAir(u)
  \/ GrantHeard(u)

SendsGif(u) == kind[u] = "gif" /\ pc[u] # "idle"
InRange(u) ==
  /\ index[u] <= Length[content[u]]
  /\ digesting["gif"] # NoChunk => digesting["gif"].n = index[u]
Excused(u) == faults >= attempt[u] \/ (OnTrack(u) /\ faults + 1 >= attempt[u])
FaultInv == \A u \in Uploaders : SendsGif(u) => InRange(u) /\ Excused(u)

LEMMA GifTypes ==
  ASSUME TypeOK
  PROVE  /\ "gif" \in Families /\ Family("gif") = "gif"
         /\ faults \in Nat /\ attempt \in [Uploaders -> 1..2]
         /\ \A u \in Uploaders : pc[u] # "idle" =>
              Length[content[u]] \in Nat \ {0} /\ index[u] \in Nat \ {0}
  BY ContentsAssumption, UsesAssumption DEF TypeOK, Families, Family

(* What leaves an upload where it is leaves it as excused as it was. *)
LEMMA StaysExcused ==
  ASSUME TypeOK, FaultInv, NEW u \in Uploaders, SendsGif(u),
         content'[u] = content[u], attempt'[u] = attempt[u], index'[u] = index[u],
         acks'[u] = acks[u], pc[u] = "writing" => pc'[u] = "writing",
         transfer'["gif"] = transfer["gif"], digesting'["gif"] = digesting["gif"],
         faults' \in Nat, faults' >= faults, GrantedInAir(u) => GrantedInAir(u)'
  PROVE  InRange(u)' /\ Excused(u)'
<1>1. InRange(u) /\ Excused(u)
  BY DEF FaultInv
<1>2. InRange(u)'
  BY <1>1 DEF InRange
<1>3. OnTrack(u) => OnTrack(u)'
  BY DEF OnTrack, Ready, GrantHeard, Granted
<1>4. faults \in Nat /\ attempt[u] \in 1..2
  BY GifTypes
<1> QED
  BY <1>1, <1>2, <1>3, <1>4 DEF Excused

LEMMA SameAir ==
  ASSUME NEW u \in Uploaders, UNCHANGED air, transfer'["gif"] = transfer["gif"],
         content'[u] = content[u], index'[u] = index[u], GrantedInAir(u)
  PROVE  GrantedInAir(u)'
  BY DEF GrantedInAir, Granted

(* A step of one uploader that leaves the panel alone leaves the others alone.*)
LEMMA OthersExcused ==
  ASSUME TypeOK, FaultInv, NEW u \in Uploaders, NEW v \in Uploaders \ {u}, SendsGif(v),
         UNCHANGED <<transfer, digesting, air, faults>>,
         content'[v] = content[v], attempt'[v] = attempt[v], index'[v] = index[v],
         pc'[v] = pc[v], acks'[v] = acks[v]
  PROVE  InRange(v)' /\ Excused(v)'
<1>1. GrantedInAir(v) => GrantedInAir(v)'
  BY SameAir
<1>2. faults' \in Nat /\ faults' >= faults
  BY GifTypes
<1> QED
  BY <1>1, <1>2, StaysExcused

LEMMA FaultInit == Init => FaultInv /\ OneFaultSurvived
  BY DEF Init, FaultInv, SendsGif, OneFaultSurvived

LEMMA UploadFaultInv ==
  ASSUME ~Overlap, TypeOK, PaceInv, FaultInv, NEW u \in Uploaders, Upload(u)
  PROVE  FaultInv'
<1>1. PICK k \in Kinds, c \in Contents :
        /\ \A v \in Uploaders : ~ListensTo(v, Family(k))
        /\ kind' = [kind EXCEPT ![u] = k]
        /\ content' = [content EXCEPT ![u] = c]
  BY DEF Upload
<1>2. /\ UNCHANGED <<transfer, digesting, air, faults>> /\ Send(u, 1)
      /\ attempt' = [attempt EXCEPT ![u] = 1]
  BY DEF Upload, panelVars
<1>3. /\ pc'[u] = "writing" /\ index'[u] = 1 /\ attempt'[u] = 1
      /\ kind'[u] = k /\ content'[u] = c
      /\ \A v \in Uploaders \ {u} :
           /\ pc'[v] = pc[v] /\ acks'[v] = acks[v] /\ kind'[v] = kind[v]
           /\ content'[v] = content[v] /\ attempt'[v] = attempt[v] /\ index'[v] = index[v]
  BY <1>1, <1>2, SendType DEF TypeOK, Send
<1>4. ASSUME NEW v \in Uploaders \ {u}, SendsGif(v)' PROVE InRange(v)' /\ Excused(v)'
  BY <1>2, <1>3, <1>4, OthersExcused DEF SendsGif
<1>5. ASSUME SendsGif(u)' PROVE InRange(u)' /\ Excused(u)'
  <2>1. k = "gif"
    BY <1>3, <1>5 DEF SendsGif
  <2>2. ~Owes("gif")
    BY <1>1, <2>1, GifTypes DEF PaceInv, OwedIsAwaited, Awaits
  <2>3. Length[c] \in Nat \ {0} /\ Length[c] >= 1
    BY ContentsAssumption
  <2>4. InRange(u)'
    BY <1>2, <1>3, <2>2, <2>3 DEF InRange, Owes
  <2>5. OnTrack(u)'
    BY <1>3 DEF OnTrack, Ready
  <2>6. faults' \in Nat /\ faults' + 1 >= attempt'[u]
    BY <1>2, <1>3, GifTypes
  <2> QED
    BY <2>4, <2>5, <2>6 DEF Excused
<1> QED
  BY <1>4, <1>5 DEF FaultInv

LEMMA WriteReturnsFaultInv ==
  ASSUME TypeOK, FaultInv, NEW u \in Uploaders, WriteReturns(u)
  PROVE  FaultInv'
<1>1. /\ UNCHANGED <<kind, content, attempt, index, acks, transfer, digesting, air, faults>>
      /\ pc[u] = "written" /\ pc'[u] # "idle"
      /\ \A v \in Uploaders \ {u} : pc'[v] = pc[v]
  BY DEF WriteReturns, TypeOK, panelVars
<1> SUFFICES ASSUME NEW v \in Uploaders, SendsGif(v)' PROVE InRange(v)' /\ Excused(v)'
  BY DEF FaultInv
<1>2. SendsGif(v)
  BY <1>1 DEF SendsGif
<1>3. GrantedInAir(v) => GrantedInAir(v)'
  BY <1>1, SameAir
<1>4. faults' \in Nat /\ faults' >= faults
  BY <1>1, GifTypes
<1>5. pc[v] = "writing" => pc'[v] = "writing"
  BY <1>1
<1> QED
  BY <1>1, <1>2, <1>3, <1>4, <1>5, StaysExcused

LEMMA WriteRaisesFaultInv ==
  ASSUME TypeOK, FaultInv, NEW u \in Uploaders, WriteRaises(u)
  PROVE  FaultInv'
<1>1. /\ UNCHANGED <<kind, content, attempt, index>> /\ faults' = faults + 1
      /\ \A f \in Families : digesting'[f] = NoChunk
      /\ Finish(u, "lost")
  BY DEF WriteRaises, Fault, Finish
<1>2. /\ pc'[u] = "idle"
      /\ \A v \in Uploaders \ {u} : pc'[v] = pc[v]
  BY <1>1, FinishType
<1> SUFFICES ASSUME NEW v \in Uploaders, SendsGif(v)' PROVE InRange(v)' /\ Excused(v)'
  BY DEF FaultInv
<1>3. v # u /\ SendsGif(v)
  BY <1>1, <1>2 DEF SendsGif
<1>4. InRange(v) /\ Excused(v)
  BY <1>3 DEF FaultInv
<1>5. InRange(v)'
  BY <1>1, <1>4, GifTypes DEF InRange
<1>6. faults' >= attempt'[v]
  <2>1. faults \in Nat /\ attempt[v] \in 1..2
    BY GifTypes
  <2> QED
    BY <1>1, <1>4, <2>1 DEF Excused
<1> QED
  BY <1>5, <1>6 DEF Excused

LEMMA ChunkArrivesFaultInv ==
  ASSUME TypeOK, PaceInv, FaultInv, NEW u \in Uploaders, ChunkArrives(u)
  PROVE  FaultInv'
<1> DEFINE f == Family(kind[u])
<1>1. /\ UNCHANGED <<kind, content, attempt, index, acks, air, faults>>
      /\ pc[u] = "writing" /\ pc'[u] = "written"
      /\ \A v \in Uploaders \ {u} : pc'[v] = pc[v]
  BY DEF ChunkArrives, TypeOK
<1>2. f \in Families /\ ListensTo(u, f)
  BY <1>1, FamilyType DEF ListensTo
<1>3. ~Owes(f)
  BY <1>1, <1>2, ListenerAwaits DEF Awaits
<1>4. /\ digesting'[f] = [of |-> content[u], n |-> index[u]] /\ UNCHANGED transfer
      /\ \A g \in Families \ {f} : digesting'[g] = digesting[g]
  BY <1>2, <1>3 DEF ChunkArrives, Owes, TypeOK
<1> SUFFICES ASSUME NEW v \in Uploaders, SendsGif(v)' PROVE InRange(v)' /\ Excused(v)'
  BY DEF FaultInv
<1>5. SendsGif(v)
  BY <1>1 DEF SendsGif
<1>6. CASE v = u
  <2>1. f = "gif"
    BY <1>5, <1>6, GifTypes DEF SendsGif
  <2>2. digesting'["gif"] = [of |-> content[u], n |-> index[u]]
    BY <1>4, <2>1
  <2>3. index[u] \in Nat \ {0}
    BY <1>1, GifTypes
  <2>4. digesting'["gif"] # NoChunk
    BY <2>2, <2>3 DEF NoChunk
  <2>5. digesting["gif"] = NoChunk /\ ~GrantedInAir(u)
    BY <1>3, <2>1 DEF Owes, GrantedInAir
  <2>6. acks[u] = <<>>
    BY <1>1 DEF PaceInv, WritesUnheard
  <2>7. OnTrack(u) => Ready(u)
    BY <2>5, <2>6 DEF OnTrack, GrantHeard
  <2>8. OnTrack(u) => OnTrack(u)'
    BY <1>1, <1>4, <2>4, <2>7 DEF OnTrack, Ready
  <2>9. InRange(u) /\ Excused(u)
    BY <1>5, <1>6 DEF FaultInv
  <2> QED
    BY <1>1, <1>6, <2>2, <2>8, <2>9 DEF InRange, Excused
<1>7. CASE v # u
  <2>1. f # "gif"
    BY <1>1, <1>5, <1>7, GifTypes DEF PaceInv, OneListener, SendsGif
  <2>2. digesting'["gif"] = digesting["gif"] /\ transfer'["gif"] = transfer["gif"]
    BY <1>4, <2>1, GifTypes
  <2>3. GrantedInAir(v) => GrantedInAir(v)'
    BY <1>1, <2>2, SameAir
  <2>4. faults' \in Nat /\ faults' >= faults
    BY <1>1, GifTypes
  <2> QED
    BY <1>1, <1>5, <1>7, <2>2, <2>3, <2>4, StaysExcused
<1> QED
  BY <1>6, <1>7

(* The panel's answer to a chunk that it is ready for grants it, unless the   *)
(* panel rejects it, which is a fault.                                        *)
LEMMA GrantedReply ==
  ASSUME TypeOK, NEW u \in Uploaders, pc[u] # "idle", Digested("gif"), Ready(u),
         index[u] <= Length[content[u]],
         digesting["gif"] = [of |-> content[u], n |-> index[u]]
  PROVE  \/ faults' = faults + 1
         \/ /\ faults' = faults
            /\ \E status : /\ air' = Append(air, [family |-> "gif", status |-> status])
                           /\ Granted(u, status)'
<1> DEFINE
    chunk == digesting["gif"]
    fits == chunk.n = 1 \/ (chunk.of = transfer["gif"].of /\ chunk.n = transfer["gif"].got + 1)
    doomed == chunk.n # 1 /\ transfer["gif"].doomed
    whole == fits /\ ~doomed /\ chunk.n = Length[chunk.of]
<1>1. chunk.of = content[u] /\ chunk.n = index[u] /\ index[u] \in Nat \ {0}
      /\ Length[content[u]] \in Nat
  BY GifTypes
<1>2. fits /\ ~doomed
  BY <1>1 DEF Ready
<1>3. UNCHANGED <<content, index>>
  BY DEF Digested, taskVars
<1>4. \/ /\ air' = Append(air, [family |-> "gif", status |-> "saved"])
         /\ faults' = faults
      \/ /\ ~whole
         /\ air' = Append(air, [family |-> "gif", status |-> IF fits \/ doomed THEN "next" ELSE "failed"])
         /\ transfer' = [transfer EXCEPT !["gif"] =
                           [of |-> chunk.of, got |-> chunk.n, doomed |-> doomed \/ ~fits]]
         /\ faults' = faults
      \/ faults' = faults + 1
  BY DEF Digested, Fault
<1>5. CASE /\ air' = Append(air, [family |-> "gif", status |-> "saved"])
           /\ faults' = faults
  BY <1>5 DEF Granted
<1>6. CASE /\ ~whole
           /\ air' = Append(air, [family |-> "gif",
                                  status |-> IF fits \/ doomed THEN "next" ELSE "failed"])
           /\ transfer' = [transfer EXCEPT !["gif"] =
                             [of |-> chunk.of, got |-> chunk.n, doomed |-> doomed \/ ~fits]]
           /\ faults' = faults
  <2>1. air' = Append(air, [family |-> "gif", status |-> "next"])
    BY <1>2, <1>6
  <2>2. (doomed \/ ~fits) = FALSE
    BY <1>2
  <2>3. transfer' = [transfer EXCEPT !["gif"] =
                       [of |-> content[u], got |-> index[u], doomed |-> FALSE]]
    BY <1>1, <1>6, <2>2
  <2>4. transfer'["gif"] = [of |-> content[u], got |-> index[u], doomed |-> FALSE]
    BY <2>3, GifTypes DEF TypeOK
  <2>5. index[u] < Length[content[u]]
    BY <1>1, <1>2, <1>6
  <2>6. Granted(u, "next")'
    BY <1>3, <2>4, <2>5 DEF Granted
  <2> QED
    BY <1>6, <2>1, <2>6
<1> QED
  BY <1>4, <1>5, <1>6

LEMMA DigestedFaultInv ==
  ASSUME TypeOK, PaceInv, HonestInv, FaultInv, NEW f \in Families, Digested(f)
  PROVE  FaultInv'
<1>1. /\ UNCHANGED <<pc, kind, content, attempt, index, acks>> /\ digesting[f] # NoChunk
      /\ digesting'[f] = NoChunk
      /\ \A g \in Families \ {f} : digesting'[g] = digesting[g] /\ transfer'[g] = transfer[g]
  BY DEF Digested, TypeOK, taskVars
<1>2. faults \in Nat /\ faults' \in {faults, faults + 1}
  BY GifTypes DEF Digested, Fault
<1>3. PICK ack \in Acks : air' = Append(air, ack) /\ ack.family = f
  BY DigestedReply
<1>4. /\ air \in Seq(Acks) /\ Len(air) \in Nat
      /\ Len(air') = Len(air) + 1
      /\ \A i \in 1..Len(air) : air'[i] = air[i]
      /\ air'[Len(air) + 1] = ack
  BY <1>3, AppendAt DEF TypeOK
<1> SUFFICES ASSUME NEW v \in Uploaders, SendsGif(v)' PROVE InRange(v)' /\ Excused(v)'
  BY DEF FaultInv
<1>5. SendsGif(v)
  BY <1>1 DEF SendsGif
<1>6. InRange(v) /\ Excused(v) /\ attempt[v] \in 1..2
  BY <1>5, GifTypes DEF FaultInv
<1>7. CASE f # "gif"
  <2>1. digesting'["gif"] = digesting["gif"] /\ transfer'["gif"] = transfer["gif"]
    BY <1>1, <1>7, GifTypes
  <2>2. GrantedInAir(v) => GrantedInAir(v)'
    <3> SUFFICES ASSUME NEW i \in 1..Len(air), air[i].family = "gif", Granted(v, air[i].status)
                 PROVE  GrantedInAir(v)'
      BY DEF GrantedInAir
    <3>1. i \in 1..Len(air') /\ air'[i] = air[i]
      BY <1>4
    <3>2. Granted(v, air[i].status)'
      BY <1>1, <1>3, <2>1, <3>1 DEF Granted
    <3> QED
      BY <3>1, <3>2 DEF GrantedInAir
  <2>3. faults' \in Nat /\ faults' >= faults
    BY <1>2
  <2> QED
    BY <1>1, <1>5, <2>1, <2>2, <2>3, StaysExcused
<1>8. CASE f = "gif"
  <2>1. InRange(v)'
    BY <1>1, <1>6, <1>8 DEF InRange
  <2>2. CASE faults >= attempt[v]
    BY <1>1, <1>2, <1>6, <2>1, <2>2 DEF Excused
  <2>3. CASE OnTrack(v) /\ faults + 1 >= attempt[v]
    <3>1. Owes("gif") /\ ListensTo(v, "gif")
      BY <1>1, <1>5, <1>8, GifTypes DEF Owes, ListensTo, SendsGif
    <3>2. acks[v] = <<>>
      BY <3>1, ListenerAwaits, GifTypes DEF Awaits
    <3>3. ~GrantedInAir(v)
      BY <1>1, <1>8, GifTypes DEF PaceInv, OneAckOwed, GrantedInAir
    <3>4. Ready(v)
      BY <2>3, <3>2, <3>3 DEF OnTrack, GrantHeard
    <3>5. digesting["gif"] \in Chunk
      BY <1>1, <1>8, GifTypes DEF TypeOK
    <3>6. digesting["gif"] = [of |-> content[v], n |-> index[v]]
      BY <1>1, <1>6, <1>8, <3>1, <3>5, GifTypes DEF HonestInv, DigestsItsOwn, InRange, Chunk
    <3>7. \/ faults' = faults + 1
          \/ /\ faults' = faults
             /\ \E status : /\ air' = Append(air, [family |-> "gif", status |-> status])
                            /\ Granted(v, status)'
      BY <1>5, <1>6, <1>8, <3>4, <3>6, GrantedReply DEF SendsGif, InRange
    <3>8. CASE faults' = faults + 1
      BY <1>1, <2>1, <2>3, <3>8 DEF Excused
    <3>9. ASSUME faults' = faults,
                 NEW status, air' = Append(air, [family |-> "gif", status |-> status]),
                 Granted(v, status)'
          PROVE  Excused(v)'
      <4>1. ack = [family |-> "gif", status |-> status]
        <5>1. air'[Len(air) + 1] = [family |-> "gif", status |-> status]
          BY <1>4, <3>9
        <5> QED
          BY <1>4, <5>1
      <4>2. Len(air) + 1 \in 1..Len(air')
        BY <1>4
      <4>3. GrantedInAir(v)'
        BY <1>4, <3>9, <4>1, <4>2 DEF GrantedInAir
      <4> QED
        BY <1>1, <2>3, <3>9, <4>3 DEF Excused, OnTrack
    <3> QED
      BY <2>1, <3>7, <3>8, <3>9
  <2> QED
    BY <1>6, <2>2, <2>3 DEF Excused
<1> QED
  BY <1>7, <1>8

LEMMA NotifiedFaultInv ==
  ASSUME "straggle" \notin Faults, TypeOK, PaceInv, FaultInv, Notified
  PROVE  FaultInv'
<1> DEFINE f == Head(air).family
<1>1. /\ UNCHANGED <<pc, kind, content, attempt, index, transfer, digesting>>
      /\ air' = Tail(air) /\ air # <<>>
  BY NotifiedMoves DEF Notified, panelVars
<1>2. /\ 1 \in 1..Len(air) /\ air[1] = Head(air)
      /\ \A i \in 1..Len(air') : i + 1 \in 1..Len(air) /\ air'[i] = air[i + 1]
  BY <1>1, TailAt DEF TypeOK
<1>3. f \in Families /\ Head(air).status \in Statuses
  BY NotifiedMoves DEF Acks
<1>4. PICK s \in Statuses : s = Head(air).status
  BY <1>3
<1>5. faults \in Nat /\ faults' \in Nat /\ faults' >= faults
  BY GifTypes DEF Notified, Fault
<1>6. \E new \in Seq(Statuses) :
        /\ Heard(f, new)
        /\ (new # <<>> /\ Head(new) = s) \/ faults' = faults + 1
  <2>1. <<>> \in Seq(Statuses) /\ <<s>> \in Seq(Statuses) /\ <<s, s>> \in Seq(Statuses)
    BY <1>4
  <2>2. <<s>> # <<>> /\ Head(<<s>>) = s /\ <<s, s>> # <<>> /\ Head(<<s, s>>) = s
    OBVIOUS
  <2>3. \/ Heard(f, <<s>>)
        \/ Heard(f, <<>>) /\ faults' = faults + 1
        \/ Heard(f, <<s, s>>)
    BY <1>4 DEF Notified, Fault
  <2> QED
    BY <2>1, <2>2, <2>3
<1>7. PICK new \in Seq(Statuses) :
        /\ Heard(f, new)
        /\ (new # <<>> /\ Head(new) = s) \/ faults' = faults + 1
  BY <1>6
<1>8. \A u \in Uploaders : acks'[u] = IF ListensTo(u, f) THEN acks[u] \o new ELSE acks[u]
  BY <1>7, HeardType
<1> SUFFICES ASSUME NEW v \in Uploaders, SendsGif(v)' PROVE InRange(v)' /\ Excused(v)'
  BY DEF FaultInv
<1>9. SendsGif(v)
  BY <1>1 DEF SendsGif
<1>10. InRange(v) /\ Excused(v) /\ attempt[v] \in 1..2
  BY <1>9, GifTypes DEF FaultInv
<1>11. CASE f # "gif"
  <2>1. acks'[v] = acks[v]
    BY <1>8, <1>9, <1>11, GifTypes DEF ListensTo, SendsGif
  <2>2. GrantedInAir(v) => GrantedInAir(v)'
    <3> SUFFICES ASSUME NEW i \in 1..Len(air), air[i].family = "gif", Granted(v, air[i].status)
                 PROVE  GrantedInAir(v)'
      BY DEF GrantedInAir
    <3>1. i # 1
      BY <1>2, <1>11
    <3>2. Len(air) \in Nat /\ Len(air') = Len(air) - 1
      BY <1>1, TailAt DEF TypeOK
    <3>3. PICK j \in 1..Len(air') : i = j + 1
      BY <3>1, <3>2
    <3>4. air'[j] = air[i]
      BY <1>2, <3>3
    <3>5. Granted(v, air[i].status) => Granted(v, air[j].status)'
      BY <1>1, <3>4 DEF Granted
    <3> QED
      BY <3>4, <3>5 DEF GrantedInAir
  <2> QED
    BY <1>1, <1>5, <1>9, <2>1, <2>2, StaysExcused
<1>12. CASE f = "gif"
  <2>1. InRange(v)'
    BY <1>1, <1>10 DEF InRange
  <2>2. CASE faults >= attempt[v]
    BY <1>1, <1>5, <1>10, <2>1, <2>2 DEF Excused
  <2>3. CASE OnTrack(v) /\ faults + 1 >= attempt[v]
    <3>1. Owes("gif") /\ ListensTo(v, "gif")
      BY <1>2, <1>9, <1>12, GifTypes DEF Owes, ListensTo, SendsGif
    <3>2. acks[v] = <<>> /\ pc[v] # "writing" /\ digesting["gif"] = NoChunk
      <4>1. acks[v] = <<>> /\ pc[v] # "writing"
        BY <3>1, ListenerAwaits, GifTypes DEF Awaits
      <4>2. digesting["gif"] = NoChunk
        BY <1>2, <1>12, GifTypes DEF PaceInv, OneAckOwed
      <4> QED
        BY <4>1, <4>2
    <3>3. GrantedInAir(v)
      BY <2>3, <3>2 DEF OnTrack, GrantHeard
    <3>4. PICK i \in 1..Len(air) : air[i].family = "gif" /\ Granted(v, air[i].status)
      BY <3>3 DEF GrantedInAir
    <3>5. air[i] = Head(air)
      BY <1>2, <1>12, <3>4 DEF PaceInv, OneAckOwed
    <3>6. Granted(v, s)'
      <4>1. Granted(v, s)
        BY <1>4, <3>4, <3>5
      <4>2. \A status : Granted(v, status) => Granted(v, status)'
        BY <1>1 DEF Granted
      <4> QED
        BY <4>1, <4>2
    <3>7. acks'[v] = new
      <4>1. acks'[v] = acks[v] \o new
        BY <1>8, <1>12, <3>1
      <4>2. <<>> \o new = new
        OBVIOUS
      <4> QED
        BY <3>2, <4>1, <4>2
    <3>8. CASE new # <<>> /\ Head(new) = s
      BY <1>1, <1>5, <1>10, <2>1, <2>3, <3>6, <3>7, <3>8 DEF Excused, OnTrack, GrantHeard
    <3>9. CASE faults' = faults + 1
      BY <1>1, <1>5, <1>10, <2>1, <2>3, <3>9 DEF Excused
    <3> QED
      BY <1>7, <3>8, <3>9
  <2> QED
    BY <1>10, <2>2, <2>3 DEF Excused
<1> QED
  BY <1>11, <1>12

(* A pass fails only off its track, and the second one only after two faults. *)
LEMMA PassFailedFaultInv ==
  ASSUME TypeOK, FaultInv, NEW u \in Uploaders, pc[u] # "idle", PassFailed(u),
         ~Owes(Family(kind[u])), kind[u] = "gif" => ~OnTrack(u),
         UNCHANGED <<kind, content, panelVars, air, faults>>
  PROVE  /\ SendsGif(u)' => InRange(u)' /\ Excused(u)'
         /\ kind[u] = "gif" /\ outcome'[u] = "failed" /\ outcome[u] # "failed" => faults > 1
<1>1. UNCHANGED <<kind, content, transfer, digesting, faults>>
  BY DEF panelVars
<1>2. CASE kind[u] # "gif"
  BY <1>1, <1>2 DEF SendsGif
<1>3. CASE kind[u] = "gif" /\ attempt[u] = 1
  <2>1. Send(u, 1) /\ attempt' = [attempt EXCEPT ![u] = 2] /\ UNCHANGED outcome
    BY <1>3 DEF PassFailed, Retries
  <2>2. pc'[u] = "writing" /\ index'[u] = 1 /\ attempt'[u] = 2
    BY <2>1 DEF Send, TypeOK
  <2>3. faults >= 1 /\ faults \in Nat
    BY <1>3, GifTypes DEF FaultInv, SendsGif, Excused
  <2>4. digesting'["gif"] = NoChunk
    BY <1>1, <1>3, GifTypes DEF Owes
  <2>5. Length[content'[u]] >= 1
    BY <1>1, GifTypes
  <2>6. InRange(u)' /\ OnTrack(u)'
    BY <2>2, <2>4, <2>5 DEF InRange, OnTrack, Ready
  <2>7. faults' + 1 >= attempt'[u]
    BY <1>1, <2>2, <2>3
  <2> QED
    BY <2>1, <2>6, <2>7 DEF Excused
<1>4. CASE kind[u] = "gif" /\ attempt[u] # 1
  <2>1. Finish(u, "failed")
    BY <1>4 DEF PassFailed, Retries
  <2>2. pc'[u] = "idle"
    BY <2>1, FinishType
  <2>3. faults >= attempt[u] /\ faults \in Nat /\ attempt[u] \in 1..2
    BY <1>4, GifTypes DEF FaultInv, SendsGif, Excused
  <2> QED
    BY <1>4, <2>2, <2>3 DEF SendsGif
<1> QED
  BY <1>2, <1>3, <1>4

LEMMA InterpretFaultInv ==
  ASSUME TypeOK, FaultInv, NEW u \in Uploaders, kind[u] = "gif", pc[u] = "waiting",
         ~Owes("gif"), acks[u] # <<>>,
         Interpret(u, Head(acks[u])), UNCHANGED <<kind, content, panelVars, air, faults>>
  PROVE  /\ SendsGif(u)' => InRange(u)' /\ Excused(u)'
         /\ outcome'[u] = "failed" /\ outcome[u] # "failed" => faults > 1
<1>1. UNCHANGED <<kind, content, transfer, digesting, faults>>
  BY DEF panelVars
<1>2. /\ Family(kind[u]) = "gif"
      /\ digesting["gif"] = NoChunk /\ Limit(u) = Length[content[u]]
      /\ InRange(u) /\ Excused(u) /\ faults \in Nat /\ attempt[u] \in 1..2
      /\ index[u] \in Nat /\ Length[content[u]] \in Nat
      /\ OnTrack(u) => GrantHeard(u)
  BY GifTypes DEF SendsGif, Owes, Limit, FaultInv, OnTrack, GrantedInAir
<1>3. CASE Finish(u, "ok")
  <2>1. pc'[u] = "idle" /\ outcome'[u] = "ok"
    BY <1>3, FinishType
  <2> QED
    BY <2>1 DEF SendsGif
<1>4. CASE /\ Head(acks[u]) = "next" /\ index[u] < Limit(u)
           /\ Send(u, index[u] + 1)
           /\ UNCHANGED <<attempt, outcome>>
  <2>1. pc'[u] = "writing" /\ index'[u] = index[u] + 1
    BY <1>4 DEF Send, TypeOK
  <2>2. InRange(u)'
    BY <1>1, <1>2, <1>4, <2>1 DEF InRange
  <2>3. GrantHeard(u) => Ready(u)'
    <3> SUFFICES ASSUME GrantHeard(u) PROVE Ready(u)'
      OBVIOUS
    <3>1. transfer["gif"] = [of |-> content[u], got |-> index[u], doomed |-> FALSE]
      BY <1>4 DEF GrantHeard, Granted
    <3>2. index'[u] - 1 = index[u]
      BY <1>2, <2>1
    <3> QED
      BY <1>1, <3>1, <3>2 DEF Ready
  <2> QED
    BY <1>1, <1>2, <1>4, <2>1, <2>2, <2>3 DEF Excused, OnTrack
<1>5. CASE /\ \/ Head(acks[u]) \in {"failed", "odd"}
              \/ Head(acks[u]) = "next" /\ index[u] = Limit(u)
           /\ PassFailed(u)
  <2>1. ~GrantHeard(u)
    BY <1>2, <1>5 DEF GrantHeard, Granted
  <2> QED
    BY <1>2, <1>5, <2>1, PassFailedFaultInv
<1> QED
  BY <1>3, <1>4, <1>5 DEF Interpret

LEMMA GotAckFaultInv ==
  ASSUME TypeOK, PaceInv, FaultInv, NEW u \in Uploaders, GotAck(u) \/ TimesOut(u)
  PROVE  /\ FaultInv'
         /\ kind[u] = "gif" /\ outcome'[u] = "failed" /\ outcome[u] # "failed" => faults > 1
<1>1. /\ pc[u] = "waiting" /\ UNCHANGED <<kind, content, panelVars, air, faults>>
      /\ UNCHANGED <<transfer, digesting>>
  BY DEF GotAck, TimesOut, panelVars
<1>2. ~Owes(Family(kind[u]))
  <2>1. CASE GotAck(u)
    BY <1>1, <2>1, ListenerAwaits, FamilyType DEF GotAck, Awaits, ListensTo
  <2>2. CASE TimesOut(u)
    BY <2>2 DEF TimesOut, Owes
  <2> QED
    BY <2>1, <2>2
<1>3. /\ SendsGif(u)' => InRange(u)' /\ Excused(u)'
      /\ kind[u] = "gif" /\ outcome'[u] = "failed" /\ outcome[u] # "failed" => faults > 1
  <2>1. CASE kind[u] # "gif"
    BY <1>1, <2>1 DEF SendsGif
  <2>2. CASE kind[u] = "gif" /\ GotAck(u)
    BY <1>1, <1>2, <2>2, InterpretFaultInv, GifTypes DEF GotAck
  <2>3. CASE kind[u] = "gif" /\ TimesOut(u)
    <3>1. ~OnTrack(u)
      BY <1>1, <1>2, <2>3, GifTypes DEF TimesOut, OnTrack, GrantHeard, GrantedInAir, Owes
    <3> QED
      BY <1>1, <1>2, <2>3, <3>1, PassFailedFaultInv DEF TimesOut
  <2> QED
    BY <2>1, <2>2, <2>3
<1>4. ASSUME NEW v \in Uploaders \ {u}
      PROVE  /\ pc'[v] = pc[v] /\ acks'[v] = acks[v]
             /\ attempt'[v] = attempt[v] /\ index'[v] = index[v]
  <2>1. \/ \E n \in Nat \ {0} : Send(u, n) /\ UNCHANGED attempt
        \/ Send(u, 1) /\ attempt' = [attempt EXCEPT ![u] = 2]
        \/ \E how : Finish(u, how)
    BY GifTypes DEF GotAck, TimesOut, Interpret, PassFailed
  <2> QED
    BY <2>1 DEF Send, Finish, TypeOK
<1>5. ASSUME NEW v \in Uploaders \ {u}, SendsGif(v)' PROVE InRange(v)' /\ Excused(v)'
  BY <1>1, <1>4, <1>5, OthersExcused DEF SendsGif
<1> QED
  BY <1>3, <1>5 DEF FaultInv

LEMMA FaultNext ==
  ASSUME ~Overlap, "straggle" \notin Faults
  PROVE  TypeOK /\ PaceInv /\ HonestInv /\ FaultInv /\ [Next]_vars => FaultInv'
<1> SUFFICES ASSUME TypeOK, PaceInv, HonestInv, FaultInv, [Next]_vars PROVE FaultInv'
  OBVIOUS
<1>1. CASE UNCHANGED vars
  BY <1>1 DEF vars, taskVars, panelVars, FaultInv, SendsGif, InRange, Excused, OnTrack, Ready,
              Granted, GrantedInAir, GrantHeard
<1>2. ASSUME NEW u \in Uploaders, UploaderStep(u)
      PROVE  FaultInv'
  BY <1>2, WriteReturnsFaultInv, WriteRaisesFaultInv, ChunkArrivesFaultInv, GotAckFaultInv
     DEF UploaderStep
<1> QED
  BY <1>1, <1>2, UploadFaultInv, DigestedFaultInv, NotifiedFaultInv DEF Next, Finished

(* Only an ack or a timeout fails an upload, and no step takes a fault back.  *)
LEMMA FailedNext ==
  TypeOK /\ PaceInv /\ FaultInv /\ OneFaultSurvived /\ [Next]_vars => OneFaultSurvived'
<1> SUFFICES ASSUME TypeOK, PaceInv, FaultInv, OneFaultSurvived, [Next]_vars,
                    NEW v \in Uploaders, kind'[v] = "gif", outcome'[v] = "failed"
             PROVE  faults' > 1
  BY DEF OneFaultSurvived
<1>1. faults \in Nat /\ faults' \in Nat /\ faults' >= faults
  <2>1. faults' = faults \/ \E what : Fault(what)
    BY DEF Next, Upload, UploaderStep, WriteReturns, WriteRaises, GotAck, TimesOut, ChunkArrives,
           Digested, Notified, Finished, vars
  <2> QED
    BY <2>1, GifTypes DEF Fault
<1>2. CASE kind[v] = "gif" /\ outcome[v] = "failed"
  BY <1>1, <1>2 DEF OneFaultSurvived
<1>3. CASE UNCHANGED <<kind, outcome>>
  BY <1>2, <1>3
<1>4. ASSUME NEW u \in Uploaders, Upload(u)
      PROVE  kind[v] = "gif" /\ outcome[v] = "failed"
  BY <1>4 DEF Upload, TypeOK
<1>5. ASSUME NEW u \in Uploaders, WriteRaises(u)
      PROVE  kind[v] = "gif" /\ outcome[v] = "failed"
  <2>1. kind' = kind /\ Finish(u, "lost")
    BY <1>5 DEF WriteRaises
  <2> QED
    BY <2>1, FinishType
<1>6. ASSUME NEW u \in Uploaders, GotAck(u) \/ TimesOut(u), ~(kind[v] = "gif" /\ outcome[v] = "failed")
      PROVE  faults > 1
  <2>1. UNCHANGED kind
    BY <1>6 DEF GotAck, TimesOut
  <2>2. outcome' # outcome
    BY <1>6, <2>1
  <2>3. \E how \in {"ok", "failed"} : Finish(u, how)
    BY <1>6, <2>2 DEF GotAck, TimesOut, Interpret, PassFailed
  <2>4. u = v
    BY <1>6, <2>1, <2>3 DEF Finish, TypeOK
  <2> QED
    BY <1>6, <2>1, <2>4, GotAckFaultInv
<1>7. CASE \E u \in Uploaders : GotAck(u) \/ TimesOut(u)
  BY <1>1, <1>2, <1>6, <1>7
<1>8. \/ UNCHANGED <<kind, outcome>>
      \/ \E u \in Uploaders : Upload(u) \/ WriteRaises(u) \/ GotAck(u) \/ TimesOut(u)
  BY DEF Next, UploaderStep, WriteReturns, ChunkArrives, Digested, Notified, Finished, vars,
         taskVars
<1> QED
  BY <1>2, <1>3, <1>4, <1>5, <1>7, <1>8

(* One thing that goes wrong does not fail a GIF upload, whatever it is and   *)
(* whenever it happens: a lost, odd or repeated ack, a rejected chunk, or the *)
(* connection lost under another upload.                                      *)
THEOREM OneFaultIsSurvived ==
  ASSUME ~Overlap, "straggle" \notin Faults
  PROVE  Spec => []OneFaultSurvived
<1>1. Init => TypeOK /\ PaceInv /\ HonestInv /\ FaultInv /\ OneFaultSurvived
  BY TypeInit, InitInv, FaultInit
<1>2. /\ TypeOK /\ PaceInv /\ HonestInv /\ FaultInv /\ OneFaultSurvived /\ [Next]_vars
      => TypeOK' /\ PaceInv' /\ HonestInv' /\ FaultInv' /\ OneFaultSurvived'
  BY TypeNext, InvNext, FaultNext, FailedNext
<1> QED
  BY <1>1, <1>2, PTL DEF Spec
=============================================================================
