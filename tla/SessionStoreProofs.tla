------------------------- MODULE SessionStoreProofs --------------------------
(***************************************************************************)
(* Proofs about SessionStore for every set of sessions and messages and    *)
(* every rule of slicing: the tables hold the branch last put under each   *)
(* session, put may stop at the first stored message, and a load returns   *)
(* the branch last put, whatever other sessions put in the meantime.       *)
(*                                                                         *)
(* StoredRepresented is not inductive: it says nothing of the clients.     *)
(* IInv adds what connects them to the tables: no message is in two        *)
(* sessions or twice in a branch, a walk has read an end of the branch     *)
(* last put and its snapshot still represents all of it, and the stored    *)
(* messages of a branch in use are its oldest ones, linked.                *)
(***************************************************************************)
EXTENDS SessionStore, SequenceTheorems, TLAPS

(* The elements of a sequence and of what is appended.                     *)
LEMMA RangeAppend ==
    ASSUME NEW S, NEW s \in Seq(S), NEW v \in S
    PROVE  Range(Append(s, v)) = Range(s) \cup {v}
<1>1. <<v>> \in Seq(S) /\ Range(<<v>>) = {v}
  BY DEF Range
<1>2. Range(s \o <<v>>) = Range(s) \cup Range(<<v>>)
  BY <1>1, RangeConcatenation
<1>3. Append(s, v) = s \o <<v>>
  BY AppendIsConcat
<1> QED
  BY <1>1, <1>2, <1>3, Zenon

Distinct(b) == \A i, j \in DOMAIN b : b[i] = b[j] => i = j

(* The messages of a session.                                              *)
Owned(s) == Range(branch[s]) \cup Range(stored[s])

(* What is stored or in a branch was created: a new message is in neither. *)
CreatedInv ==
    /\ DOMAIN messages \subseteq created
    /\ \A s \in Sessions : Owned(s) \subseteq created

DistinctInv == \A s \in Sessions : Distinct(branch[s]) /\ Distinct(stored[s])

DisjointInv ==
    \A s, t \in Sessions : s # t => Owned(s) \cap Owned(t) = {}

(* A walk through b that has read what follows b[j] and reads b[j] next.   *)
WalkAt(s, b, j) ==
    /\ branch[s] = SubSeq(b, j + 1, Len(b))
    /\ next[s] = b[j]
    /\ head[s] = IF j = Len(b) THEN NullId ELSE b[1]

(* The snapshot of a walk has the branch last put, and the walk is in it.  *)
WalkSound(s) ==
    /\ Represents(snapshot[s], stored[s])
    /\ \/ stored[s] = <<>> /\ branch[s] = <<>> /\ next[s] = NullId
       \/ \E j \in DOMAIN stored[s] : WalkAt(s, stored[s], j)

WalkInv == \A s \in Sessions : pc[s] = "walking" => WalkSound(s)

(* The stored messages of b are its oldest, each linked to the one before. *)
Rooted(table, b) ==
    \A i, j \in DOMAIN b :
        i < j /\ b[j] \in DOMAIN table =>
            /\ b[i] \in DOMAIN table
            /\ i + 1 = j => table[b[j]].parent = b[i]

HoldInv == \A s \in Sessions : pc[s] = "holding" => Rooted(messages, branch[s])

NoFailure == \A s \in Sessions : pc[s] # "failed"

IInv ==
    /\ CreatedInv
    /\ DistinctInv
    /\ DisjointInv
    /\ WalkInv
    /\ HoldInv
    /\ NoFailure
    /\ StoredRepresented

Inv == TypeOK /\ IInv

-----------------------------------------------------------------------------
(* Facts about branches.                                                   *)

(* A new message at the end of a branch without repetitions.               *)
LEMMA BranchAppend ==
    ASSUME NEW b \in Seq(Messages), NEW m \in Messages,
           Distinct(b), m \notin Range(b)
    PROVE  /\ Append(b, m) \in Seq(Messages)
           /\ Range(Append(b, m)) = Range(b) \cup {m}
           /\ Distinct(Append(b, m))
<1>1. /\ Append(b, m) \in Seq(Messages)
      /\ DOMAIN Append(b, m) = DOMAIN b \cup {Len(b) + 1}
      /\ \A i \in DOMAIN b : Append(b, m)[i] = b[i]
      /\ Append(b, m)[Len(b) + 1] = m
  BY AppendProperties, LenProperties
<1>2. Range(Append(b, m)) = Range(b) \cup {m}
  BY RangeAppend DEF Range
<1>3. Distinct(Append(b, m))
  BY <1>1 DEF Distinct, Range
<1> QED
  BY <1>1, <1>2, <1>3

(* What is left of a branch without its n oldest messages.                 *)
LEMMA BranchSuffix ==
    ASSUME NEW b \in Seq(Messages), NEW n \in Nat, n <= Len(b), Distinct(b)
    PROVE  LET c == SubSeq(b, n + 1, Len(b)) IN
           /\ c \in Seq(Messages)
           /\ Range(c) \subseteq Range(b)
           /\ Distinct(c)
           /\ \A table : Rooted(table, b) => Rooted(table, c)
<1> DEFINE c == SubSeq(b, n + 1, Len(b))
<1>1. /\ c \in Seq(Messages)
      /\ DOMAIN c = 1 .. (Len(b) - n)
      /\ Len(b) \in Nat
      /\ \A i \in 1 .. (Len(b) - n) : n + i \in DOMAIN b /\ c[i] = b[n + i]
  BY SubSeqProperties, LenProperties
<1> HIDE DEF c
<1>2. Range(c) \subseteq Range(b)
  BY <1>1 DEF Range
<1>3. Distinct(c)
  <2> SUFFICES ASSUME NEW i \in DOMAIN c, NEW j \in DOMAIN c, c[i] = c[j]
               PROVE  i = j
    BY DEF Distinct
  <2>1. n + i = n + j
    BY <1>1 DEF Distinct
  <2> QED
    BY <1>1, <2>1
<1>4. ASSUME NEW table, Rooted(table, b)
      PROVE  Rooted(table, c)
  <2> SUFFICES ASSUME NEW i \in DOMAIN c, NEW j \in DOMAIN c,
                      i < j, c[j] \in DOMAIN table
               PROVE  /\ c[i] \in DOMAIN table
                      /\ i + 1 = j => table[c[j]].parent = c[i]
    BY DEF Rooted
  <2>1. /\ n + i \in DOMAIN b /\ n + j \in DOMAIN b
        /\ n + i < n + j
        /\ i + 1 = j => (n + i) + 1 = n + j
        /\ c[i] = b[n + i] /\ c[j] = b[n + j]
    BY <1>1
  <2> QED
    BY <1>4, <2>1 DEF Rooted
<1> QED
  BY <1>1, <1>2, <1>3, <1>4 DEF c

(* A table that represents a branch has all of its messages, linked.       *)
LEMMA RepresentsRooted ==
    ASSUME NEW table, NEW b \in Seq(Messages), Represents(table, b)
    PROVE  Rooted(table, b)
<1> SUFFICES ASSUME NEW i \in DOMAIN b, NEW j \in DOMAIN b, i < j
             PROVE  /\ b[i] \in DOMAIN table
                    /\ i + 1 = j => table[b[j]].parent = b[i]
  BY DEF Rooted
<1>1. i \in Nat /\ j \in Nat /\ i >= 1 /\ j > 1 /\ (i + 1 = j => i = j - 1)
  OBVIOUS
<1> QED
  BY <1>1 DEF Represents

-----------------------------------------------------------------------------
(* One lemma per action: it preserves the inductive invariant.             *)

(* The invariant holds of empty tables.                                    *)
LEMMA InitInv == Init => Inv
<1> SUFFICES ASSUME Init PROVE Inv
  OBVIOUS
<1>1. TypeOK
  BY DEF Init, TypeOK, IsTable, EmptyTable, MaybeId
<1>2. \A s \in Sessions : Owned(s) = {}
  BY DEF Init, Owned, Range
<1>3. CreatedInv /\ DisjointInv
  BY <1>2 DEF Init, CreatedInv, DisjointInv, EmptyTable
<1>4. DistinctInv /\ WalkInv /\ HoldInv /\ NoFailure
  BY DEF Init, DistinctInv, Distinct, WalkInv, HoldInv, NoFailure
<1>5. StoredRepresented
  BY DEF Init, StoredRepresented, Represents, IdOf
<1> QED
  BY <1>1, <1>3, <1>4, <1>5 DEF Inv, IInv

(* A step after which no session has messages that it did not have before. *)
LEMMA OwnedKept ==
    ASSUME CreatedInv, DisjointInv,
           DOMAIN messages' \subseteq created, created' = created,
           \A s \in Sessions : Owned(s)' \subseteq Owned(s)
    PROVE  (CreatedInv /\ DisjointInv)'
BY DEF CreatedInv, DisjointInv

(* A walk does not see the steps of others.                                *)
LEMMA WalkKept ==
    ASSUME NEW s \in Sessions, WalkSound(s),
           branch'[s] = branch[s], snapshot'[s] = snapshot[s],
           next'[s] = next[s], head'[s] = head[s], stored'[s] = stored[s]
    PROVE  WalkSound(s)'
BY DEF WalkSound, WalkAt

(* The walk begins with the tables as they are.                            *)
LEMMA LoadInv ==
    ASSUME Inv, NEW s \in Sessions, Load(s)
    PROVE  Inv'
<1>1. /\ pc' = [pc EXCEPT ![s] = "walking"]
      /\ branch' = [branch EXCEPT ![s] = <<>>]
      /\ snapshot' = [snapshot EXCEPT ![s] = messages]
      /\ next' = [next EXCEPT ![s] = sessionMap[s]]
      /\ head' = [head EXCEPT ![s] = NullId]
      /\ UNCHANGED <<messages, sessionMap, created, before, stored>>
  BY DEF Load, StartWalk
<1>2. TypeOK'
  BY <1>1 DEF Inv, TypeOK, MaybeId
<1>3. \A t \in Sessions : Owned(t)' \subseteq Owned(t)
  BY <1>1 DEF Inv, TypeOK, Owned, Range
<1>4. (CreatedInv /\ DisjointInv)'
  BY <1>1, <1>3, OwnedKept DEF Inv, IInv, CreatedInv
<1>5. (DistinctInv /\ HoldInv /\ NoFailure /\ StoredRepresented)'
  BY <1>1
     DEF Inv, TypeOK, IInv, DistinctInv, Distinct, HoldInv, NoFailure,
         StoredRepresented
<1>6. WalkInv'
  <2> SUFFICES ASSUME NEW t \in Sessions, pc'[t] = "walking"
               PROVE  WalkSound(t)'
    BY DEF WalkInv
  <2>1. CASE t # s
    BY <1>1, <2>1, WalkKept DEF Inv, TypeOK, IInv, WalkInv
  <2>2. CASE t = s
    <3> DEFINE b == stored[s]
    <3>1. /\ b \in Seq(Messages) /\ Represents(messages, b)
          /\ stored'[s] = b /\ branch'[s] = <<>> /\ snapshot'[s] = messages
          /\ next'[s] = IdOf(b) /\ head'[s] = NullId
      BY <1>1 DEF Inv, TypeOK, IInv, StoredRepresented
    <3> HIDE DEF b
    <3>2. CASE b = <<>>
      BY <2>2, <3>1, <3>2 DEF IdOf, WalkSound
    <3>3. CASE b # <<>>
      <4>1. /\ Len(b) \in DOMAIN b
            /\ SubSeq(b, Len(b) + 1, Len(b)) = <<>>
        BY <3>1, <3>3
      <4>2. WalkAt(s, b, Len(b))'
        BY <3>1, <3>3, <4>1 DEF WalkAt, IdOf, b
      <4> QED
        BY <2>2, <3>1, <4>1, <4>2 DEF b, WalkSound
    <3> QED
      BY <3>2, <3>3
  <2> QED
    BY <2>1, <2>2
<1> QED
  BY <1>2, <1>4, <1>5, <1>6 DEF Inv, IInv

(* No message where the walk looks for one: the session has no branch.     *)
LEMMA WalkMissingInv ==
    ASSUME Inv, NEW s \in Sessions, WalkMissing(s)
    PROVE  Inv' /\ branch'[s] = stored[s]
<1>1. /\ pc[s] = "walking"
      /\ next[s] \notin DOMAIN snapshot[s]
      /\ UNCHANGED <<messages, sessionMap, branch, snapshot, next, head,
                     created, before, stored>>
  BY DEF WalkMissing
<1>2. stored[s] = <<>> /\ branch[s] = <<>>
  BY <1>1 DEF Inv, IInv, WalkInv, WalkSound, WalkAt, Represents
<1>3. pc' = [pc EXCEPT ![s] = "holding"]
  BY <1>2 DEF WalkMissing
<1>4. TypeOK'
  BY <1>1, <1>3 DEF Inv, TypeOK
<1>5. \A t \in Sessions : Owned(t)' = Owned(t)
  BY <1>1 DEF Owned
<1>6. (CreatedInv /\ DisjointInv)'
  BY <1>1, <1>5, OwnedKept DEF Inv, IInv, CreatedInv
<1>7. (DistinctInv /\ NoFailure /\ StoredRepresented)'
  BY <1>1, <1>3
     DEF Inv, TypeOK, IInv, DistinctInv, NoFailure, StoredRepresented
<1>8. WalkInv'
  BY <1>1, <1>3, WalkKept DEF Inv, TypeOK, IInv, WalkInv
<1>9. HoldInv'
  BY <1>1, <1>2, <1>3 DEF Inv, TypeOK, IInv, HoldInv, Rooted
<1> QED
  BY <1>1, <1>2, <1>4, <1>6, <1>7, <1>8, <1>9 DEF Inv, IInv

(* What a walk finds at b[j]: the session head first, if b[j] is the       *)
(* newest; the end of the walk exactly if b[j] is the oldest.              *)
LEMMA WalkFacts ==
    ASSUME Inv, NEW s \in Sessions, pc[s] = "walking",
           NEW j \in DOMAIN stored[s], WalkAt(s, stored[s], j)
    PROVE  LET b == stored[s] IN
           /\ FirstHead(s) = b[1]
           /\ AtEnd(s) <=> j = 1
           /\ j # 1 => snapshot[s][next[s]].parent = b[j - 1]
<1> DEFINE b == stored[s]
<1>1. /\ b \in Seq(Messages) /\ Len(b) \in Nat /\ j \in 1 .. Len(b)
      /\ Distinct(b) /\ Represents(snapshot[s], b)
      /\ next[s] = b[j]
      /\ head[s] = IF j = Len(b) THEN NullId ELSE b[1]
  BY DEF Inv, TypeOK, IInv, DistinctInv, WalkInv, WalkSound, WalkAt
<1> HIDE DEF b
<1>2. 1 \in DOMAIN b /\ j \in DOMAIN b /\ b # <<>>
  BY <1>1
<1>3. b[1] \in Messages /\ b[1] # NullId
  BY <1>1, <1>2, NullIdAssumption
<1>4. FirstHead(s) = b[1]
  <2>1. CASE j = Len(b)
    BY <1>1, <1>2, <2>1 DEF FirstHead, Represents, IdOf
  <2>2. CASE j # Len(b)
    BY <1>1, <1>3, <2>2 DEF FirstHead
  <2> QED
    BY <2>1, <2>2
<1>5. j # 1 => /\ snapshot[s][next[s]].parent = b[j - 1]
               /\ b[j - 1] \in Messages
  BY <1>1, <1>2 DEF Represents
<1>6. AtEnd(s) <=> j = 1
  BY <1>1, <1>2, <1>4, <1>5, NullIdAssumption DEF AtEnd, Distinct
<1> QED
  BY <1>4, <1>5, <1>6 DEF b

(* A walk reads the branch last put message by message, and is over when   *)
(* it has read all of it.                                                  *)
LEMMA WalkMessageInv ==
    ASSUME Inv, NEW s \in Sessions, WalkMessage(s)
    PROVE  Inv' /\ (pc'[s] = "holding" => branch'[s] = stored[s])
<1> DEFINE b == stored[s]
<1>1. /\ pc[s] = "walking"
      /\ next[s] \in DOMAIN snapshot[s]
      /\ branch' = [branch EXCEPT ![s] = <<next[s]>> \o @]
      /\ head' = [head EXCEPT ![s] = FirstHead(s)]
      /\ UNCHANGED <<messages, sessionMap, snapshot, created, before, stored>>
  BY DEF WalkMessage
<1>2. /\ b \in Seq(Messages) /\ Len(b) \in Nat
      /\ Distinct(b) /\ Represents(snapshot[s], b)
  BY <1>1 DEF Inv, TypeOK, IInv, DistinctInv, WalkInv, WalkSound
<1>3. PICK j \in DOMAIN b : WalkAt(s, b, j)
  BY <1>1, NullIdAssumption DEF Inv, TypeOK, IsTable, IInv, WalkInv, WalkSound
<1>4. /\ FirstHead(s) = b[1]
      /\ AtEnd(s) <=> j = 1
      /\ j # 1 => snapshot[s][next[s]].parent = b[j - 1]
  BY <1>1, <1>3, WalkFacts
<1> HIDE DEF b
<1>5. /\ j \in 1 .. Len(b) /\ next[s] = b[j]
      /\ branch[s] = SubSeq(b, j + 1, Len(b))
  BY <1>2, <1>3 DEF WalkAt
<1>6. /\ branch'[s] = SubSeq(b, j, Len(b))
      /\ \A t \in Sessions \ {s} : branch'[t] = branch[t]
  <2>1. SubSeq(b, j, Len(b)) = <<b[j]>> \o SubSeq(b, j + 1, Len(b))
    <3>1. b \in Seq(Messages) /\ j \in 1 .. Len(b) /\ Len(b) \in j .. Len(b)
      BY <1>2, <1>5
    <3> QED
      BY <3>1, SubSeqRecursiveFirst, Zenon
  <2>2. branch' = [branch EXCEPT ![s] = SubSeq(b, j, Len(b))]
    BY <1>1, <1>5, <2>1, Zenon
  <2> QED
    BY <2>2 DEF Inv, TypeOK
<1>7. /\ branch'[s] \in Seq(Messages)
      /\ Range(branch'[s]) \subseteq Range(b)
      /\ Distinct(branch'[s])
  <2>1. j - 1 \in Nat /\ j - 1 <= Len(b) /\ (j - 1) + 1 = j
    BY <1>2, <1>5
  <2> QED
    BY <1>2, <1>6, <2>1, BranchSuffix
<1>8. \/ /\ j = 1
         /\ pc' = [pc EXCEPT ![s] = "holding"]
         /\ next' = next
         /\ branch'[s] = b
      \/ /\ j # 1
         /\ pc' = pc
         /\ next' = [next EXCEPT ![s] = b[j - 1]]
  <2>1. j = 1 => branch'[s] = b
    BY <1>2, <1>6
  <2> QED
    BY <1>4, <2>1 DEF WalkMessage
<1>9. b[1] \in Messages /\ (j # 1 => b[j - 1] \in Messages)
  BY <1>2, <1>5
<1>10. TypeOK'
  BY <1>1, <1>4, <1>6, <1>7, <1>8, <1>9 DEF Inv, TypeOK, MaybeId
<1>11. \A t \in Sessions : Owned(t)' \subseteq Owned(t)
  BY <1>1, <1>6, <1>7 DEF Owned, b
<1>12. (CreatedInv /\ DisjointInv)'
  BY <1>1, <1>11, OwnedKept DEF Inv, IInv, CreatedInv
<1>13. (DistinctInv /\ NoFailure /\ StoredRepresented)'
  BY <1>1, <1>6, <1>7, <1>8
     DEF Inv, TypeOK, IInv, DistinctInv, NoFailure, StoredRepresented
<1>14. WalkInv'
  <2> SUFFICES ASSUME NEW t \in Sessions, pc'[t] = "walking"
               PROVE  WalkSound(t)'
    BY DEF WalkInv
  <2>1. CASE t # s
    BY <1>1, <1>6, <1>8, <2>1, WalkKept DEF Inv, TypeOK, IInv, WalkInv
  <2>2. CASE t = s
    <3>1. j # 1 /\ next'[s] = b[j - 1]
      BY <1>8, <2>2 DEF Inv, TypeOK
    <3>2. j - 1 \in DOMAIN b /\ j - 1 # Len(b) /\ (j - 1) + 1 = j
      BY <1>2, <1>5, <3>1
    <3>3. WalkAt(s, b, j - 1)'
      BY <1>1, <1>4, <1>6, <3>1, <3>2 DEF Inv, TypeOK, WalkAt, b
    <3> QED
      BY <1>1, <1>2, <2>2, <3>2, <3>3 DEF b, WalkSound
  <2> QED
    BY <2>1, <2>2
<1>15. HoldInv'
  <2> SUFFICES ASSUME NEW t \in Sessions, pc'[t] = "holding"
               PROVE  Rooted(messages, branch'[t])
    BY <1>1 DEF HoldInv
  <2>1. CASE t # s
    BY <1>6, <1>8, <2>1 DEF Inv, TypeOK, IInv, HoldInv
  <2>2. CASE t = s
    <3>1. branch'[s] = b
      BY <1>1, <1>8, <2>2
    <3>2. Represents(messages, b)
      BY DEF Inv, IInv, StoredRepresented, b
    <3> QED
      BY <1>2, <2>2, <3>1, <3>2, RepresentsRooted
  <2> QED
    BY <2>1, <2>2
<1>16. pc'[s] = "holding" => branch'[s] = stored[s]
  BY <1>1, <1>8 DEF b
<1> QED
  BY <1>10, <1>12, <1>13, <1>14, <1>15, <1>16 DEF Inv, IInv

(* A message that nobody has is added to a branch in use.                  *)
LEMMA PushInv ==
    ASSUME Inv, NEW s \in Sessions, Push(s)
    PROVE  Inv'
<1>1. PICK m \in Messages :
        /\ m \notin created
        /\ created' = created \cup {m}
        /\ before' = [before EXCEPT ![m] = IdOf(branch[s])]
        /\ branch' = [branch EXCEPT ![s] = Append(@, m)]
  <2>1. \E m \in Messages : m \notin created
    BY DEF Push, Inv, TypeOK
  <2> QED
    BY <2>1 DEF Push
<1>2. /\ pc[s] = "holding"
      /\ UNCHANGED <<messages, sessionMap, pc, snapshot, next, head, stored>>
  BY DEF Push
<1>3. /\ branch[s] \in Seq(Messages) /\ Distinct(branch[s])
      /\ Range(branch[s]) \subseteq created
      /\ Rooted(messages, branch[s])
      /\ DOMAIN messages \subseteq created
  BY <1>2
     DEF Inv, TypeOK, IInv, DistinctInv, CreatedInv, Owned, HoldInv
<1>4. /\ branch'[s] = Append(branch[s], m)
      /\ \A t \in Sessions \ {s} : branch'[t] = branch[t]
  BY <1>1 DEF Inv, TypeOK
<1>5. /\ branch'[s] \in Seq(Messages)
      /\ Range(branch'[s]) = Range(branch[s]) \cup {m}
      /\ Distinct(branch'[s])
  BY <1>1, <1>3, <1>4, BranchAppend
<1>6. TypeOK'
  <2>1. IdOf(branch[s]) \in MaybeId
    BY <1>3 DEF IdOf, MaybeId
  <2> QED
    BY <1>1, <1>2, <1>4, <1>5, <2>1 DEF Inv, TypeOK
<1>7. /\ Owned(s)' = Owned(s) \cup {m}
      /\ \A t \in Sessions \ {s} : Owned(t)' = Owned(t)
  BY <1>2, <1>4, <1>5 DEF Owned
<1>8. CreatedInv'
  BY <1>1, <1>2, <1>7 DEF Inv, IInv, CreatedInv
<1>9. DisjointInv'
  BY <1>1, <1>7 DEF Inv, IInv, CreatedInv, DisjointInv
<1>10. (DistinctInv /\ NoFailure /\ StoredRepresented)'
  BY <1>2, <1>4, <1>5
     DEF Inv, IInv, DistinctInv, NoFailure, StoredRepresented
<1>11. WalkInv'
  BY <1>2, <1>4, WalkKept DEF Inv, IInv, WalkInv
<1>12. HoldInv'
  <2>1. Rooted(messages, branch'[s])
    <3>1. /\ DOMAIN branch'[s] = DOMAIN branch[s] \cup {Len(branch[s]) + 1}
          /\ \A i \in DOMAIN branch[s] : branch'[s][i] = branch[s][i]
          /\ branch'[s][Len(branch[s]) + 1] = m
          /\ DOMAIN branch[s] = 1 .. Len(branch[s]) /\ Len(branch[s]) \in Nat
      BY <1>3, <1>4, AppendProperties, LenProperties
    <3>2. m \notin DOMAIN messages
      BY <1>1, <1>3
    <3> QED
      BY <1>3, <3>1, <3>2 DEF Rooted
  <2> QED
    BY <1>2, <1>4, <2>1 DEF Inv, IInv, HoldInv
<1> QED
  BY <1>6, <1>8, <1>9, <1>10, <1>11, <1>12 DEF Inv, IInv

(* A branch in use loses its oldest messages; the tables stay.             *)
LEMMA SliceInv ==
    ASSUME Inv, NEW s \in Sessions, Slice(s)
    PROVE  Inv'
<1>1. /\ pc[s] = "holding"
      /\ UNCHANGED <<messages, sessionMap, pc, snapshot, next, head,
                     created, before, stored>>
  BY DEF Slice
<1>2. /\ branch[s] \in Seq(Messages) /\ Distinct(branch[s])
      /\ Rooted(messages, branch[s])
  BY <1>1 DEF Inv, TypeOK, IInv, DistinctInv, HoldInv
<1>3. /\ branch'[s] = SubSeq(branch[s], SliceFrom + 1, Len(branch[s]))
      /\ \A t \in Sessions \ {s} : branch'[t] = branch[t]
      /\ DOMAIN branch' = Sessions
      /\ branch' = [branch EXCEPT ![s] = branch'[s]]
  BY DEF Slice, Inv, TypeOK
<1>4. SliceFrom \in Nat /\ SliceFrom <= Len(branch[s])
  BY <1>2, SliceAssumption DEF Slice
<1>5. /\ branch'[s] \in Seq(Messages)
      /\ Range(branch'[s]) \subseteq Range(branch[s])
      /\ Distinct(branch'[s])
      /\ Rooted(messages, branch'[s])
  BY <1>2, <1>3, <1>4, BranchSuffix
<1>6. TypeOK'
  BY <1>1, <1>3, <1>5 DEF Inv, TypeOK
<1>7. \A t \in Sessions : Owned(t)' \subseteq Owned(t)
  BY <1>1, <1>3, <1>5 DEF Owned
<1>8. (CreatedInv /\ DisjointInv)'
  BY <1>1, <1>7, OwnedKept DEF Inv, IInv, CreatedInv
<1>9. (DistinctInv /\ NoFailure /\ StoredRepresented)'
  BY <1>1, <1>3, <1>5
     DEF Inv, IInv, DistinctInv, NoFailure, StoredRepresented
<1>10. WalkInv'
  BY <1>1, <1>3, WalkKept DEF Inv, IInv, WalkInv
<1>11. HoldInv'
  BY <1>1, <1>3, <1>5 DEF Inv, IInv, HoldInv
<1> QED
  BY <1>6, <1>8, <1>9, <1>10, <1>11 DEF Inv, IInv

(* put writes every message of a branch that was not stored and leaves     *)
(* those of other branches alone; where it stops early, what it does not   *)
(* write is stored already and linked as it would write it.                *)
LEMMA PutFacts ==
    ASSUME IsTable(messages), NEW b \in Seq(Messages), Distinct(b),
           Rooted(messages, b)
    PROVE  /\ IsTable(TableAfterPut(b))
           /\ DOMAIN TableAfterPut(b) = DOMAIN messages \cup Range(b)
           /\ \A m \in DOMAIN messages \ Range(b) :
                 TableAfterPut(b)[m] = messages[m]
           /\ Represents(TableAfterPut(b), b)
<1> DEFINE t == TableAfterPut(b)
           W == {b[i] : i \in Rewritten(b)}
<1>1. Len(b) \in Nat /\ DOMAIN b = 1 .. Len(b) /\ Rewritten(b) \subseteq DOMAIN b
  BY DEF Rewritten
<1>2. \A i \in DOMAIN b : ContainerOf(b, i) \in Container
  BY <1>1 DEF ContainerOf, Parent, Container, MaybeId
<1>3. DOMAIN t = DOMAIN messages \cup W
  BY DEF TableAfterPut
<1>4. \A m \in DOMAIN messages \ W : t[m] = messages[m]
  BY DEF TableAfterPut
<1>5. \A i \in Rewritten(b) : t[b[i]] = ContainerOf(b, i)
  <2> SUFFICES ASSUME NEW i \in Rewritten(b)
               PROVE  t[b[i]] = ContainerOf(b, i)
    OBVIOUS
  <2> DEFINE j == CHOOSE j \in Rewritten(b) : b[j] = b[i]
  <2>1. j \in Rewritten(b) /\ b[j] = b[i]
    OBVIOUS
  <2>2. t[b[i]] = ContainerOf(b, j)
    BY DEF TableAfterPut
  <2> HIDE DEF j
  <2>3. j = i
    BY <1>1, <2>1 DEF Distinct
  <2> QED
    BY <2>2, <2>3
<1>6. \A i \in DOMAIN b : i \notin Rewritten(b) => b[i] \in DOMAIN messages \ W
  <2> SUFFICES ASSUME NEW i \in DOMAIN b, i \notin Rewritten(b)
               PROVE  b[i] \in DOMAIN messages \ W
    OBVIOUS
  <2>1. PICK j \in DOMAIN b : j > i /\ b[j] \in DOMAIN messages
    BY DEF Rewritten
  <2>2. b[i] \in DOMAIN messages
    BY <1>1, <2>1 DEF Rooted
  <2>3. b[i] \notin W
    BY <1>1 DEF Distinct
  <2> QED
    BY <2>2, <2>3
<1> HIDE DEF t
<1>7. IsTable(t)
  <2>1. DOMAIN t \subseteq Messages
    BY <1>1, <1>3 DEF IsTable
  <2>2. \A m \in DOMAIN t : t[m] \in Container
    BY <1>1, <1>2, <1>3, <1>4, <1>5 DEF IsTable
  <2>3. t = [m \in DOMAIN t |-> t[m]]
    BY DEF t, TableAfterPut
  <2> QED
    BY <2>1, <2>2, <2>3 DEF IsTable
<1>8. DOMAIN t = DOMAIN messages \cup Range(b)
  BY <1>1, <1>3, <1>6 DEF Range
<1>9. \A m \in DOMAIN messages \ Range(b) : t[m] = messages[m]
  BY <1>1, <1>4 DEF Range
<1>10. ASSUME NEW i \in DOMAIN b, i > 1
       PROVE  t[b[i]].parent = b[i - 1]
  <2>1. CASE i \in Rewritten(b)
    <3>1. t[b[i]] = ContainerOf(b, i)
      BY <1>5, <2>1
    <3>2. i # 1
      BY <1>1, <1>10
    <3> QED
      BY <3>1, <3>2 DEF ContainerOf, Parent
  <2>2. CASE i \notin Rewritten(b)
    <3>1. t[b[i]] = messages[b[i]] /\ b[i] \in DOMAIN messages
      BY <1>4, <1>6, <2>2
    <3>2. i - 1 \in DOMAIN b /\ i - 1 < i /\ (i - 1) + 1 = i
      BY <1>1, <1>10
    <3> QED
      BY <3>1, <3>2 DEF Rooted
  <2> QED
    BY <2>1, <2>2
<1>11. b # <<>> => t[IdOf(b)].head = b[1]
  <2> SUFFICES ASSUME b # <<>> PROVE t[IdOf(b)].head = b[1]
    OBVIOUS
  <2>1. Len(b) \in Rewritten(b)
    BY <1>1 DEF Rewritten
  <2>2. t[b[Len(b)]] = ContainerOf(b, Len(b))
    BY <1>5, <2>1
  <2> QED
    BY <2>2 DEF IdOf, ContainerOf
<1>12. Represents(t, b)
  BY <1>8, <1>10, <1>11 DEF Represents, Range
<1> QED
  BY <1>7, <1>8, <1>9, <1>12 DEF t

(* A branch none of whose messages are written is not touched by a put.    *)
LEMMA OthersKept ==
    ASSUME NEW t, NEW u, NEW b, NEW X,
           DOMAIN u = DOMAIN t \cup X,
           \A m \in DOMAIN t \ X : u[m] = t[m],
           Range(b) \cap X = {}
    PROVE  Rooted(t, b) => Rooted(u, b)
<1> SUFFICES ASSUME Rooted(t, b) PROVE Rooted(u, b)
  OBVIOUS
<1>1. \A i \in DOMAIN b : /\ b[i] \in DOMAIN u <=> b[i] \in DOMAIN t
                          /\ b[i] \in DOMAIN t => u[b[i]] = t[b[i]]
  BY DEF Range
<1> QED
  BY <1>1 DEF Rooted

(* Rewriting messages that a branch does not have leaves it represented.   *)
LEMMA OthersRepresented ==
    ASSUME NEW t, NEW u, NEW b \in Seq(Messages), NEW X,
           DOMAIN u = DOMAIN t \cup X,
           \A m \in DOMAIN t \ X : u[m] = t[m],
           Range(b) \cap X = {}
    PROVE  Represents(t, b) => Represents(u, b)
<1> SUFFICES ASSUME Represents(t, b) PROVE Represents(u, b)
  OBVIOUS
<1>1. \A i \in DOMAIN b : b[i] \in DOMAIN u /\ u[b[i]] = t[b[i]]
  BY DEF Range, Represents
<1>2. b # <<>> => Len(b) \in DOMAIN b
  OBVIOUS
<1> QED
  BY <1>1, <1>2 DEF Represents, IdOf

(* A put preserves the invariant (store.rs, put).                          *)
LEMMA PutInv ==
    ASSUME Inv, NEW s \in Sessions, Put(s)
    PROVE  Inv'
<1> DEFINE b == branch[s]
<1>1. /\ pc[s] = "holding"
      /\ messages' = TableAfterPut(b)
      /\ sessionMap' = [sessionMap EXCEPT ![s] = IdOf(b)]
      /\ stored' = [stored EXCEPT ![s] = b]
      /\ UNCHANGED <<pc, branch, snapshot, next, head, created, before>>
  BY DEF Put
<1>2. /\ IsTable(messages)
      /\ b \in Seq(Messages) /\ Distinct(b) /\ Rooted(messages, b)
      /\ Range(b) \subseteq Owned(s)
  BY <1>1 DEF Inv, TypeOK, IInv, DistinctInv, HoldInv, Owned
<1>3. /\ IsTable(messages')
      /\ DOMAIN messages' = DOMAIN messages \cup Range(b)
      /\ \A m \in DOMAIN messages \ Range(b) : messages'[m] = messages[m]
      /\ Represents(messages', b)
  BY <1>1, <1>2, PutFacts
<1>4. \A t \in Sessions \ {s} :
         /\ Range(branch[t]) \cap Range(b) = {}
         /\ Range(stored[t]) \cap Range(b) = {}
  BY <1>2 DEF Inv, IInv, DisjointInv, Owned
<1>5. /\ stored'[s] = b
      /\ \A t \in Sessions \ {s} : stored'[t] = stored[t]
  BY <1>1 DEF Inv, TypeOK
<1> HIDE DEF b
<1>6. TypeOK'
  <2>1. IdOf(b) \in MaybeId
    BY <1>2 DEF IdOf, MaybeId
  <2> QED
    BY <1>1, <1>2, <1>3, <2>1 DEF Inv, TypeOK
<1>7. \A t \in Sessions : Owned(t)' \subseteq Owned(t)
  BY <1>1, <1>2, <1>5 DEF Owned
<1>8. DOMAIN messages' \subseteq created
  BY <1>2, <1>3 DEF Inv, IInv, CreatedInv
<1>9. (CreatedInv /\ DisjointInv)'
  BY <1>1, <1>7, <1>8, OwnedKept DEF Inv, IInv
<1>10. (DistinctInv /\ NoFailure)'
  BY <1>1, <1>2, <1>5 DEF Inv, IInv, DistinctInv, NoFailure
<1>11. WalkInv'
  <2> SUFFICES ASSUME NEW t \in Sessions, pc[t] = "walking"
               PROVE  WalkSound(t)'
    BY <1>1 DEF WalkInv
  <2>1. t # s
    BY <1>1
  <2> QED
    BY <1>1, <1>5, <2>1, WalkKept DEF Inv, IInv, WalkInv
<1>12. HoldInv'
  <2> SUFFICES ASSUME NEW t \in Sessions, pc[t] = "holding"
               PROVE  Rooted(messages', branch[t])
    BY <1>1 DEF HoldInv
  <2>1. CASE t = s
    BY <1>2, <1>3, <2>1, RepresentsRooted DEF b
  <2>2. CASE t # s
    BY <1>3, <1>4, <2>2, OthersKept DEF Inv, IInv, HoldInv
  <2> QED
    BY <2>1, <2>2
<1>13. StoredRepresented'
  <2> SUFFICES ASSUME NEW t \in Sessions
               PROVE  /\ sessionMap'[t] = IdOf(stored'[t])
                      /\ Represents(messages', stored'[t])
    BY DEF StoredRepresented
  <2>1. CASE t = s
    BY <1>1, <1>3, <1>5, <2>1 DEF Inv, TypeOK
  <2>2. CASE t # s
    <3>1. /\ stored'[t] = stored[t] /\ stored[t] \in Seq(Messages)
          /\ sessionMap'[t] = sessionMap[t]
          /\ sessionMap[t] = IdOf(stored[t])
          /\ Represents(messages, stored[t])
      BY <1>1, <1>5, <2>2 DEF Inv, TypeOK, IInv, StoredRepresented
    <3>2. Represents(messages', stored[t])
      BY <1>3, <1>4, <2>2, <3>1, OthersRepresented
    <3> QED
      BY <3>1, <3>2
  <2> QED
    BY <2>1, <2>2
<1> QED
  BY <1>6, <1>9, <1>10, <1>11, <1>12, <1>13 DEF Inv, IInv

(* What a client has not put is in no branch any more.                     *)
LEMMA ForgetInv ==
    ASSUME Inv, NEW s \in Sessions, Forget(s)
    PROVE  Inv'
<1>1. /\ pc' = [pc EXCEPT ![s] = "idle"]
      /\ branch' = [branch EXCEPT ![s] = <<>>]
      /\ snapshot' = [snapshot EXCEPT ![s] = EmptyTable]
      /\ next' = [next EXCEPT ![s] = NullId]
      /\ head' = [head EXCEPT ![s] = NullId]
      /\ UNCHANGED <<messages, sessionMap, created, before, stored>>
  BY DEF Forget
<1>2. TypeOK'
  BY <1>1 DEF Inv, TypeOK, IsTable, EmptyTable, MaybeId
<1>3. \A t \in Sessions : Owned(t)' \subseteq Owned(t)
  BY <1>1 DEF Inv, TypeOK, Owned, Range
<1>4. (CreatedInv /\ DisjointInv)'
  BY <1>1, <1>3, OwnedKept DEF Inv, IInv, CreatedInv
<1>5. (DistinctInv /\ HoldInv /\ NoFailure /\ StoredRepresented)'
  BY <1>1
     DEF Inv, TypeOK, IInv, DistinctInv, Distinct, HoldInv, NoFailure,
         StoredRepresented
<1>6. WalkInv'
  BY <1>1, WalkKept DEF Inv, TypeOK, IInv, WalkInv
<1> QED
  BY <1>2, <1>4, <1>5, <1>6 DEF Inv, IInv

(* Every step of the clients and their walks preserves it.                 *)
LEMMA StepInv == Inv /\ [Next]_vars => Inv'
<1> SUFFICES ASSUME Inv, [Next]_vars PROVE Inv'
  OBVIOUS
<1>1. ASSUME NEW s \in Sessions,
             Load(s) \/ Walk(s) \/ Push(s) \/ Slice(s) \/ Put(s) \/ Forget(s)
      PROVE  Inv'
  BY <1>1, LoadInv, WalkMissingInv, WalkMessageInv, PushInv, SliceInv, PutInv,
     ForgetInv DEF Walk
<1>2. CASE UNCHANGED vars
  <2>1. TypeOK'
    BY <1>2 DEF vars, Inv, TypeOK
  <2>2. (CreatedInv /\ DistinctInv /\ DisjointInv)'
    BY <1>2 DEF vars, Inv, IInv, CreatedInv, DistinctInv, DisjointInv, Owned
  <2>3. WalkInv'
    BY <1>2, WalkKept DEF vars, Inv, IInv, WalkInv
  <2>4. (HoldInv /\ NoFailure /\ StoredRepresented)'
    BY <1>2 DEF vars, Inv, IInv, HoldInv, NoFailure, StoredRepresented
  <2> QED
    BY <2>1, <2>2, <2>3, <2>4 DEF Inv, IInv
<1> QED
  BY <1>1, <1>2 DEF Next

-----------------------------------------------------------------------------
(* The theorems.                                                           *)

(* Every variable keeps its type.                                          *)
THEOREM TypeCorrect == Spec => []TypeOK
<1>1. Inv => TypeOK
  BY DEF Inv
<1> QED
  BY <1>1, InitInv, StepInv, PTL DEF Spec

(* Whatever was put and sliced, and however put stopped early, the tables  *)
(* hold the branch last put under every session (store.rs:70-123).         *)
THEOREM PutIsStored == Spec => []StoredRepresented
<1>1. Inv => StoredRepresented
  BY DEF Inv, IInv
<1> QED
  BY <1>1, InitInv, StepInv, PTL DEF Spec

(* Where put meets a stored message of the branch everything older is      *)
(* stored and linked, too (store.rs:102-103).                              *)
THEOREM MayStopEarly == Spec => []EarlyStopSound
<1>1. Inv => EarlyStopSound
  <2> SUFFICES ASSUME Inv, NEW s \in Sessions, pc[s] = "holding",
                      NEW i \in DOMAIN branch[s], i > 1,
                      branch[s][i] \in DOMAIN messages
               PROVE  /\ branch[s][i - 1] \in DOMAIN messages
                      /\ messages[branch[s][i]].parent = branch[s][i - 1]
    BY DEF EarlyStopSound
  <2>1. Rooted(messages, branch[s]) /\ branch[s] \in Seq(Messages)
    BY DEF Inv, TypeOK, IInv, HoldInv
  <2>2. i - 1 \in DOMAIN branch[s] /\ i - 1 < i /\ (i - 1) + 1 = i
    BY <2>1
  <2> QED
    BY <2>1, <2>2 DEF Rooted
<1> QED
  BY <1>1, InitInv, StepInv, PTL DEF Spec

(* No two sessions share a message, so that a put for one cannot change    *)
(* what a load for another one finds.                                      *)
THEOREM SessionsDisjoint == Spec => []DisjointInv
<1>1. Inv => DisjointInv
  BY DEF Inv, IInv
<1> QED
  BY <1>1, InitInv, StepInv, PTL DEF Spec

(* A load never misses a message and returns exactly the branch last put,  *)
(* although it interleaves with puts (store.rs:31-53, 128-177).            *)
THEOREM LoadIsExact == Spec => LoadReturnsLastPut
<1> DEFINE Exact == \A s \in Sessions :
                       /\ pc'[s] # "failed"
                       /\ pc[s] = "walking" /\ pc'[s] = "holding"
                             => branch'[s] = stored[s]
<1>1. ASSUME Inv, [Next]_vars
      PROVE  Exact
  <2> SUFFICES ASSUME NEW s \in Sessions
               PROVE  /\ pc'[s] # "failed"
                      /\ pc[s] = "walking" /\ pc'[s] = "holding"
                            => branch'[s] = stored[s]
    OBVIOUS
  <2>1. pc'[s] # "failed"
    BY <1>1, StepInv DEF Inv, IInv, NoFailure
  <2>2. ASSUME pc[s] = "walking", pc'[s] = "holding"
        PROVE  Walk(s)
    <3>1. pc' # pc
      BY <2>2
    <3>2. PICK t \in Sessions : Load(t) \/ Walk(t) \/ Forget(t)
      BY <1>1, <3>1 DEF Next, vars, Push, Slice, Put
    <3>3. pc \in [Sessions -> {"idle", "walking", "holding", "failed"}]
      BY <1>1 DEF Inv, TypeOK
    <3>4. CASE Load(t) \/ Forget(t)
      <4>1. pc' \in {[pc EXCEPT ![t] = "walking"], [pc EXCEPT ![t] = "idle"]}
        BY <3>4 DEF Load, StartWalk, Forget
      <4> QED
        BY <2>2, <3>3, <4>1
    <3>5. CASE Walk(t)
      <4>1. \/ pc' = pc
            \/ pc' = [pc EXCEPT ![t] = "holding"]
            \/ pc' = [pc EXCEPT ![t] = "failed"]
        BY <3>5 DEF Walk, WalkMissing, WalkMessage
      <4>2. s = t
        BY <2>2, <3>3, <4>1
      <4> QED
        BY <3>5, <4>2
    <3> QED
      BY <3>2, <3>4, <3>5
  <2> QED
    BY <1>1, <2>1, <2>2, WalkMissingInv, WalkMessageInv DEF Walk
<1>2. Inv /\ [Next]_vars => [Exact]_vars
  BY <1>1
<1> HIDE DEF Exact
<1>3. Spec => [][Exact]_vars
  BY <1>2, InitInv, StepInv, PTL DEF Spec
<1> QED
  BY <1>3 DEF LoadReturnsLastPut, Exact

(* A walk that is not over has not read all that was put.                  *)
WalksRemain ==
    \A s \in Sessions : pc[s] = "walking" =>
        \/ Len(branch[s]) < Len(stored[s])
        \/ branch[s] = <<>> /\ stored[s] = <<>>

(* Each step of a walk reads a message or ends it: a load takes no more    *)
(* steps than the branch last put has messages, or one if it has none      *)
(* (store.rs:139-173).                                                     *)
THEOREM LoadIsBounded == Spec => []WalksRemain
<1>1. ASSUME Inv, NEW s \in Sessions, pc[s] = "walking"
      PROVE  \/ Len(branch[s]) < Len(stored[s])
             \/ branch[s] = <<>> /\ stored[s] = <<>>
  <2>1. stored[s] \in Seq(Messages)
    BY <1>1 DEF Inv, TypeOK
  <2>2. WalkSound(s)
    BY <1>1 DEF Inv, IInv, WalkInv
  <2>3. CASE stored[s] = <<>> /\ branch[s] = <<>> /\ next[s] = NullId
    BY <2>3
  <2>4. ASSUME NEW j \in DOMAIN stored[s], WalkAt(s, stored[s], j)
        PROVE  Len(branch[s]) < Len(stored[s])
    <3>1. j \in 1 .. Len(stored[s]) /\ Len(stored[s]) \in Nat
      BY <2>1
    <3>2. Len(SubSeq(stored[s], j + 1, Len(stored[s]))) = Len(stored[s]) - j
      BY <2>1, <3>1
    <3> QED
      BY <2>4, <3>1, <3>2 DEF WalkAt
  <2> QED
    BY <2>2, <2>3, <2>4 DEF WalkSound
<1>2. Inv => WalksRemain
  BY <1>1 DEF WalksRemain
<1> QED
  BY <1>2, InitInv, StepInv, PTL DEF Spec
=============================================================================
