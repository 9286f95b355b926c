---------------------- MODULE CheckpointJournal_proofs ----------------------
(***************************************************************************)
(* Proofs about CheckpointJournal for every set of keys, either kind of    *)
(* loss, with or without I/O errors, and any number of losses and puts.    *)
(***************************************************************************)
EXTENDS CheckpointJournal, TLAPS

USE JournalAssumption

-----------------------------------------------------------------------------
(* The invariant *)

Distinct(s) == \A i, j \in 1..Len(s) : s[i] = s[j] => i = j
Clean(s) == \A i \in 1..Len(s) : s[i] # "garbage"
Good(s) == s \in Seq(Line) /\ Distinct(s) /\ Clean(s)
Holds(s, n, k) == \E i \in 1..n : s[i] = k

\* Bytes are left after the last newline only where the next open will find
\* them, or where the chain takes no more puts.
TornIsSafe ==
  /\ torn => pc \in {"down", "failed"} \/ (pc = "up" /\ broken)
  /\ broken => queue = <<>>

\* The map answers for every line but one that waits for its sync, or that a
\* rejected put has left.
MapIsCurrent ==
  pc = "up" =>
    /\ \A k \in Keys : Holds(lines, Len(lines), k) =>
         k \in values \/ broken \/ (appended /\ k = Head(queue))
    /\ appended => Holds(lines, Len(lines), Head(queue)) /\ Head(queue) \notin values

Inv ==
  /\ TypeOK /\ Good(lines) /\ Good(kept)
  /\ pc \in {"create", "repair"} => lines = <<>>
  /\ TornIsSafe /\ MapIsCurrent

-----------------------------------------------------------------------------
(* Lemmas: lines *)

LEMMA EmptyIsGood == Good(<<>>) /\ Len(<<>>) = 0
BY DEF Good, Distinct, Clean, Line

LEMMA HeaderIsGood ==
  /\ Good(<<"header">>) /\ Len(<<"header">>) = 1
  /\ \A k \in Keys : ~Holds(<<"header">>, 1, k)
<1>1. <<"header">> \in Seq(Line) /\ Len(<<"header">>) = 1 /\ <<"header">>[1] = "header"
  BY DEF Line
<1>2. \A k \in Keys : k # "header"
  OBVIOUS
<1> QED
  BY <1>1, <1>2 DEF Good, Distinct, Clean, Holds

\* A prefix of good lines is good, and holds what it held.
LEMMA PrefixIsGood ==
  ASSUME NEW s, Good(s), NEW n \in 0..Len(s)
  PROVE  LET p == SubSeq(s, 1, n)
         IN  /\ Good(p) /\ Len(p) = n
             /\ \A m \in 0..n : \A k : Holds(s, m, k) => Holds(p, m, k)
<1> DEFINE p == SubSeq(s, 1, n)
<1>1. s \in Seq(Line) /\ Len(s) \in Nat
  BY DEF Good
<1>2. p \in Seq(Line) /\ Len(p) = n /\ \A i \in 1..n : p[i] = s[i]
  BY <1>1
<1> HIDE DEF p
<1>3. Good(p)
  BY <1>1, <1>2 DEF Good, Distinct, Clean
<1>4. \A m \in 0..n : \A k : Holds(s, m, k) => Holds(p, m, k)
  BY <1>2 DEF Holds
<1> QED
  BY <1>2, <1>3, <1>4 DEF p

\* A key that is not there makes one more good line.
LEMMA AppendIsGood ==
  ASSUME NEW s, Good(s), NEW k \in Keys, ~Holds(s, Len(s), k)
  PROVE  LET a == Append(s, k)
         IN  /\ Good(a) /\ Len(a) = Len(s) + 1
             /\ \A j : Holds(a, Len(a), j) <=> Holds(s, Len(s), j) \/ j = k
             /\ \A m \in 0..Len(s) : \A j : Holds(s, m, j) => Holds(a, m, j)
<1> DEFINE a == Append(s, k)
<1>1. s \in Seq(Line) /\ Len(s) \in Nat /\ k \in Line /\ k # "garbage"
  BY DEF Good, Line
<1>2. a \in Seq(Line) /\ Len(a) = Len(s) + 1 /\ (\A i \in 1..Len(s) : a[i] = s[i]) /\ a[Len(s) + 1] = k
  BY <1>1
<1> HIDE DEF a
<1>3. \A i \in 1..Len(a) : i \in 1..Len(s) \/ i = Len(s) + 1
  BY <1>1, <1>2
<1>4. Distinct(a)
  <2> SUFFICES ASSUME NEW i \in 1..Len(a), NEW j \in 1..Len(a), a[i] = a[j]
               PROVE  i = j
    BY DEF Distinct
  <2>1. CASE i \in 1..Len(s) /\ j \in 1..Len(s)
    BY <1>2, <2>1 DEF Good, Distinct
  <2>2. CASE i = Len(s) + 1 /\ j \in 1..Len(s)
    BY <1>2, <2>2 DEF Holds
  <2>3. CASE i \in 1..Len(s) /\ j = Len(s) + 1
    BY <1>2, <2>3 DEF Holds
  <2> QED
    BY <1>3, <2>1, <2>2, <2>3
<1>5. Clean(a)
  BY <1>1, <1>2, <1>3 DEF Good, Clean
<1>6. \A j : Holds(a, Len(a), j) <=> Holds(s, Len(s), j) \/ j = k
  <2> TAKE j
  <2>1. ASSUME Holds(a, Len(a), j)
        PROVE  Holds(s, Len(s), j) \/ j = k
    BY <1>2, <1>3, <2>1 DEF Holds
  <2>2. ASSUME Holds(s, Len(s), j)
        PROVE  Holds(a, Len(a), j)
    <3>1. PICK i \in 1..Len(s) : s[i] = j
      BY <2>2 DEF Holds
    <3>2. i \in 1..Len(a)
      BY <1>1, <1>2
    <3> QED
      BY <1>2, <3>1, <3>2 DEF Holds
  <2>3. ASSUME j = k
        PROVE  Holds(a, Len(a), j)
    <3>1. Len(s) + 1 \in 1..Len(a)
      BY <1>1, <1>2
    <3> QED
      BY <1>2, <2>3, <3>1 DEF Holds
  <2> QED
    BY <2>1, <2>2, <2>3
<1>7. \A m \in 0..Len(s) : \A j : Holds(s, m, j) => Holds(a, m, j)
  BY <1>1, <1>2 DEF Holds
<1> QED
  BY <1>2, <1>4, <1>5, <1>6, <1>7 DEF Good, a

\* What a session reads.
LEMMA RecordedIs ==
  ASSUME NEW s, Good(s)
  PROVE  Recorded(s) \subseteq Keys /\ \A k \in Keys : k \in Recorded(s) <=> Holds(s, Len(s), k)
<1>1. s \in Seq(Line) /\ DOMAIN s = 1..Len(s)
  BY DEF Good
<1>2. \A i \in 1..Len(s) : s[i] \in Line
  BY <1>1
<1> QED
  BY <1>1, <1>2 DEF Recorded, Holds, Line

\* What the first n lines hold, more of them hold.
LEMMA HoldsMore ==
  ASSUME NEW s, NEW m \in Nat, NEW n \in Nat, m <= n, NEW k, Holds(s, m, k)
  PROVE  Holds(s, n, k)
BY DEF Holds

-----------------------------------------------------------------------------
(* Steps of the open *)

LEMMA OpenKeeps ==
  ASSUME Inv, OpenEmpty \/ WriteHeader \/ OpenIntact \/ OpenTorn \/ WriteBack
  PROVE  Inv'
<1> USE DEF file, chain
<1>1. CASE OpenEmpty
  BY <1>1 DEF OpenEmpty, Inv, TypeOK, TornIsSafe, MapIsCurrent
<1>2. CASE WriteHeader
  <2>1. Good(lines') /\ Len(lines') = 1
    BY <1>2, HeaderIsGood DEF WriteHeader
  <2> QED
    BY <1>2, <2>1 DEF WriteHeader, Inv, TypeOK, TornIsSafe, MapIsCurrent, Good
<1>3. CASE OpenIntact
  BY <1>3 DEF OpenIntact, Inv, TypeOK, TornIsSafe, MapIsCurrent
<1>4. CASE OpenTorn
  <2>1. Good(lines') /\ Len(lines') = 0 /\ kept' = lines
    BY <1>4, EmptyIsGood DEF OpenTorn, Kept
  <2>2. TypeOK'
    <3>1. durable' \in 0..Len(lines')
      BY <1>4, <2>1 DEF OpenTorn
    <3>2. lines' \in Seq(Line) /\ kept' \in Seq(Line) /\ torn' = FALSE /\ pc' = "repair"
      BY <1>4, <2>1 DEF OpenTorn, Good, Inv
    <3>3. UNCHANGED <<exists, values, queue, appended, broken, acked, losses>>
      BY <1>4 DEF OpenTorn
    <3> QED
      BY <3>1, <3>2, <3>3 DEF Inv, TypeOK
  <2>3. lines' = <<>> /\ TornIsSafe' /\ MapIsCurrent'
    BY <1>4 DEF OpenTorn, Inv, TornIsSafe, MapIsCurrent
  <2> QED
    BY <2>1, <2>2, <2>3 DEF Inv
<1>5. CASE WriteBack
  <2>1. lines' = kept /\ durable' = 0 /\ Len(kept) \in Nat
    BY <1>5 DEF WriteBack, Inv, TypeOK
  <2> QED
    BY <1>5, <2>1 DEF WriteBack, Inv, TypeOK, TornIsSafe, MapIsCurrent
<1> QED
  BY <1>1, <1>2, <1>3, <1>4, <1>5

LEMMA LoadKeeps == ASSUME Inv, Load PROVE Inv'
<1> USE DEF file
<1>1. /\ Recorded(lines) \subseteq Keys
      /\ \A k \in Keys : k \in Recorded(lines) <=> Holds(lines, Len(lines), k)
  BY RecordedIs DEF Inv
<1>2. pc' \in {"failed", "up"} /\ values' \subseteq Keys /\ queue' \in Seq(Keys)
  BY <1>1 DEF Load
<1>3. TypeOK'
  BY <1>2 DEF Load, Inv, TypeOK
<1>4. TornIsSafe'
  BY DEF Load, Inv, TornIsSafe
<1>5. MapIsCurrent'
  BY <1>1 DEF Load, MapIsCurrent
<1> QED
  BY <1>2, <1>3, <1>4, <1>5 DEF Load, Inv

-----------------------------------------------------------------------------
(* Steps of the chain *)

LEMMA PutKeeps == ASSUME Inv, NEW k \in Keys, Put(k) PROVE Inv'
<1> USE DEF file
<1>1. queue \in Seq(Keys) /\ (appended => queue # <<>>)
  BY DEF Inv, TypeOK
<1>2. queue' \in Seq(Keys) /\ queue' # <<>> /\ (queue # <<>> => Head(queue') = Head(queue))
  BY <1>1 DEF Put
<1> QED
  BY <1>1, <1>2 DEF Put, Inv, TypeOK, TornIsSafe, MapIsCurrent

LEMMA SkipKeeps == ASSUME Inv, SkipKnown PROVE Inv'
<1> USE DEF file
<1>1. queue \in Seq(Keys) /\ queue # <<>>
  BY DEF Inv, TypeOK, SkipKnown
<1>2. Head(queue) \in Keys /\ Tail(queue) \in Seq(Keys)
  BY <1>1
<1> QED
  BY <1>1, <1>2 DEF SkipKnown, Inv, TypeOK, TornIsSafe, MapIsCurrent

\* What is appended is a key of its own line, and not there yet.
LEMMA AppendFacts ==
  ASSUME Inv, AppendLine
  PROVE  LET k == Head(queue)
         IN  /\ pc = "up" /\ queue \in Seq(Keys) /\ queue # <<>> /\ ~appended
             /\ k \in Keys /\ ~broken /\ ~torn
             /\ lines' = Append(lines, k) /\ ~Holds(lines, Len(lines), k)
<1> DEFINE k == Head(queue)
<1>1. pc = "up" /\ queue \in Seq(Keys) /\ queue # <<>> /\ ~appended /\ k \notin values
  BY DEF Inv, TypeOK, AppendLine, Known
<1>2. k \in Keys /\ ~broken /\ ~torn
  BY <1>1 DEF Inv, TornIsSafe
<1>3. lines' = Append(lines, k)
  BY <1>2 DEF AppendLine
<1>4. ~Holds(lines, Len(lines), k)
  BY <1>1, <1>2 DEF Inv, MapIsCurrent
<1> QED
  BY <1>1, <1>2, <1>3, <1>4

LEMMA AppendKeeps == ASSUME Inv, AppendLine PROVE Inv'
<1> DEFINE k == Head(queue)
<1>1. pc = "up" /\ queue \in Seq(Keys) /\ queue # <<>> /\ ~appended
  BY AppendFacts
<1>2. k \in Keys /\ ~broken /\ ~torn
  BY AppendFacts
<1>3. lines' = Append(lines, k)
  BY AppendFacts
<1>4. ~Holds(lines, Len(lines), k)
  BY AppendFacts
<1>5. /\ Good(lines') /\ Len(lines') = Len(lines) + 1
      /\ \A j : Holds(lines', Len(lines'), j) <=> Holds(lines, Len(lines), j) \/ j = k
  BY <1>2, <1>3, <1>4, AppendIsGood DEF Inv
<1>6. TypeOK'
  <2>1. Len(lines) \in Nat /\ Len(lines') \in Nat /\ durable \in 0..Len(lines')
    BY <1>5 DEF Inv, TypeOK, Good
  <2>2. lines' \in Seq(Line)
    BY <1>5 DEF Good
  <2> HIDE DEF k
  <2> QED
    BY <1>1, <2>1, <2>2 DEF AppendLine, Inv, TypeOK
<1>7. TornIsSafe'
  BY DEF AppendLine, Inv, TornIsSafe
<1>8. MapIsCurrent'
  <2>1. k \notin values
    BY DEF AppendLine, Known
  <2> QED
    BY <1>1, <1>2, <1>5, <2>1 DEF AppendLine, Inv, MapIsCurrent
<1> QED
  BY <1>1, <1>5, <1>6, <1>7, <1>8 DEF AppendLine, Inv

LEMMA SyncKeeps == ASSUME Inv, Sync PROVE Inv'
<1>1. queue \in Seq(Keys) /\ queue # <<>> /\ pc = "up" /\ appended /\ Len(lines) \in Nat
  BY DEF Inv, TypeOK, Sync
<1>2. Head(queue) \in Keys /\ Tail(queue) \in Seq(Keys)
  BY <1>1
<1>3. TypeOK' /\ TornIsSafe'
  <2>1. /\ durable' = Len(lines) /\ lines' = lines /\ queue' = Tail(queue)
        /\ values' \subseteq Keys /\ acked' \subseteq Keys
    BY <1>2 DEF Sync, Synced, Inv, TypeOK
  <2>2. TypeOK'
    <3>1. durable' \in 0..Len(lines')
      BY <1>1, <2>1
    <3>2. UNCHANGED <<exists, lines, torn, pc, kept, broken, losses>> /\ appended' = FALSE
      BY DEF Sync
    <3> QED
      BY <1>2, <2>1, <3>1, <3>2 DEF Inv, TypeOK
  <2>3. ~broken
    BY <1>1 DEF Inv, TornIsSafe
  <2> QED
    BY <2>2, <2>3 DEF Sync, Inv, TornIsSafe
<1>4. MapIsCurrent'
  BY <1>1 DEF Sync, Inv, MapIsCurrent
<1> QED
  BY <1>1, <1>3, <1>4 DEF Sync, Inv

LEMMA IoErrorKeeps == ASSUME Inv, IoError PROVE Inv'
<1>1. <<>> \in Seq(Keys)
  OBVIOUS
<1> QED
  BY <1>1 DEF IoError, ChainBroken, Inv, TypeOK, TornIsSafe, MapIsCurrent

LEMMA CloseKeeps == ASSUME Inv, Close PROVE Inv'
<1> USE DEF chain
<1>1. Len(lines) \in Nat
  BY DEF Inv, TypeOK
<1> QED
  BY <1>1 DEF Close, Inv, TypeOK, TornIsSafe, MapIsCurrent

LEMMA LossKeeps == ASSUME Inv, Loss PROVE Inv'
<1> DEFINE from == IF pc = "repair" THEN kept ELSE lines
<1>1. Good(from) /\ Len(from) \in Nat /\ Len(lines) \in Nat /\ durable \in 0..Len(lines)
  BY DEF Inv, TypeOK
<1>2. pc = "repair" => durable = 0
  BY DEF Inv, TypeOK
<1>3. PICK n \in 0..Len(from) : lines' = lines \/ lines' = SubSeq(from, 1, n)
  <2>1. 0 \in 0..Len(from) /\ durable..Len(from) \subseteq 0..Len(from)
    BY <1>1
  <2>2. lines' = lines \/ lines' \in Prefixes(from, 0) \/ lines' \in Prefixes(from, durable)
    BY DEF Loss, Die, LosePower
  <2> HIDE DEF from
  <2> QED
    BY <2>1, <2>2 DEF Prefixes
<1>4. Good(lines')
  <2> HIDE DEF from
  <2> QED
    BY <1>1, <1>3, PrefixIsGood DEF Inv
<1>5. durable' \in 0..Len(lines')
  <2>1. Len(lines') \in Nat
    BY <1>4 DEF Good
  <2>2. CASE Die
    BY <1>1, <1>2, <2>1, <2>2 DEF Die
  <2>3. CASE LosePower
    BY <2>1, <2>3 DEF LosePower
  <2> QED
    BY <2>2, <2>3 DEF Loss
<1>6. torn' \in BOOLEAN
  BY DEF Loss, Die, LosePower, Inv, TypeOK
<1>7. <<>> \in Seq(Keys) /\ losses' \in 0..MaxLosses
  BY DEF Loss, Inv, TypeOK
<1> QED
  BY <1>4, <1>5, <1>6, <1>7 DEF Loss, Inv, TypeOK, TornIsSafe, MapIsCurrent, Good

-----------------------------------------------------------------------------
(* The theorems *)

LEMMA InvInit == Init => Inv
<1> SUFFICES ASSUME Init
             PROVE  Inv
  OBVIOUS
<1>1. <<>> \in Seq(Line) /\ <<>> \in Seq(Keys) /\ Len(<<>>) = 0
  OBVIOUS
<1>2. /\ exists \in BOOLEAN /\ torn \in BOOLEAN /\ appended \in BOOLEAN /\ broken \in BOOLEAN
      /\ ~appended
  BY DEF Init
<1>3. lines \in Seq(Line) /\ kept \in Seq(Line) /\ queue \in Seq(Keys) /\ durable \in 0..Len(lines)
  BY <1>1 DEF Init
<1>4. losses \in 0..MaxLosses
  BY DEF Init
<1>5. TypeOK
  BY <1>2, <1>3, <1>4 DEF Init, TypeOK
<1> QED
  BY <1>5, EmptyIsGood DEF Init, Inv, TornIsSafe, MapIsCurrent

LEMMA InvNext == Inv /\ [Next]_vars => Inv'
<1> SUFFICES ASSUME Inv, [Next]_vars
             PROVE  Inv'
  OBVIOUS
<1>1. CASE UNCHANGED vars
  BY <1>1 DEF vars, Inv, TypeOK, TornIsSafe, MapIsCurrent
<1> QED
  BY <1>1, OpenKeeps, LoadKeeps, PutKeeps, SkipKeeps, AppendKeeps, SyncKeeps, IoErrorKeeps,
     CloseKeeps, LossKeeps DEF Next

LEMMA InvAlways == Spec => []Inv
BY InvInit, InvNext, PTL DEF Spec

\* Every step of an open, of the chain and of a loss keeps the types.
THEOREM TypeCorrect == Spec => []TypeOK
<1>1. Inv => TypeOK
  BY DEF Inv
<1> QED
  BY <1>1, InvAlways, PTL

\* No key is written twice, through concurrent puts, failures and sessions.
THEOREM LinesAreDistinct == Spec => []OneLinePerKey
<1>1. Inv => OneLinePerKey
  BY DEF Inv, Good, Distinct, OneLinePerKey
<1> QED
  BY <1>1, InvAlways, PTL

\* No line is ever joined to torn bytes, so no loss makes the file unreadable.
THEOREM TornIsLast == Spec => []TornOnlyAtEnd
<1>1. Inv => TornOnlyAtEnd
  BY DEF Inv, Good, Clean, TornOnlyAtEnd
<1> QED
  BY <1>1, InvAlways, PTL

-----------------------------------------------------------------------------
(* What is on stable storage *)

\* The keys of the first lines.
LEMMA PrefixRecords ==
  ASSUME NEW s, Good(s), NEW n \in 0..Len(s)
  PROVE  /\ Recorded(SubSeq(s, 1, n)) \subseteq Keys
         /\ \A k \in Keys : k \in Recorded(SubSeq(s, 1, n)) <=> Holds(s, n, k)
<1> DEFINE p == SubSeq(s, 1, n)
<1>1. s \in Seq(Line) /\ Len(s) \in Nat
  BY DEF Good
<1>2. Good(p) /\ Len(p) = n
  BY PrefixIsGood
<1>3. \A i \in 1..n : p[i] = s[i]
  BY <1>1
<1> HIDE DEF p
<1>4. Recorded(p) \subseteq Keys /\ \A k \in Keys : k \in Recorded(p) <=> Holds(p, n, k)
  BY <1>2, RecordedIs
<1>5. \A k \in Keys : Holds(p, n, k) <=> Holds(s, n, k)
  BY <1>3 DEF Holds
<1> QED
  BY <1>4, <1>5 DEF p

LEMMA SecuredIs ==
  ASSUME Inv
  PROVE  /\ Secured \subseteq Keys
         /\ \A k \in Keys : k \in Secured <=> Holds(lines, durable, k)
         /\ durable = 0 => Secured = {}
         /\ durable = Len(lines) => Secured = Recorded(lines)
<1>1. Good(lines) /\ durable \in 0..Len(lines)
  BY DEF Inv, TypeOK
<1>2. Secured \subseteq Keys /\ \A k \in Keys : k \in Secured <=> Holds(lines, durable, k)
  BY <1>1, PrefixRecords DEF Secured
<1>3. durable = 0 => Secured = {}
  BY <1>2 DEF Holds
<1>4. Recorded(lines) \subseteq Keys /\ \A k \in Keys : k \in Recorded(lines) <=> Holds(lines, Len(lines), k)
  BY <1>1, RecordedIs
<1>5. durable = Len(lines) => Secured = Recorded(lines)
  BY <1>2, <1>4
<1> QED
  BY <1>2, <1>3, <1>5

\* Nothing is on stable storage while a file is written from its beginning.
LEMMA NoneWhileEmpty == ASSUME Inv, lines = <<>> PROVE durable = 0 /\ Secured = {}
<1>1. durable = 0
  BY DEF Inv, TypeOK
<1> QED
  BY <1>1, SecuredIs

\* A line is appended: what is on stable storage is what was.
LEMMA AppendSecuresNothing == ASSUME Inv, Inv', AppendLine PROVE Secured' = Secured
<1> DEFINE k == Head(queue)
<1>1. k \in Keys /\ lines' = Append(lines, k)
  BY AppendFacts
<1>2. Good(lines) /\ lines \in Seq(Line) /\ durable \in 0..Len(lines) /\ durable' = durable /\ k \in Line
  BY <1>1 DEF Inv, TypeOK, AppendLine, Line
<1> HIDE DEF k
<1>3. \A i \in 1..durable : lines'[i] = lines[i]
  BY <1>1, <1>2
<1>4. \A j : Holds(lines', durable, j) <=> Holds(lines, durable, j)
  BY <1>3 DEF Holds
<1>5. Secured \subseteq Keys /\ \A j \in Keys : j \in Secured <=> Holds(lines, durable, j)
  BY SecuredIs
<1>6. Secured' \subseteq Keys /\ \A j \in Keys : j \in Secured' <=> Holds(lines', durable', j)
  <2>1. Good(lines') /\ durable' \in 0..Len(lines')
    BY DEF Inv, TypeOK
  <2> QED
    BY <2>1, PrefixRecords DEF Secured
<1> QED
  BY <1>2, <1>4, <1>5, <1>6

\* A sync secures all there is.
LEMMA SyncSecures == ASSUME Inv, Inv', Sync PROVE Secured' = Recorded(lines)
<1>1. lines' = lines /\ durable' = Len(lines')
  BY DEF Sync, Synced
<1>2. Good(lines') /\ durable' \in 0..Len(lines')
  BY DEF Inv, TypeOK
<1>3. Secured' \subseteq Keys /\ \A j \in Keys : j \in Secured' <=> Holds(lines', Len(lines'), j)
  BY <1>1, <1>2, PrefixRecords DEF Secured
<1>4. Recorded(lines) \subseteq Keys /\ \A j \in Keys : j \in Recorded(lines) <=> Holds(lines, Len(lines), j)
  BY RecordedIs DEF Inv
<1> QED
  BY <1>1, <1>3, <1>4

LEMMA CloseSecures == ASSUME Inv, Inv', Close PROVE Secured' \in {Secured, Recorded(lines)}
<1>1. lines' = lines /\ durable' \in {durable, Len(lines')}
  BY DEF Close
<1>2. CASE durable' = durable
  BY <1>1, <1>2 DEF Secured
<1>3. CASE durable' = Len(lines')
  <2>1. Good(lines') /\ durable' \in 0..Len(lines')
    BY DEF Inv, TypeOK
  <2>2. Secured' \subseteq Keys /\ \A j \in Keys : j \in Secured' <=> Holds(lines', Len(lines'), j)
    BY <1>3, <2>1, PrefixRecords DEF Secured
  <2>3. Recorded(lines) \subseteq Keys /\ \A j \in Keys : j \in Recorded(lines) <=> Holds(lines, Len(lines), j)
    BY RecordedIs DEF Inv
  <2> QED
    BY <1>1, <2>2, <2>3
<1> QED
  BY <1>1, <1>2, <1>3

\* What is secured is stored.
LEMMA SecuredIsStored == ASSUME Inv PROVE Secured \subseteq Recorded(lines)
<1>1. durable \in Nat /\ Len(lines) \in Nat /\ durable <= Len(lines)
  BY DEF Inv, TypeOK
<1>2. \A k \in Keys : Holds(lines, durable, k) => Holds(lines, Len(lines), k)
  BY <1>1, HoldsMore
<1>3. \A k \in Keys : k \in Recorded(lines) <=> Holds(lines, Len(lines), k)
  BY RecordedIs DEF Inv
<1> QED
  BY <1>2, <1>3, SecuredIs

\* A dead process secures nothing and takes nothing that was.
LEMMA DieSecures == ASSUME Inv, Inv', Loss, Die PROVE Secured' = Secured
<1>1. CASE pc # "repair"
  BY <1>1 DEF Die, Secured
<1>2. CASE pc = "repair"
  <2>1. lines = <<>> /\ durable = 0 /\ Secured = {}
    BY <1>2, NoneWhileEmpty DEF Inv
  <2>2. durable' = 0
    BY <2>1 DEF Die
  <2>3. Good(lines') /\ 0 \in 0..Len(lines')
    BY <2>2 DEF Inv, TypeOK
  <2>4. Secured' \subseteq Keys /\ \A j \in Keys : j \in Secured' <=> Holds(lines', 0, j)
    BY <2>2, <2>3, PrefixRecords DEF Secured
  <2> QED
    BY <2>1, <2>4 DEF Holds
<1> QED
  BY <1>1, <1>2

\* A loss of power keeps what was secured, and what is left is secured.
LEMMA PowerSecures ==
  ASSUME Inv, Inv', Loss, LosePower
  PROVE  Secured' = Recorded(lines') /\ Secured \subseteq Secured'
<1> DEFINE from == IF pc = "repair" THEN kept ELSE lines
<1>1. Good(from) /\ Good(lines') /\ Len(lines') \in Nat /\ durable \in Nat /\ Len(from) \in Nat
  BY DEF Inv, TypeOK
<1>2. durable' = Len(lines')
  BY DEF LosePower
<1>3. Secured' \subseteq Keys /\ \A j \in Keys : j \in Secured' <=> Holds(lines', Len(lines'), j)
  <2>1. Len(lines') \in 0..Len(lines')
    BY <1>1
  <2> QED
    BY <1>1, <1>2, <2>1, PrefixRecords DEF Secured
<1>4. Secured' = Recorded(lines')
  <2>1. Recorded(lines') \subseteq Keys /\ \A j \in Keys : j \in Recorded(lines') <=> Holds(lines', Len(lines'), j)
    BY <1>1, RecordedIs
  <2> QED
    BY <1>3, <2>1
<1>5. CASE pc = "repair"
  BY <1>4, <1>5, NoneWhileEmpty DEF Inv
<1>6. CASE pc # "repair"
  <2>1. PICK n \in durable..Len(lines) : lines' = SubSeq(lines, 1, n)
    BY <1>6 DEF LosePower, Prefixes
  <2>2. n \in 0..Len(lines) /\ durable \in 0..n /\ n \in Nat /\ durable <= n
    BY <1>1, <2>1
  <2>3. Len(lines') = n /\ \A k : Holds(lines, durable, k) => Holds(lines', durable, k)
    BY <1>1, <1>6, <2>1, <2>2, PrefixIsGood
  <2>4. \A k \in Keys : Holds(lines, durable, k) => Holds(lines', n, k)
    BY <1>1, <2>2, <2>3, HoldsMore
  <2> QED
    BY <1>3, <1>4, <2>3, <2>4, SecuredIs
<1> QED
  BY <1>4, <1>5, <1>6

\* Only a rewriting takes a key off stable storage.
LEMMA StepSecures == ASSUME Inv, Inv', [Next]_vars PROVE OpenTorn \/ Secured \subseteq Secured'
<1>1. CASE UNCHANGED <<lines, durable>>
  BY <1>1 DEF Secured
<1>2. CASE WriteHeader \/ WriteBack
  <2>1. lines = <<>>
    BY <1>2 DEF WriteHeader, WriteBack, Inv
  <2> QED
    BY <2>1, NoneWhileEmpty
<1>3. CASE AppendLine
  BY <1>3, AppendSecuresNothing
<1>4. CASE Sync \/ Close
  BY <1>4, SyncSecures, CloseSecures, SecuredIsStored
<1>5. CASE Loss
  BY <1>5, DieSecures, PowerSecures DEF Loss
<1> QED
  BY <1>1, <1>2, <1>3, <1>4, <1>5
     DEF Next, vars, OpenEmpty, OpenIntact, Load, Put, SkipKnown, IoError, file

\* A session answers for what is secured, from its load on.
LEMMA StepAnswers ==
  ASSUME Inv, Inv', SecuredIsAnswered, [Next]_vars
  PROVE  SecuredIsAnswered'
<1> SUFFICES ASSUME pc' = "up" PROVE Secured' \subseteq values'
  BY DEF SecuredIsAnswered
<1>1. CASE UNCHANGED <<lines, durable, pc, values>>
  BY <1>1 DEF SecuredIsAnswered, Secured
<1>2. CASE Load
  <2>1. lines' = lines /\ durable' = durable /\ values' = Recorded(lines)
    BY <1>2 DEF Load, file
  <2> QED
    BY <2>1, SecuredIsStored DEF Secured
<1>3. CASE AppendLine
  BY <1>3, AppendSecuresNothing DEF AppendLine, SecuredIsAnswered
<1>4. CASE Sync
  <2>1. pc = "up" /\ appended /\ queue # <<>> /\ values' = values \cup {Head(queue)}
    BY <1>4 DEF Sync, Inv, TypeOK
  <2>2. ~broken
    BY <2>1 DEF Inv, TornIsSafe
  <2>3. \A k \in Keys : Holds(lines, Len(lines), k) => k \in values'
    BY <2>1, <2>2 DEF Inv, MapIsCurrent
  <2>4. Recorded(lines) \subseteq values'
    BY <2>3, RecordedIs DEF Inv
  <2> QED
    BY <1>4, <2>4, SyncSecures
<1> QED
  BY <1>1, <1>2, <1>3, <1>4
     DEF Next, vars, OpenEmpty, WriteHeader, OpenIntact, OpenTorn, WriteBack, Put, SkipKnown,
         IoError, Close, Loss, file

LEMMA InitAnswers == Init => SecuredIsAnswered
BY DEF Init, SecuredIsAnswered

SecuresOrRewrites == OpenTorn \/ Secured \subseteq Secured'

\* A key on stable storage stays there through every end of a session, until
\* a torn file is rewritten, and every session answers for those that are
\* there (checkpoint-journal.mjs 22-28, 56-62).
THEOREM SyncedAreFound == Spec => StaysSecured /\ []SecuredIsAnswered
<1>1. Inv /\ Inv' /\ [Next]_vars => [SecuresOrRewrites]_vars
  BY StepSecures DEF SecuresOrRewrites
<1>2. Inv /\ Inv' /\ SecuredIsAnswered /\ [Next]_vars => SecuredIsAnswered'
  BY StepAnswers
<1>3. [][SecuresOrRewrites]_vars => StaysSecured
  BY PTL DEF SecuresOrRewrites, StaysSecured
<1> QED
  BY <1>1, <1>2, <1>3, InitAnswers, InvAlways, PTL DEF Spec

-----------------------------------------------------------------------------
(* The journal implements a durable map *)

\* What is stored, in terms of the lines that hold it.
LEMMA StoredIs ==
  ASSUME Inv
  PROVE  /\ Stored \subseteq Keys
         /\ \A k \in Keys : k \in Stored <=> IF pc = "repair" THEN Holds(kept, Len(kept), k)
                                             ELSE Holds(lines, Len(lines), k)
BY RecordedIs DEF Inv, Stored

\* A prefix of good lines records no more than they do.
LEMMA PrefixRecordsLess ==
  ASSUME NEW s, Good(s), NEW n \in 0..Len(s)
  PROVE  Recorded(SubSeq(s, 1, n)) \subseteq Recorded(s)
<1>1. n \in Nat /\ Len(s) \in Nat /\ n <= Len(s)
  BY DEF Good
<1>2. \A k \in Keys : Holds(s, n, k) => Holds(s, Len(s), k)
  BY <1>1, HoldsMore
<1> QED
  BY <1>2, PrefixRecords, RecordedIs

\* An opening that is under way changes nothing of the map, but that it is
\* written anew.
LEMMA OpenIsSilent ==
  ASSUME Inv, Inv', OpenEmpty \/ WriteHeader \/ OpenIntact
  PROVE  UNCHANGED Map!vars
<1> USE DEF file, Map!vars
<1>1. CASE OpenEmpty \/ OpenIntact
  BY <1>1 DEF OpenEmpty, OpenIntact, Stored, Secured
<1>2. CASE WriteHeader
  <2>1. pc = "create" /\ lines = <<>> /\ pc' = "load" /\ lines' = <<"header">> /\ durable' = durable
    BY <1>2 DEF WriteHeader, Inv
  <2>2. Recorded(<<>>) = {} /\ Recorded(<<"header">>) = {}
    BY DEF Recorded
  <2>3. Stored = {} /\ Stored' = {}
    BY <2>1, <2>2 DEF Stored
  <2>4. Secured = {} /\ Secured' = {}
    <3>1. durable' = 0 /\ Secured = {}
      BY <2>1, NoneWhileEmpty
    <3>2. Good(lines') /\ 0 \in 0..Len(lines')
      BY <3>1 DEF Inv, TypeOK
    <3>3. Secured' \subseteq Keys /\ \A j \in Keys : j \in Secured' <=> Holds(lines', 0, j)
      BY <3>1, <3>2, PrefixRecords DEF Secured
    <3> QED
      BY <3>1, <3>3 DEF Holds
  <2> QED
    BY <2>1, <2>3, <2>4
<1> QED
  BY <1>1, <1>2

LEMMA RepairRewrites ==
  ASSUME Inv, Inv', OpenTorn
  PROVE  Map!Rewrite
<1>1. pc \in {"down", "failed"} /\ pc' = "repair" /\ kept' = lines /\ lines' = <<>> /\ durable' = 0
  BY DEF OpenTorn, Kept
<1>2. Stored' = Stored
  BY <1>1 DEF Stored
<1>3. Secured' = {}
  <2>1. Good(lines') /\ 0 \in 0..Len(lines')
    BY <1>1 DEF Inv, TypeOK
  <2>2. Secured' \subseteq Keys /\ \A j \in Keys : j \in Secured' <=> Holds(lines', 0, j)
    BY <1>1, <2>1, PrefixRecords DEF Secured
  <2> QED
    BY <2>2 DEF Holds
<1> QED
  BY <1>1, <1>2, <1>3 DEF Map!Rewrite

LEMMA WriteBackEnds ==
  ASSUME Inv, Inv', WriteBack
  PROVE  Map!Rewritten
<1>1. pc = "repair" /\ pc' = "load" /\ lines' = kept /\ durable' = durable /\ lines = <<>>
  BY DEF WriteBack, Inv
<1>2. Stored' = Stored
  BY <1>1 DEF Stored
<1>3. durable' = 0 /\ Secured = {}
  BY <1>1, NoneWhileEmpty
<1>4. Secured' = {}
  <2>1. Good(lines') /\ 0 \in 0..Len(lines')
    BY <1>3 DEF Inv, TypeOK
  <2>2. Secured' \subseteq Keys /\ \A j \in Keys : j \in Secured' <=> Holds(lines', 0, j)
    BY <1>3, <2>1, PrefixRecords DEF Secured
  <2> QED
    BY <2>2 DEF Holds
<1> QED
  BY <1>1, <1>2, <1>3, <1>4 DEF Map!Rewritten

LEMMA LoadOpens == ASSUME Inv, Load PROVE Map!Open \/ UNCHANGED Map!vars
<1>1. pc = "load" /\ pc' \in {"failed", "up"} /\ lines' = lines /\ kept' = kept /\ durable' = durable
  BY DEF Load, file
<1>2. Stored' = Stored /\ Stored = Recorded(lines) /\ Secured' = Secured
  BY <1>1 DEF Stored, Secured
<1>3. CASE pc' = "failed"
  BY <1>1, <1>2, <1>3 DEF Map!vars
<1>4. CASE pc' = "up"
  BY <1>1, <1>2, <1>4 DEF Load, Map!Open
<1> QED
  BY <1>1, <1>3, <1>4

LEMMA AppendWrites == ASSUME Inv, Inv', AppendLine PROVE \E k \in Keys : Map!Write(k)
<1> DEFINE k == Head(queue)
<1>1. pc = "up" /\ k \in Keys
  BY AppendFacts
<1>2. lines' = Append(lines, k) /\ ~Holds(lines, Len(lines), k)
  BY AppendFacts
<1>3. pc' = pc /\ values' = values /\ Secured' = Secured
  BY AppendSecuresNothing DEF AppendLine
<1>4. k \notin Stored
  BY <1>1, <1>2, StoredIs
<1>5. \A j : Holds(lines', Len(lines'), j) <=> Holds(lines, Len(lines), j) \/ j = k
  BY <1>1, <1>2, AppendIsGood DEF Inv
<1>6. Stored' = Recorded(lines') /\ Good(lines')
  BY <1>1, <1>3 DEF Stored, Inv
<1>7. Stored' \subseteq Keys /\ \A j \in Keys : j \in Stored' <=> Holds(lines', Len(lines'), j)
  BY <1>6, RecordedIs
<1>8. Stored' = Stored \cup {k}
  BY <1>1, <1>5, <1>7, StoredIs
<1>9. Map!Write(k)
  BY <1>1, <1>3, <1>4, <1>8 DEF Map!Write
<1> QED
  BY <1>1, <1>9

LEMMA SyncConfirms == ASSUME Inv, Inv', Sync PROVE \E k \in Keys : Map!Confirm(k)
<1> DEFINE k == Head(queue)
<1>1. pc = "up" /\ appended /\ queue \in Seq(Keys) /\ queue # <<>>
  BY DEF Inv, TypeOK, Sync
<1>2. k \in Keys
  BY <1>1
<1>3. Holds(lines, Len(lines), k) /\ k \notin values
  BY <1>1 DEF Inv, MapIsCurrent
<1>4. k \in Stored
  BY <1>1, <1>2, <1>3, StoredIs
<1>5. pc' = pc /\ lines' = lines /\ kept' = kept /\ values' = values \cup {k}
  BY DEF Sync
<1>6. Stored' = Stored /\ Secured' = Stored
  BY <1>1, <1>5, SyncSecures DEF Stored
<1>7. Map!Confirm(k)
  BY <1>1, <1>3, <1>4, <1>5, <1>6 DEF Map!Confirm
<1> QED
  BY <1>2, <1>7

LEMMA CloseCloses == ASSUME Inv, Inv', Close PROVE Map!Close
<1>1. pc = "up" /\ pc' = "down" /\ lines' = lines /\ kept' = kept
  BY DEF Close
<1>2. Stored = Recorded(lines) /\ Stored' = Stored
  BY <1>1 DEF Stored
<1>3. Secured' \in {Secured, Stored}
  BY <1>2, CloseSecures
<1> QED
  BY <1>1, <1>2, <1>3 DEF Map!Close

LEMMA LossLoses ==
  ASSUME Inv, Inv', Loss
  PROVE  Map!Die \/ Map!LosePower
<1> DEFINE from == IF pc = "repair" THEN kept ELSE lines
<1>1. pc' = "down"
  BY DEF Loss
<1>2. Good(from) /\ Len(from) \in Nat /\ Len(lines) \in Nat /\ durable \in 0..Len(lines)
  BY DEF Inv, TypeOK
<1>3. Stored = Recorded(from) /\ Stored' = Recorded(lines')
  BY <1>1 DEF Stored
<1>4. ASSUME NEW least \in Nat, lines' \in Prefixes(from, least)
      PROVE  Recorded(lines') \subseteq Recorded(from)
  <2> HIDE DEF from
  <2>1. PICK n \in least..Len(from) : lines' = SubSeq(from, 1, n)
    BY <1>4 DEF Prefixes
  <2>2. n \in 0..Len(from)
    BY <1>2, <2>1
  <2> QED
    BY <1>2, <2>1, <2>2, PrefixRecordsLess
<1>5. CASE Die
  <2>1. Secured' = Secured
    BY <1>5, DieSecures
  <2>2. CASE pc = "repair"
    <3>1. lines' \in Prefixes(from, 0)
      BY <1>5, <2>2 DEF Die
    <3>2. Stored' \subseteq Stored
      BY <1>3, <1>4, <3>1
    <3> QED
      BY <1>1, <2>1, <2>2, <3>2 DEF Map!Die
  <2>3. CASE pc # "repair"
    <3>1. lines' = lines
      BY <1>5, <2>3 DEF Die
    <3>2. Stored' = Stored
      BY <1>3, <2>3, <3>1
    <3> QED
      BY <1>1, <2>1, <2>3, <3>2 DEF Map!Die
  <2> QED
    BY <2>2, <2>3
<1>6. CASE LosePower
  <2>1. durable \in Nat /\ lines' \in Prefixes(from, durable)
    BY <1>2, <1>6 DEF LosePower
  <2>2. Stored' \subseteq Stored
    BY <1>3, <1>4, <2>1
  <2>3. Secured' = Stored' /\ Secured \subseteq Stored'
    BY <1>3, <1>6, PowerSecures
  <2> QED
    BY <1>1, <2>2, <2>3 DEF Map!LosePower
<1> QED
  BY <1>5, <1>6 DEF Loss

\* Every other step of the chain is silent too: a put joins or is skipped, or
\* fails, and what a failed write has left is what the next open will read.
LEMMA ChainIsSilent ==
  ASSUME (\E k \in Keys : Put(k)) \/ SkipKnown \/ IoError
  PROVE  UNCHANGED Map!vars
<1>1. pc' = pc /\ lines' = lines /\ kept' = kept /\ values' = values /\ durable' = durable
  BY DEF Put, SkipKnown, IoError, file
<1> QED
  BY <1>1 DEF Map!vars, Stored, Secured

LEMMA MapNext ==
  ASSUME Inv, Inv', [Next]_vars
  PROVE  [Map!Next]_(Map!vars)
<1>1. CASE UNCHANGED vars
  BY <1>1 DEF vars, Map!vars, Stored, Secured
<1>2. CASE Loss
  BY <1>2, LossLoses DEF Map!Next
<1>3. CASE OpenEmpty \/ WriteHeader \/ OpenIntact
  BY <1>3, OpenIsSilent
<1>4. CASE OpenTorn \/ WriteBack
  BY <1>4, RepairRewrites, WriteBackEnds DEF Map!Next
<1>5. CASE Load
  BY <1>5, LoadOpens DEF Map!Next
<1>6. CASE (\E k \in Keys : Put(k)) \/ SkipKnown \/ IoError
  BY <1>6, ChainIsSilent
<1>7. CASE AppendLine
  BY <1>7, AppendWrites DEF Map!Next
<1>8. CASE Sync
  BY <1>8, SyncConfirms DEF Map!Next
<1>9. CASE Close
  BY <1>9, CloseCloses DEF Map!Next
<1> QED
  BY <1>1, <1>2, <1>3, <1>4, <1>5, <1>6, <1>7, <1>8, <1>9 DEF Next

\* Every behaviour of the journal is one of a durable map: a session answers
\* for what is on disk, a key goes there once and is answered for only when
\* everything there is secured, and only the rewriting of a torn file exposes
\* what was secured: to either end of a session while it lasts, and to a loss
\* of power until the next sync (checkpoint-journal.mjs 22-76).
THEOREM JournalIsMap == Spec => ImplementsMap
<1>1. Init => Map!Init
  BY EmptyIsGood DEF Init, Map!Init, Stored, Secured, Recorded
<1>2. Inv /\ Inv' /\ [Next]_vars => [Map!Next]_(Map!vars)
  BY MapNext
<1> QED
  BY <1>1, <1>2, InvAlways, PTL DEF Spec, ImplementsMap, Map!Spec
=============================================================================
