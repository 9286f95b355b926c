------------------------- MODULE CheckpointJournal -------------------------
(***************************************************************************)
(* The checkpoint journal (tools/checkpoint-journal.mjs): one line per     *)
(* completed unit of paid work, appended and synced before put() resolves, *)
(* read back when the run resumes.                                         *)
(*                                                                         *)
(* The file is the sequence of its complete lines and whether bytes follow *)
(* the last newline.  A process that dies leaves what it has written; a    *)
(* loss of power keeps a prefix, at least what is on stable storage, which *)
(* is nothing once a torn file has been rewritten and until the next sync. *)
(* The fingerprint check, and the directory entry of a new file, are left  *)
(* out.                                                                    *)
(***************************************************************************)
EXTENDS Integers, Sequences

CONSTANTS
  Keys,             \* what is recorded: a stage and a key
  Losses,           \* how a session may end: "process", "power"
  IoErrors,         \* whether a write or a sync may fail
  MaxLosses,        \* bound: sessions lost
  MaxQueue          \* bound: puts in flight

ASSUME JournalAssumption ==
  /\ Losses \subseteq {"process", "power"}
  /\ IoErrors \in BOOLEAN
  /\ MaxLosses \in Nat /\ MaxQueue \in Nat
  /\ Keys \cap {"header", "garbage"} = {}

VARIABLES
  exists, lines, torn,   \* the file
  durable,               \* how many of its lines are on stable storage
  pc,                    \* how far the session's open has come
  kept,                  \* the lines a repair writes back
  values,                \* what get() answers
  queue,                 \* the puts chained and not settled
  appended,              \* the first of them is written and not synced
  broken,                \* the chain is rejected, and every later put with it
  acked,                 \* the keys whose put ever resolved
  losses

file == <<exists, lines, torn, durable>>
chain == <<queue, appended, broken>>
vars == <<exists, lines, torn, durable, pc, kept, values, queue, appended, broken, acked,
          losses>>

Line == Keys \cup {"header", "garbage"}
Recorded(ls) == {ls[i] : i \in DOMAIN ls} \ {"header", "garbage"}
Prefixes(ls, least) == {SubSeq(ls, 1, n) : n \in least..Len(ls)}

Init ==
  /\ exists = FALSE /\ lines = <<>> /\ torn = FALSE /\ durable = 0
  /\ pc = "down"
  /\ kept = <<>> /\ values = {}
  /\ queue = <<>> /\ appended = FALSE /\ broken = FALSE
  /\ acked = {}
  /\ losses = 0

-----------------------------------------------------------------------------
(* openCheckpointJournal *)

\* A file with nothing in it is created anew; the 'wx' flag refuses one that
\* is there already.
OpenEmpty ==
  /\ pc \in {"down", "failed"}
  /\ lines = <<>> /\ ~torn
  /\ exists' = TRUE
  /\ pc' = IF exists THEN "failed" ELSE "create"
  /\ UNCHANGED <<lines, torn, durable, kept, values, chain, acked, losses>>

WriteHeader ==
  /\ pc = "create"
  /\ lines' = <<"header">>
  /\ pc' = "load"
  /\ UNCHANGED <<exists, torn, durable, kept, values, chain, acked, losses>>

OpenIntact ==
  /\ pc \in {"down", "failed"}
  /\ lines # <<>> /\ ~torn
  /\ pc' = "load"
  /\ UNCHANGED <<file, kept, values, chain, acked, losses>>

\* Mutant: the last complete line goes with the torn one.
KeepsOneLess(ls) == SubSeq(ls, 1, Len(ls) - 1)

\* Mutant: the torn tail is kept as if it were a line.
KeepsTail(ls) == Append(ls, "tail")

\* Every complete line is preserved, and nothing else.
Kept(ls) == ls

\* A torn tail is discarded by writing the complete lines over the file,
\* which is emptied first and not synced after: what earlier sessions had
\* synced is no longer on stable storage.
OpenTorn ==
  /\ pc \in {"down", "failed"} /\ torn
  /\ kept' = Kept(lines)
  /\ torn' = FALSE
  /\ pc' = "repair"
  /\ lines' = <<>> /\ durable' = 0
  /\ UNCHANGED <<exists, values, chain, acked, losses>>

WriteBack ==
  /\ pc = "repair"
  /\ lines' = kept
  /\ pc' = "load"
  /\ UNCHANGED <<exists, torn, durable, kept, values, chain, acked, losses>>

\* The lines are parsed: without a header, or with one that does not parse,
\* the open throws.
Load ==
  /\ pc = "load"
  /\ pc' = IF lines = <<>> \/ \E i \in DOMAIN lines : lines[i] = "garbage"
           THEN "failed" ELSE "up"
  /\ values' = IF pc' = "up" THEN Recorded(lines) ELSE {}
  /\ queue' = <<>> /\ appended' = FALSE /\ broken' = FALSE
  /\ UNCHANGED <<file, kept, acked, losses>>

-----------------------------------------------------------------------------
(* put and close *)

\* A put joins the chain; one of a rejected chain is rejected at once.
Put(k) ==
  /\ pc = "up" /\ ~broken /\ Len(queue) < MaxQueue
  /\ queue' = Append(queue, k)
  /\ UNCHANGED <<file, pc, kept, values, appended, broken, acked, losses>>

\* Mutant: the chained step does not look again.
NotLooked(k) == FALSE

\* The key is there already, put by an earlier link of the chain or read.
Known(k) == k \in values

\* A put of a known key resolves without a write.
SkipKnown ==
  /\ pc = "up" /\ queue # <<>> /\ ~appended
  /\ Known(Head(queue))
  /\ acked' = acked \cup {Head(queue)}
  /\ queue' = Tail(queue)
  /\ UNCHANGED <<file, pc, kept, values, appended, broken, losses>>

\* A line that follows torn bytes is one line with them.
AppendLine ==
  /\ pc = "up" /\ queue # <<>> /\ ~appended
  /\ ~Known(Head(queue))
  /\ lines' = Append(lines, IF torn THEN "garbage" ELSE Head(queue))
  /\ torn' = FALSE
  /\ appended' = TRUE
  /\ UNCHANGED <<exists, durable, pc, kept, values, queue, broken, acked, losses>>

\* Mutant: put resolves without the sync.
NotSynced == durable

Synced == Len(lines)

Sync ==
  /\ pc = "up" /\ appended
  /\ durable' = Synced
  /\ values' = values \cup {Head(queue)}
  /\ acked' = acked \cup {Head(queue)}
  /\ queue' = Tail(queue)
  /\ appended' = FALSE
  /\ UNCHANGED <<exists, lines, torn, pc, kept, broken, losses>>

\* Mutant: the chain goes on after a failure.
ChainRecovers == FALSE

ChainBroken == TRUE

\* A write fails, perhaps half done, or the sync after it does: the put is
\* rejected with those behind it.
IoError ==
  /\ IoErrors
  /\ pc = "up" /\ queue # <<>>
  /\ appended \/ ~Known(Head(queue))
  /\ torn' \in IF appended THEN {torn} ELSE {torn, TRUE}
  /\ broken' = ChainBroken
  /\ queue' = <<>> /\ appended' = FALSE
  /\ UNCHANGED <<exists, lines, durable, pc, kept, values, acked, losses>>

\* close awaits the chain, then syncs; a rejected chain throws before that.
Close ==
  /\ pc = "up" /\ queue = <<>>
  /\ durable' = IF broken THEN durable ELSE Len(lines)
  /\ pc' = "down"
  /\ UNCHANGED <<exists, lines, torn, kept, values, chain, acked, losses>>

-----------------------------------------------------------------------------
(* How a session is lost *)

\* A write was under way: the bytes after the last newline may be there.
Writing == pc \in {"create", "repair"} \/ (pc = "up" /\ queue # <<>> /\ ~appended /\ ~Known(Head(queue)))

\* The process dies; what it wrote stays, a repair or a write half done.
Die ==
  /\ "process" \in Losses
  /\ lines' \in IF pc = "repair" THEN Prefixes(kept, 0) ELSE {lines}
  /\ torn' \in IF Writing THEN {torn, TRUE} ELSE {torn}
  /\ UNCHANGED durable

\* The machine loses power: what was not synced may be gone, from any byte,
\* and the tail that a repair has cut off may be back.
LosePower ==
  /\ "power" \in Losses
  /\ lines' \in Prefixes(IF pc = "repair" THEN kept ELSE lines, durable)
  /\ torn' \in IF Writing \/ torn \/ durable < Len(lines) THEN BOOLEAN ELSE {FALSE}
  /\ durable' = Len(lines')

Loss ==
  /\ losses < MaxLosses
  /\ pc \in {"create", "repair", "load", "up"}
  /\ Die \/ LosePower
  /\ pc' = "down"
  /\ values' = {} /\ queue' = <<>> /\ appended' = FALSE /\ broken' = FALSE
  /\ losses' = losses + 1
  /\ UNCHANGED <<exists, kept, acked>>

Next ==
  \/ OpenEmpty \/ WriteHeader \/ OpenIntact \/ OpenTorn \/ WriteBack \/ Load
  \/ \E k \in Keys : Put(k)
  \/ SkipKnown \/ AppendLine \/ Sync \/ IoError \/ Close
  \/ Loss

Spec == Init /\ [][Next]_vars

-----------------------------------------------------------------------------
(* What the journal implements *)

\* The keys on disk; a repair still holds those it is about to write back.
Stored == Recorded(IF pc = "repair" THEN kept ELSE lines)

\* The keys on stable storage.
Secured == Recorded(SubSeq(lines, 1, durable))

Map == INSTANCE DurableMap WITH
         open <- pc = "up",
         map <- IF pc = "up" THEN values ELSE {},
         stored <- Stored,
         secured <- Secured,
         rewriting <- pc = "repair"

\* The journal is a durable map: a session answers for what is on disk, a key
\* is written once and answered for only with all that is stored secured; a
\* dead process costs no key outside the rewriting of a torn file, a loss of
\* power no secured one, and only that rewriting, which is not synced, takes
\* the security of a key, until the next sync (checkpoint-journal.mjs 22-76).
ImplementsMap == Map!Spec

-----------------------------------------------------------------------------
(* Properties *)

\* Types; the lines on stable storage are lines of the file.
TypeOK ==
  /\ exists \in BOOLEAN /\ torn \in BOOLEAN
  /\ lines \in Seq(Line) /\ kept \in Seq(Line)
  /\ durable \in 0..Len(lines)
  /\ pc \in {"down", "create", "repair", "load", "up", "failed"}
  /\ values \subseteq Keys /\ acked \subseteq Keys
  /\ queue \in Seq(Keys)
  /\ appended \in BOOLEAN /\ broken \in BOOLEAN
  /\ appended => queue # <<>>
  /\ losses \in 0..MaxLosses

\* A put that resolved is never forgotten: every session that opens the
\* journal finds it ("every completed model work unit is fsynced before
\* put() resolves").
AcknowledgedSurvive == pc = "up" => acked \subseteq values

\* A key on stable storage stays there, however a session ends, until an
\* open finds the file torn and rewrites it.
StaysSecured == [][OpenTorn \/ Secured \subseteq Secured']_vars

\* Every session that has opened the journal answers for what is secured.
SecuredIsAnswered == pc = "up" => Secured \subseteq values

\* No key has two lines, however often and however concurrently it is put,
\* across failures and sessions.
OneLinePerKey ==
  \A i, j \in DOMAIN lines : lines[i] = lines[j] => i = j

\* A half-written line is only ever the last: no later line is joined to it,
\* which would make the whole journal unreadable.
TornOnlyAtEnd == \A i \in DOMAIN lines : lines[i] # "garbage"

=============================================================================
