----------------------------- MODULE HuntProofs -----------------------------
(***************************************************************************)
(* Proofs about the journal of the hunt application, for any symbols,      *)
(* faults, prices, distances and bounds.                                   *)
(*                                                                         *)
(* The file (HuntTracker): it and the copies are well typed, the archive   *)
(* takes a leg once and before a reader of the file sees it closed, and    *)
(* nothing in the file is erased; each but for the faults it names.        *)
(*                                                                         *)
(* One leg (HuntLevels): the stop never loosens, a runner's stop never     *)
(* sits in the loss zone, a poll never leaves a leg open beyond its stop,  *)
(* and an exit price that a level writes is one the market was at.  Its    *)
(* lemmas say what each operation on the leg returns: its type, the fields *)
(* it keeps, and why its stop is where it is.                              *)
(***************************************************************************)
EXTENDS HuntTracker, HuntLevels, TLAPS

-----------------------------------------------------------------------------
(* The operations on a dictionary.                                         *)

LEMMA FileParts ==
    ASSUME NEW f \in File
    PROVE  /\ f.signals \in [Keys -> Entry \union {None}] /\ f.history \subseteq Record
           /\ \A k \in Keys : f.signals[k] # None => f.signals[k] \in Entry
    BY DEF File

LEMMA OppositeIsKey == \A k \in Keys : Opposite(k) \in Keys
<1>. SUFFICES ASSUME NEW k \in Keys PROVE Opposite(k) \in Keys
    OBVIOUS
<1>1. \E d \in Directions : d # k[2]
    BY DEF Directions
<1>2. (CHOOSE d \in Directions : d # k[2]) \in Directions
    BY <1>1
<1>3. k[1] \in Symbols
    BY DEF Keys
<1> DEFINE o == CHOOSE d \in Directions : d # k[2]
<1>4. Opposite(k) = <<k[1], o>>
    BY DEF Opposite
<1> HIDE DEF o
<1>5. o \in Directions
    BY <1>2 DEF o
<1>. QED BY <1>3, <1>4, <1>5 DEF Keys

\* A record leaves the history only when the history is full.
KeepsRecords(old, new) == old \subseteq new \/ Cardinality(new) = MaxHistory

LEMMA TrimmedKeeps ==
    ASSUME NEW old, NEW new, NEW h \in Trimmed(old, new)
    PROVE  h \subseteq old \union new /\ KeepsRecords(old, h)
<1>1. CASE new = {} \/ Cardinality(old \union new) <= MaxHistory
    BY <1>1 DEF Trimmed, KeepsRecords
<1>2. CASE ~(new = {} \/ Cardinality(old \union new) <= MaxHistory)
  <2>1. Trimmed(old, new) = {r \in SUBSET (old \union new) :
            Cardinality(r) = MaxHistory /\ (new \subseteq r \/ r \subseteq new)}
    BY <1>2 DEF Trimmed
  <2>. QED BY <2>1 DEF KeepsRecords
<1>. QED BY <1>1, <1>2

LEMMA NewlyClosedAreLegs ==
    ASSUME NEW f \in File, NEW S
    PROVE  NewlyClosed(f, S) \subseteq Legs
<1>1. \A k \in S \intersect ActiveKeys(f) : k \in Keys /\ f.signals[k] \in Entry
    BY FileParts DEF ActiveKeys, IsActive
<1>. QED BY <1>1 DEF NewlyClosed, LegsAt, Entry

\* What closing the keys of S makes of dictionary f.
LEMMA ClosingParts ==
    ASSUME NEW f \in File, NEW S, NEW w \in Writers, NEW c \in Closings(f, S, w)
    PROVE  /\ c \in File
           /\ KeepsRecords(f.history, c.history)
           /\ \A r \in c.history : r \in f.history \/ r.leg \in NewlyClosed(f, S)
           /\ \A k \in Keys : c.signals[k] = IF k \in S \intersect ActiveKeys(f)
                                             THEN [f.signals[k] EXCEPT !.status = "closed"]
                                             ELSE f.signals[k]
           /\ \A k \in Keys : f.signals[k] # None => c.signals[k] # None
<1> DEFINE T == S \intersect ActiveKeys(f)
           sig == [k \in Keys |-> IF k \in T THEN [f.signals[k] EXCEPT !.status = "closed"]
                                  ELSE f.signals[k]]
           new == {[leg |-> g, by |-> w] : g \in NewlyClosed(f, S)}
<1>1. PICK h \in Trimmed(f.history, new) : c = [signals |-> sig, history |-> h]
    BY DEF Closings
<1>2. \A k \in T : k \in Keys /\ f.signals[k] \in Entry
    BY FileParts DEF ActiveKeys, IsActive
<1>3. \A k \in T : [f.signals[k] EXCEPT !.status = "closed"] \in Entry
    BY <1>2 DEF Entry
<1>4. sig \in [Keys -> Entry \union {None}]
    BY <1>3, FileParts
<1>5. \A k \in Keys : sig[k] = IF k \in T THEN [f.signals[k] EXCEPT !.status = "closed"]
                               ELSE f.signals[k]
    OBVIOUS
<1>6. \A k \in Keys : f.signals[k] # None => sig[k] # None
    BY <1>3, <1>5, NoneAssumption
<1>7. new \subseteq Record /\ \A r \in new : r.leg \in NewlyClosed(f, S)
    BY NewlyClosedAreLegs DEF Record
<1> HIDE DEF sig, new
<1>8. h \subseteq f.history \union new /\ KeepsRecords(f.history, h)
    BY <1>1, TrimmedKeeps
<1>9. h \subseteq Record
    BY <1>7, <1>8, FileParts
<1>10. c \in File
    BY <1>1, <1>4, <1>9 DEF File
<1>. QED BY <1>1, <1>5, <1>6, <1>7, <1>8, <1>10

\* The archive a and the legs x whose append failed account for leg g.
Accounted(a, x, g) == a[g] > 0 \/ g \in x

\* They account for every leg a dictionary says is closed.
Archived(f, a, x) ==
    /\ \A k \in Keys : f.signals[k] # None /\ ~IsActive(f, k)
                         => Accounted(a, x, f.signals[k].leg)
    /\ \A r \in f.history : Accounted(a, x, r.leg)

\* The archive has at most one line about a leg no search has missed.
JournalOK ==
    /\ archive \in [Legs -> 0 .. 2]
    /\ astray \subseteq Legs
    /\ upsets \in 0 .. MaxUpsets
    /\ \A g \in Legs : archive[g] <= 1 \/ g \in astray

\* What any step may do to what accounts for the legs.
JournalGrows == \A g \in Legs : Accounted(archive, astray, g) => Accounted(archive', astray', g)

LEMMA AppendLinesGrows ==
    ASSUME JournalOK, NEW G, AppendLines(G)
    PROVE  /\ archive' \in [Legs -> 0 .. 2]
           /\ \A g \in Legs : archive[g] > 0 => archive'[g] = archive[g]
           /\ \A g \in Legs : archive[g] = 0 => archive'[g] = IF g \in G THEN 1 ELSE 0
           /\ \A g \in Legs : archive'[g] <= 1 \/ g \in astray
    BY DEF JournalOK, AppendLines

\* append_outcome_record accounts for the legs it is called for, and never takes
\* a line away.
LEMMA AppendGrows ==
    ASSUME JournalOK, NEW G \in SUBSET Legs, AppendOutcome(G)
    PROVE  JournalOK' /\ JournalGrows /\ \A g \in G : Accounted(archive', astray', g)
<1>1. CASE AppendLines(G) /\ UNCHANGED <<astray, upsets>>
    BY <1>1, AppendLinesGrows DEF JournalOK, JournalGrows, Accounted
<1>2. ASSUME NEW lost \in SUBSET G, Upset("append_fails"),
             AppendLines(G \ lost), astray' = astray \union lost
      PROVE  JournalOK' /\ JournalGrows /\ \A g \in G : Accounted(archive', astray', g)
  <2>1. /\ archive' \in [Legs -> 0 .. 2]
        /\ \A g \in Legs : archive[g] > 0 => archive'[g] = archive[g]
        /\ \A g \in Legs : archive[g] = 0 => archive'[g] = IF g \in G \ lost THEN 1 ELSE 0
        /\ \A g \in Legs : archive'[g] <= 1 \/ g \in astray
    BY <1>2, AppendLinesGrows
  <2>2. upsets' \in 0 .. MaxUpsets
    BY <1>2, BoundsAssumption DEF Upset, JournalOK
  <2>3. \A g \in Legs : archive[g] \in 0 .. 2
    BY DEF JournalOK
  <2>. QED BY <1>2, <2>1, <2>2, <2>3 DEF JournalOK, JournalGrows, Accounted
<1>3. ASSUME NEW missed \in SUBSET {g \in G : archive[g] > 0}, Upset("search_fails"),
             archive' = [g \in Legs |->
                 IF g \in missed \/ (g \in G /\ archive[g] = 0) THEN Bump(archive[g])
                 ELSE archive[g]],
             astray' = astray \union missed
      PROVE  JournalOK' /\ JournalGrows /\ \A g \in G : Accounted(archive', astray', g)
  <2>1. \A n \in 0 .. 2 : Bump(n) \in 1 .. 2 /\ (n = 0 => Bump(n) = 1)
    BY DEF Bump
  <2>2. \A g \in Legs : archive[g] \in 0 .. 2
    BY DEF JournalOK
  <2>3. upsets' \in 0 .. MaxUpsets
    BY <1>3, BoundsAssumption DEF Upset, JournalOK
  <2>4. \A g \in Legs : archive'[g] = IF g \in missed \/ (g \in G /\ archive[g] = 0)
                                      THEN Bump(archive[g]) ELSE archive[g]
    BY <1>3
  <2>5. archive' \in [Legs -> 0 .. 2]
    BY <1>3, <2>1, <2>2
  <2>6. \A g \in Legs : archive'[g] <= 1 \/ g \in astray'
    BY <1>3, <2>1, <2>2, <2>4 DEF JournalOK
  <2>7. \A g \in Legs : archive[g] > 0 \/ g \in G => archive'[g] > 0
    BY <2>1, <2>2, <2>4
  <2>. QED BY <1>3, <2>3, <2>5, <2>6, <2>7 DEF JournalOK, JournalGrows, Accounted
<1>. QED BY <1>1, <1>2, <1>3 DEF AppendOutcome

\* A dictionary whose closes are accounted for keeps that while the journal grows.
LEMMA ArchivedGrows ==
    ASSUME NEW f \in File, JournalGrows, Archived(f, archive, astray)
    PROVE  Archived(f, archive', astray')
<1>1. \A k \in Keys : f.signals[k] # None => f.signals[k].leg \in Legs
    BY FileParts DEF Entry
<1>2. \A r \in f.history : r.leg \in Legs
    BY FileParts DEF Record
<1>. QED BY <1>1, <1>2 DEF Archived, JournalGrows

\* The legs that are closed in the dictionary are accounted for by then.
LEMMA ClosedArchived ==
    ASSUME NEW f \in File, NEW S, NEW w \in Writers, NEW c \in Closings(f, S, w),
           Archived(f, archive, astray), JournalGrows,
           \A g \in NewlyClosed(f, S) : Accounted(archive', astray', g)
    PROVE  Archived(c, archive', astray')
<1> DEFINE T == S \intersect ActiveKeys(f)
<1>1. \A k \in T : k \in Keys /\ f.signals[k] \in Entry
    BY FileParts DEF ActiveKeys, IsActive
<1>2. LegsAt(f, T) \subseteq Legs
    BY <1>1 DEF LegsAt, Entry
<1>3. \A g \in LegsAt(f, T) : Accounted(archive', astray', g)
  <2>1. ASSUME NEW g \in LegsAt(f, T), InHistory(f, g) PROVE Accounted(archive, astray, g)
    BY <2>1 DEF InHistory, Archived
  <2>. QED BY <1>2, <2>1 DEF NewlyClosed, JournalGrows
<1>4. Archived(f, archive', astray')
    BY ArchivedGrows
<1>5. /\ \A r \in c.history : r \in f.history \/ r.leg \in NewlyClosed(f, S)
      /\ \A k \in Keys : c.signals[k] = IF k \in T THEN [f.signals[k] EXCEPT !.status = "closed"]
                                        ELSE f.signals[k]
    BY ClosingParts
<1>6. \A k \in Keys : k \in T => c.signals[k].leg \in LegsAt(f, T)
  <2>1. \A k \in T : [f.signals[k] EXCEPT !.status = "closed"].leg = f.signals[k].leg
    BY <1>1 DEF Entry
  <2>. QED BY <1>5, <2>1 DEF LegsAt
<1>7. \A k \in Keys : k \notin T => (IsActive(c, k) <=> IsActive(f, k))
    BY <1>5 DEF IsActive
<1>. HIDE DEF T
<1>. QED BY <1>3, <1>4, <1>5, <1>6, <1>7 DEF Archived

\* Registration closes the opposite leg and replaces the key.
LEMMA RegisteredKeeps ==
    ASSUME NEW f \in File, NEW k \in Keys, NEW w \in Writers, NEW e \in Registrations(f, k, w),
           registered \in 0 .. MaxLegs, registered < MaxLegs, Archived(f, archive, astray),
           JournalGrows,
           \A g \in NewlyClosed(f, {Opposite(k)}) : Accounted(archive', astray', g)
    PROVE  /\ e \in File
           /\ KeepsRecords(f.history, e.history)
           /\ \A j \in Keys : f.signals[j] # None => e.signals[j] # None
           /\ Archived(e, archive', astray')
<1> DEFINE n == [leg |-> registered + 1, status |-> "active"]
<1>1. PICK c \in Closings(f, {Opposite(k)}, w) : e = [c EXCEPT !.signals[k] = n]
    BY DEF Registrations
<1>2. n \in Entry /\ n.status = "active"
    BY BoundsAssumption DEF Entry, Legs
<1>3. /\ c \in File /\ KeepsRecords(f.history, c.history)
      /\ \A j \in Keys : f.signals[j] # None => c.signals[j] # None
    BY ClosingParts
<1>4. Archived(c, archive', astray')
    BY ClosedArchived
<1> HIDE DEF n
<1>5. /\ c.signals \in [Keys -> Entry \union {None}] /\ c.history \subseteq Record
      /\ c = [signals |-> c.signals, history |-> c.history]
    BY <1>3 DEF File
<1>6. /\ e.signals = [c.signals EXCEPT ![k] = n]
      /\ e.history = c.history
      /\ e = [signals |-> [c.signals EXCEPT ![k] = n], history |-> c.history]
    BY <1>1, <1>5
<1>7. e \in File
    BY <1>2, <1>5, <1>6 DEF File
<1>8. \A j \in Keys : e.signals[j] = IF j = k THEN n ELSE c.signals[j]
    BY <1>5, <1>6
<1>9. Archived(e, archive', astray')
    BY <1>2, <1>4, <1>6, <1>8 DEF Archived, IsActive
<1>10. \A j \in Keys : f.signals[j] # None => e.signals[j] # None
    BY <1>2, <1>3, <1>8, NoneAssumption
<1>. QED BY <1>3, <1>6, <1>7, <1>9, <1>10

\* What a registration writes to the archive and the count of legs.
LEMMA RegisterLogged ==
    ASSUME JournalOK, NEW f \in File, NEW k \in Keys, registered \in 0 .. MaxLegs,
           RegisterLogs(f, k)
    PROVE  /\ JournalOK' /\ JournalGrows
           /\ \A g \in NewlyClosed(f, {Opposite(k)}) : Accounted(archive', astray', g)
           /\ registered < MaxLegs /\ registered' \in 0 .. MaxLegs
<1>1. NewlyClosed(f, {Opposite(k)}) \in SUBSET Legs
    BY NewlyClosedAreLegs
<1>2. registered < MaxLegs /\ registered' \in 0 .. MaxLegs
    BY BoundsAssumption DEF RegisterLogs
<1>. QED BY <1>1, <1>2, AppendGrows DEF RegisterLogs

\* What either side of a merge has, the merge has.
LEMMA MergeKeeps ==
    ASSUME NEW d \in File, NEW b \in File
    PROVE  /\ Merge(d, b) \in File
           /\ d.history \subseteq Merge(d, b).history
           /\ \A k \in Keys : d.signals[k] # None => Merge(d, b).signals[k] # None
           /\ \A a, x : Archived(d, a, x) /\ Archived(b, a, x) => Archived(Merge(d, b), a, x)
<1>1. Merge(d, b) \in File
    BY FileParts DEF Merge, File
<1>2. \A k \in Keys : Merge(d, b).signals[k] = IF b.signals[k] # None THEN b.signals[k]
                                               ELSE d.signals[k]
    BY DEF Merge
<1>3. Merge(d, b).history = d.history \union b.history
    BY DEF Merge
<1>. QED BY <1>1, <1>2, <1>3 DEF Archived, IsActive

-----------------------------------------------------------------------------
(* The steps of the writers.                                               *)

HuntInv ==
    /\ TypeOK
    /\ JournalOK
    /\ Archived(file, archive, astray)
    /\ \A l \in Loops : copy[l] # None => Archived(copy[l], archive, astray)

\* What any step but those of Erases may do to the file.
Grows == /\ \A k \in Keys : file.signals[k] # None => file'.signals[k] # None
         /\ KeepsRecords(file.history, file'.history)

LEMMA GrowsUnchanged == file' = file => Grows
    BY DEF Grows, KeepsRecords

LEMMA NoFileIsEmpty == NoFile \in File /\ \A a, x : Archived(NoFile, a, x)
    BY DEF NoFile, File, Archived

\* A loop that is not idle has a copy.
LEMMA CopyIsFile ==
    ASSUME HuntInv, NEW l \in Loops, pc[l] # "idle"
    PROVE  copy[l] \in File /\ Archived(copy[l], archive, astray)
    BY DEF HuntInv, TypeOK

\* The journal grows, and the copies that stay are accounted for.
LEMMA CopiesStay ==
    ASSUME HuntInv, JournalGrows
    PROVE  \A m \in Loops : copy[m] # None => Archived(copy[m], archive', astray')
<1>1. \A m \in Loops : copy[m] # None => copy[m] \in File /\ Archived(copy[m], archive, astray)
    BY DEF HuntInv, TypeOK
<1>. QED BY <1>1, ArchivedGrows

\* The journal grows, the file stays, a loop's copy is another one.
LEMMA CopyStep ==
    ASSUME HuntInv, NEW l \in Loops, NEW c \in File, JournalGrows,
           Archived(c, archive', astray'),
           copy' = [copy EXCEPT ![l] = c], UNCHANGED file
    PROVE  /\ Archived(file', archive', astray')
           /\ copy' \in [Loops -> File \union {None}]
           /\ \A m \in Loops : copy'[m] # None => Archived(copy'[m], archive', astray')
           /\ \A m \in Loops : copy'[m] = None <=> m # l /\ copy[m] = None
           /\ Grows
<1>1. /\ file \in File /\ Archived(file, archive, astray)
      /\ copy \in [Loops -> File \union {None}]
    BY DEF HuntInv, TypeOK
<1>2. Archived(file', archive', astray')
    BY <1>1, ArchivedGrows
<1>3. \A m \in Loops : copy'[m] = IF m = l THEN c ELSE copy[m]
    BY <1>1
<1>4. \A m \in Loops : copy'[m] # None => Archived(copy'[m], archive', astray')
    BY <1>3, CopiesStay
<1>5. copy' \in [Loops -> File \union {None}]
    BY <1>1
<1>6. \A m \in Loops : copy'[m] = None <=> m # l /\ copy[m] = None
    BY <1>3, NoneAssumption
<1>. QED BY <1>2, <1>4, <1>5, <1>6, GrowsUnchanged

\* A loop leaves; the file is another one.
LEMMA LeaveStep ==
    ASSUME HuntInv, NEW l \in Loops, pc[l] # "idle", pc[l] # "sending", Leave(l),
           file' \in File, Archived(file', archive, astray),
           UNCHANGED <<posting, archive, registered, scans, aged, listed, astray>>,
           upsets' \in 0 .. MaxUpsets, todo' \subseteq Symbols
    PROVE  HuntInv'
<1>1. /\ \A m \in Loops : copy'[m] = IF m = l THEN None ELSE copy[m]
      /\ \A m \in Loops : pc'[m] = IF m = l THEN "idle" ELSE pc[m]
      /\ copy' \in [Loops -> File \union {None}]
      /\ pc' \in [Loops -> {"idle", "symbols", "resolved", "sending"}]
    BY DEF Leave, HuntInv, TypeOK
<1>2. \A m \in Loops : copy'[m] # None => Archived(copy'[m], archive', astray')
    BY <1>1 DEF HuntInv
<1>3. "scan" \in Loops /\ "tick" \in Loops
    BY DEF Loops
<1>4. TypeOK'
    BY <1>1, <1>3 DEF HuntInv, TypeOK
<1>5. JournalOK'
    BY DEF HuntInv, JournalOK
<1>. QED BY <1>2, <1>4, <1>5 DEF HuntInv

\* A loop writes its copy back and leaves it.
LEMMA FlushStep ==
    ASSUME HuntInv, NEW l \in Loops, pc[l] # "idle", pc[l] # "sending",
           Flush(l), Leave(l),
           UNCHANGED <<posting, archive, registered, scans, aged, listed, astray, upsets>>,
           todo' \subseteq Symbols
    PROVE  HuntInv' /\ Grows
<1>1. copy[l] \in File /\ Archived(copy[l], archive, astray)
    BY CopyIsFile
<1>2. file \in File /\ Archived(file, archive, astray) /\ upsets' \in 0 .. MaxUpsets
    BY DEF HuntInv, TypeOK
<1>3. file' \in File /\ Grows /\ Archived(file', archive, astray)
    BY <1>1, <1>2, MergeKeeps DEF Flush, Grows, KeepsRecords
<1>. QED BY <1>2, <1>3, LeaveStep

\* A loop loads the file, or nothing when it cannot be read.
LEMMA LoadStep ==
    ASSUME HuntInv, NEW l \in Loops, Load(l), UNCHANGED <<file, archive, astray>>
    PROVE  /\ copy' \in [Loops -> File \union {None}]
           /\ \A m \in Loops : copy'[m] # None => Archived(copy'[m], archive', astray')
           /\ \A m \in Loops : copy'[m] = None <=> m # l /\ copy[m] = None
           /\ Archived(file', archive', astray') /\ Grows
           /\ JournalOK' /\ upsets' \in 0 .. MaxUpsets
<1>1. PICK c \in {file, NoFile} : copy' = [copy EXCEPT ![l] = c]
    BY DEF Load
<1>2. c \in File /\ Archived(c, archive', astray') /\ JournalGrows
    BY <1>1, NoFileIsEmpty DEF HuntInv, TypeOK, JournalGrows
<1>3. upsets' \in 0 .. MaxUpsets
    BY BoundsAssumption DEF Load, Upset, HuntInv, TypeOK
<1>4. JournalOK'
    BY <1>3 DEF HuntInv, JournalOK
<1>. QED BY <1>1, <1>2, <1>3, <1>4, CopyStep

LEMMA HuntTick ==
    ASSUME HuntInv, Tick
    PROVE  HuntInv' /\ Grows
<1>1. "tick" \in Loops /\ "scan" \in Loops /\ "tick" \in Writers
    BY DEF Loops, Writers
<1>2. TypeOK /\ JournalOK
    BY DEF HuntInv
<1>3. CASE TickStart
  <2>1. /\ copy' \in [Loops -> File \union {None}]
        /\ \A m \in Loops : copy'[m] # None => Archived(copy'[m], archive', astray')
        /\ \A m \in Loops : copy'[m] = None <=> m # "tick" /\ copy[m] = None
        /\ Archived(file', archive', astray') /\ Grows
        /\ JournalOK' /\ upsets' \in 0 .. MaxUpsets
    BY <1>1, <1>3, LoadStep DEF TickStart
  <2>2. TypeOK'
    BY <1>1, <1>2, <1>3, <2>1 DEF TypeOK, TickStart
  <2>. QED BY <2>1, <2>2 DEF HuntInv
<1>4. ASSUME NEW S, NEW c \in Closings(copy["tick"], S, "tick"),
             copy' = [copy EXCEPT !["tick"] = c],
             AppendOutcome(NewlyClosed(copy["tick"], S)), pc["tick"] = "symbols",
             pc' = pc \/ pc' = [pc EXCEPT !["tick"] = "resolved"],
             UNCHANGED <<file, todo, posting, registered, scans, aged, listed>>
      PROVE  HuntInv' /\ Grows
  <2>1. copy["tick"] \in File /\ Archived(copy["tick"], archive, astray)
    BY <1>1, <1>4, CopyIsFile
  <2>2. c \in File
    BY <1>1, <1>4, <2>1, ClosingParts
  <2>3. NewlyClosed(copy["tick"], S) \in SUBSET Legs
    BY <2>1, NewlyClosedAreLegs
  <2>4. /\ JournalOK' /\ JournalGrows
        /\ \A g \in NewlyClosed(copy["tick"], S) : Accounted(archive', astray', g)
    BY <1>2, <1>4, <2>3, AppendGrows
  <2>5. Archived(c, archive', astray')
    BY <1>1, <1>4, <2>1, <2>4, ClosedArchived
  <2>6. /\ copy' \in [Loops -> File \union {None}]
        /\ \A m \in Loops : copy'[m] # None => Archived(copy'[m], archive', astray')
        /\ \A m \in Loops : copy'[m] = None <=> m # "tick" /\ copy[m] = None
        /\ Archived(file', archive', astray') /\ Grows
    BY <1>1, <1>4, <2>2, <2>4, <2>5, CopyStep
  <2>7. TypeOK'
    BY <1>1, <1>2, <1>4, <2>4, <2>6 DEF TypeOK, JournalOK
  <2>. QED BY <2>4, <2>6, <2>7 DEF HuntInv
<1>5. ASSUME NEW k \in Keys, TickClose(k) PROVE HuntInv' /\ Grows
  <2>1. PICK c \in Closings(copy["tick"], {k}, "tick") : copy' = [copy EXCEPT !["tick"] = c]
    BY <1>5 DEF TickClose
  <2>. QED BY <1>4, <1>5, <2>1 DEF TickClose
<1>6. ASSUME NEW quoted, AutoResolve(quoted) PROVE HuntInv' /\ Grows
  <2>1. PICK S \in SUBSET {k \in ActiveKeys(copy["tick"]) : k[1] \in quoted} :
            /\ \E c \in Closings(copy["tick"], S, "tick") : copy' = [copy EXCEPT !["tick"] = c]
            /\ AppendOutcome(NewlyClosed(copy["tick"], S))
    BY <1>6 DEF AutoResolve
  <2>2. PICK c \in Closings(copy["tick"], S, "tick") : copy' = [copy EXCEPT !["tick"] = c]
    BY <2>1
  <2>. QED BY <1>4, <1>6, <2>1, <2>2 DEF AutoResolve
<1>7. CASE TickEnd
    BY <1>1, <1>2, <1>7, FlushStep DEF TickEnd, TypeOK
<1>8. CASE TickFails
    BY <1>1, <1>2, <1>8, FlushStep DEF TickFails, TypeOK
<1>. QED BY <1>3, <1>5, <1>6, <1>7, <1>8 DEF Tick

LEMMA HuntScan ==
    ASSUME HuntInv, Scan
    PROVE  HuntInv' /\ Grows
<1>1. "tick" \in Loops /\ "scan" \in Loops /\ "scan" \in Writers
    BY DEF Loops, Writers
<1>2. TypeOK /\ JournalOK
    BY DEF HuntInv
<1>3. CASE ScanStart
  <2>1. /\ copy' \in [Loops -> File \union {None}]
        /\ \A m \in Loops : copy'[m] # None => Archived(copy'[m], archive', astray')
        /\ \A m \in Loops : copy'[m] = None <=> m # "scan" /\ copy[m] = None
        /\ Archived(file', archive', astray') /\ Grows
        /\ JournalOK' /\ upsets' \in 0 .. MaxUpsets
    BY <1>1, <1>3, LoadStep DEF ScanStart
  <2>2. scans' \in 0 .. MaxScans
    BY <1>2, <1>3, BoundsAssumption DEF ScanStart, TypeOK
  <2>3. TypeOK'
    BY <1>1, <1>2, <1>3, <2>1, <2>2 DEF TypeOK, ScanStart
  <2>. QED BY <2>1, <2>3 DEF HuntInv
<1>4. ASSUME NEW k \in Keys, ScanPost(k) PROVE HuntInv' /\ Grows
  <2>1. TypeOK'
    BY <1>1, <1>2, <1>4, NoneAssumption DEF ScanPost, TypeOK
  <2>2. JournalOK'
    BY <1>2, <1>4 DEF ScanPost, JournalOK
  <2>. QED BY <1>4, <2>1, <2>2, GrowsUnchanged DEF HuntInv, ScanPost
<1>5. CASE ScanRegister
  <2>1. copy["scan"] \in File /\ Archived(copy["scan"], archive, astray)
    BY <1>1, <1>5, CopyIsFile DEF ScanRegister
  <2>2. posting \in Keys /\ registered \in 0 .. MaxLegs
    BY <1>1, <1>2, <1>5 DEF ScanRegister, TypeOK
  <2>3. /\ JournalOK' /\ JournalGrows
        /\ \A g \in NewlyClosed(copy["scan"], {Opposite(posting)}) :
              Accounted(archive', astray', g)
        /\ registered < MaxLegs /\ registered' \in 0 .. MaxLegs
    BY <1>2, <1>5, <2>1, <2>2, RegisterLogged DEF ScanRegister
  <2>4. PICK c \in Registrations(copy["scan"], posting, "scan") :
            copy' = [copy EXCEPT !["scan"] = c]
    BY <1>5 DEF ScanRegister
  <2>5. c \in File /\ Archived(c, archive', astray')
    BY <1>1, <2>1, <2>2, <2>3, <2>4, RegisteredKeeps
  <2>6. /\ copy' \in [Loops -> File \union {None}]
        /\ \A m \in Loops : copy'[m] # None => Archived(copy'[m], archive', astray')
        /\ \A m \in Loops : copy'[m] = None <=> m # "scan" /\ copy[m] = None
        /\ Archived(file', archive', astray') /\ Grows
    BY <1>1, <1>5, <2>3, <2>4, <2>5, CopyStep DEF ScanRegister
  <2>7. TypeOK'
    BY <1>1, <1>2, <1>5, <2>3, <2>6 DEF TypeOK, JournalOK, ScanRegister
  <2>. QED BY <2>3, <2>6, <2>7 DEF HuntInv
<1>6. CASE ScanSkip
  <2>1. TypeOK'
    BY <1>1, <1>2, <1>6 DEF ScanSkip, TypeOK
  <2>2. JournalOK'
    BY <1>2, <1>6 DEF ScanSkip, JournalOK
  <2>. QED BY <1>6, <2>1, <2>2, GrowsUnchanged DEF HuntInv, ScanSkip
<1>7. CASE ScanEnd
    BY <1>1, <1>2, <1>7, FlushStep DEF ScanEnd, TypeOK
<1>8. CASE ScanFails
  <2>1. file' \in File /\ Archived(file', archive, astray) /\ upsets' \in 0 .. MaxUpsets
    BY <1>2, <1>8 DEF ScanFails, HuntInv, TypeOK
  <2>2. HuntInv'
    BY <1>1, <1>8, <2>1, LeaveStep DEF ScanFails
  <2>. QED BY <1>8, <2>2, GrowsUnchanged DEF ScanFails
<1>. QED BY <1>3, <1>4, <1>5, <1>6, <1>7, <1>8 DEF Scan

\* The process stops; the file is another one.
LEMMA StopStep ==
    ASSUME HuntInv, Stop, file' \in File, Archived(file', archive', astray'),
           JournalOK', registered' \in 0 .. MaxLegs
    PROVE  HuntInv'
<1>1. TypeOK'
    BY DEF HuntInv, TypeOK, JournalOK, Stop, Loops
<1>2. \A l \in Loops : copy'[l] = None
    BY DEF Stop
<1>. QED BY <1>1, <1>2 DEF HuntInv

\* A registration in the file, or in what is left when it cannot be read.
LEMMA DeepStep ==
    ASSUME HuntInv, JournalOK', JournalGrows, registered' \in 0 .. MaxLegs,
           file' \in File, Archived(file', archive', astray'),
           UNCHANGED <<copy, pc, todo, posting, scans, aged, listed>>
    PROVE  HuntInv'
<1>1. \A m \in Loops : copy'[m] # None => Archived(copy'[m], archive', astray')
    BY CopiesStay
<1>2. TypeOK'
    BY DEF HuntInv, TypeOK, JournalOK
<1>. QED BY <1>1, <1>2 DEF HuntInv

\* What the crash or the unreadable file of Erases leaves is accounted for.
LEMMA HuntErases == HuntInv /\ Erases => HuntInv'
<1>. SUFFICES ASSUME HuntInv, Erases PROVE HuntInv'
    OBVIOUS
<1>1. /\ TypeOK /\ JournalOK /\ file \in File
      /\ registered \in 0 .. MaxLegs /\ todo \subseteq Symbols
    BY DEF HuntInv, TypeOK
<1>2. \A u : Upset(u) => upsets' \in 0 .. MaxUpsets
    BY <1>1, BoundsAssumption DEF Upset, TypeOK
<1>3. ASSUME NEW l \in Loops, TornFlush(l) PROVE HuntInv'
  <2>1. JournalOK' /\ registered' \in 0 .. MaxLegs
    BY <1>1, <1>2, <1>3 DEF TornFlush, JournalOK
  <2>. QED BY <1>3, <2>1, NoFileIsEmpty, StopStep DEF TornFlush
<1>4. ASSUME NEW l \in Loops, FlushUnread(l) PROVE HuntInv'
  <2>1. pc[l] # "idle" /\ pc[l] # "sending"
    BY <1>4 DEF FlushUnread, Flushing
  <2>2. file' \in File /\ Archived(file', archive, astray)
    BY <1>4, <2>1, CopyIsFile DEF FlushUnread
  <2>3. todo' \subseteq Symbols /\ upsets' \in 0 .. MaxUpsets
    BY <1>1, <1>2, <1>4 DEF FlushUnread
  <2>. QED BY <1>4, <2>1, <2>2, <2>3, LeaveStep DEF FlushUnread
<1>5. ASSUME NEW k \in Keys, TornRegister(k) PROVE HuntInv'
  <2> DEFINE G == NewlyClosed(file, {Opposite(k)})
  <2>1. AppendLines(G) /\ UNCHANGED astray /\ upsets' \in 0 .. MaxUpsets
    BY <1>2, <1>5 DEF TornRegister
  <2> HIDE DEF G
  <2>2. JournalOK'
    BY <1>1, <2>1, AppendLinesGrows DEF JournalOK
  <2>3. registered' \in 0 .. MaxLegs
    BY <1>1, <1>5, BoundsAssumption DEF TornRegister
  <2>. QED BY <1>5, <2>2, <2>3, NoFileIsEmpty, StopStep DEF TornRegister
<1>6. ASSUME NEW k \in Keys, RegisterUnread(k) PROVE HuntInv'
  <2>1. JournalOK' /\ JournalGrows
    BY <1>1, <1>2, <1>6 DEF RegisterUnread, JournalOK, JournalGrows
  <2>2. registered < MaxLegs /\ registered' \in 0 .. MaxLegs /\ "deep" \in Writers
    BY <1>1, <1>6, BoundsAssumption DEF RegisterUnread, Writers
  <2>3. NewlyClosed(NoFile, {Opposite(k)}) = {}
    BY DEF NewlyClosed, LegsAt, ActiveKeys, IsActive, NoFile
  <2>4. file' \in Registrations(NoFile, k, "deep")
    BY <1>6 DEF RegisterUnread
  <2>5. file' \in File /\ Archived(file', archive', astray')
    BY <1>1, <2>1, <2>2, <2>3, <2>4, NoFileIsEmpty, RegisteredKeeps
  <2>. QED BY <1>6, <2>1, <2>2, <2>5, DeepStep DEF RegisterUnread
<1>. QED BY <1>3, <1>4, <1>5, <1>6 DEF Erases

LEMMA HuntNext == HuntInv /\ [Next]_vars => HuntInv' /\ (Grows \/ Erases)
<1>. SUFFICES ASSUME HuntInv, [Next]_vars, ~Erases PROVE HuntInv' /\ Grows
    BY HuntErases
<1>1. /\ TypeOK /\ JournalOK /\ file \in File /\ Archived(file, archive, astray)
      /\ registered \in 0 .. MaxLegs
    BY DEF HuntInv, TypeOK
<1>2. ASSUME NEW k \in Keys, DeepRegister(k) PROVE HuntInv' /\ Grows
  <2>1. "deep" \in Writers /\ file' \in Registrations(file, k, "deep")
    BY <1>2 DEF Writers, DeepRegister
  <2>2. /\ JournalOK' /\ JournalGrows
        /\ \A g \in NewlyClosed(file, {Opposite(k)}) : Accounted(archive', astray', g)
        /\ registered < MaxLegs /\ registered' \in 0 .. MaxLegs
    BY <1>1, <1>2, RegisterLogged DEF DeepRegister
  <2>3. file' \in File /\ Grows /\ Archived(file', archive', astray')
    BY <1>1, <2>1, <2>2, RegisteredKeeps DEF Grows
  <2>. QED BY <1>2, <2>2, <2>3, DeepStep DEF DeepRegister
<1>3. CASE Age
  <2>1. TypeOK' /\ JournalOK'
    BY <1>1, <1>3, BoundsAssumption DEF TypeOK, JournalOK, Age
  <2>. QED BY <1>3, <2>1, GrowsUnchanged DEF HuntInv, Age
<1>4. ASSUME NEW y \in Symbols, Delist(y) PROVE HuntInv' /\ Grows
  <2>1. upsets' \in 0 .. MaxUpsets
    BY <1>1, <1>4, BoundsAssumption DEF TypeOK, Delist, Upset
  <2>2. TypeOK' /\ JournalOK'
    BY <1>1, <1>4, <2>1 DEF TypeOK, JournalOK, Delist
  <2>. QED BY <1>4, <2>2, GrowsUnchanged DEF HuntInv, Delist
<1>5. CASE Crash
  <2>1. upsets' \in 0 .. MaxUpsets
    BY <1>1, <1>5, BoundsAssumption DEF TypeOK, Crash, Upset
  <2>2. JournalOK' /\ registered' \in 0 .. MaxLegs
    BY <1>1, <1>5, <2>1 DEF JournalOK, Crash
  <2>. QED BY <1>1, <1>5, <2>2, GrowsUnchanged, StopStep DEF Crash
<1>6. CASE UNCHANGED vars
  <2>1. TypeOK' /\ JournalOK'
    BY <1>1, <1>6 DEF TypeOK, JournalOK, vars
  <2>. QED BY <1>6, <2>1, GrowsUnchanged DEF HuntInv, vars
<1>. QED BY <1>2, <1>3, <1>4, <1>5, <1>6, HuntTick, HuntScan DEF Next

LEMMA HuntInit == Init => HuntInv
<1>. SUFFICES ASSUME Init PROVE HuntInv
    OBVIOUS
<1>1. file \in File /\ Archived(file, archive, astray)
    BY NoFileIsEmpty DEF Init
<1>2. JournalOK
    BY BoundsAssumption DEF Init, JournalOK
<1>3. TypeOK
    BY <1>1, BoundsAssumption DEF Init, TypeOK, Loops
<1>. QED BY <1>1, <1>2, <1>3 DEF HuntInv, Init

\* Well typed, and signal_history.jsonl has at most one line about a leg, although
\* two writers may close it in their copies, or one of them again after a crash,
\* and records leave the history; but for legs whose line a search has missed.
THEOREM ArchiveTakesALegOnce == Spec => []ArchivedOnce
<1>1. HuntInv => ArchivedOnce
    BY DEF HuntInv, JournalOK, ArchivedOnce
<1>2. HuntInv /\ [Next]_vars => HuntInv'
    BY HuntNext
<1>. QED BY <1>1, <1>2, HuntInit, PTL DEF Spec

\* Every close a reader of the file can see has its line in the archive, or is
\* that of a leg whose append failed.
THEOREM ArchivedBeforeSeen == Spec => []ClosedIsArchived
<1>1. HuntInv => ClosedIsArchived
    BY DEF HuntInv, Archived, Accounted, ClosedIsArchived
<1>2. HuntInv /\ [Next]_vars => HuntInv'
    BY HuntNext
<1>. QED BY <1>1, <1>2, HuntInit, PTL DEF Spec

\* No flush of a stale copy, registration or crash takes a key out of the file, or
\* a record out of its closed history but for one that fills it up; a write that
\* is cut short and a rewrite of a file that cannot be read are the exceptions.
THEOREM FileOnlyGrows == Spec => NothingErased
<1>1. HuntInv /\ [Next]_vars => HuntInv'
    BY HuntNext
<1>2. HuntInv /\ [Next]_vars => Grows \/ Erases
    BY HuntNext
<1>3. Spec => [][Grows \/ Erases]_vars
    BY <1>1, <1>2, HuntInit, PTL DEF Spec
<1>4. Grows \/ Erases <=> \/ Erases
                          \/ /\ \A k \in Keys : file.signals[k] # None => file'.signals[k] # None
                             /\ \/ file.history \subseteq file'.history
                                \/ Cardinality(file'.history) = MaxHistory
    BY DEF Grows, KeepsRecords
<1>. QED BY <1>3, <1>4, PTL DEF NothingErased

-----------------------------------------------------------------------------
(* One leg and its levels.                                                 *)

\* What managing TP1 promises of a leg, open or closed.
RunnerOK(l) == l.tp1_managed => l.stop >= Mid

\* An operation turns leg l into m without loosening its stop, and without
\* making m a runner in the loss zone.
Keeps(l, m) ==
    /\ m \in Leg
    /\ m.stop >= l.stop
    /\ RunnerOK(l) => RunnerOK(m)

\* Nothing but the type is needed of a leg that is neither open nor closed.
Whole(l) == l \in Leg /\ (l.phase = "closed" <=> l.reason # NotClosed)

-----------------------------------------------------------------------------
(* Ranges and points                                                       *)

\* Joining two ranges gives the least range around both.
LEMMA JoinIsAround ==
  ASSUME NEW r \in Span, NEW q \in Span
  PROVE  /\ Join(r, q) \in Span
         /\ Join(r, q).hi \in {r.hi, q.hi} /\ Join(r, q).hi >= r.hi /\ Join(r, q).hi >= q.hi
         /\ Join(r, q).lo \in {r.lo, q.lo} /\ Join(r, q).lo <= r.lo /\ Join(r, q).lo <= q.lo
  BY DEF Join, Span, Higher, Lower

\* A price alone is a range.
LEMMA AtIsSpan ==
  ASSUME NEW p \in Int
  PROVE  At(p) \in Span /\ At(p).hi = p /\ At(p).lo = p
  BY DEF At, Span

\* The middle of the zone is a price.
LEMMA MidIsInt == Mid \in Int
<1>1. EntryLo \in Int /\ EntryHi \in Int
  BY LevelsAssumption
<1> QED
  BY <1>1 DEF Mid

\* The middle of the zone is not beyond the entry plus half the way to TP1.
LEMMA LockBeyondMid ==
  ASSUME NEW b \in Tp1Bufs
  PROVE  /\ Mid \in Int
         /\ Tp1Lock(b) \in Int
         /\ EntryLo + Tp1Lock(b) >= Mid
         /\ EntryLo + Tp1Lock(b) <= TP1
<1>1. /\ EntryLo \in Int /\ EntryHi \in Int /\ TP1 \in Int /\ b \in Int
      /\ EntryLo <= EntryHi /\ EntryHi <= TP1 /\ 0 <= b /\ b <= TP1 - EntryLo
  BY LevelsAssumption
<1>2. /\ (EntryLo + EntryHi) \div 2 \in Int
      /\ 2 * ((EntryLo + EntryHi) \div 2) <= EntryLo + EntryHi
  BY <1>1
<1>3. /\ (TP1 - EntryLo) \div 2 \in Int
      /\ TP1 - EntryLo - 1 <= 2 * ((TP1 - EntryLo) \div 2)
      /\ 2 * ((TP1 - EntryLo) \div 2) <= TP1 - EntryLo
  BY <1>1
<1>4. EntryLo + (TP1 - EntryLo) \div 2 >= (EntryLo + EntryHi) \div 2
  BY <1>1, <1>2, <1>3
<1> QED
  BY <1>1, <1>2, <1>3, <1>4 DEF Mid, Tp1Lock, Higher

-----------------------------------------------------------------------------
(* Operations on the leg                                                   *)

\* A leg's best excursion is an amount.
LEMMA MfeType ==
  ASSUME NEW l \in Leg
  PROVE  Mfe(l) \in Int /\ Mfe(l) >= 0
  BY LevelsAssumption DEF Mfe, Leg, Span, Higher

\* A leg that is not closed has no reason of a close.
LEMMA NotClosedIsNoReason == NotClosed \notin Reasons
  BY DEF NotClosed, Reasons

\* Closing keeps the stop and the range.
LEMMA ClosedAtKeeps ==
  ASSUME NEW l \in Leg, NEW r \in Reasons, NEW x \in Int
  PROVE  /\ Keeps(l, ClosedAt(l, r, x)) /\ Whole(ClosedAt(l, r, x))
         /\ ClosedAt(l, r, x).ext = l.ext
         /\ ClosedAt(l, r, x).stop = l.stop
         /\ ClosedAt(l, r, x).reason = r /\ ClosedAt(l, r, x).exit = x
<1> DEFINE m == ClosedAt(l, r, x)
<1>1. r # NotClosed
  BY NotClosedIsNoReason
<1>2. m \in Leg
  BY DEF ClosedAt, Leg, Phases
<1>3. /\ m.ext = l.ext /\ m.stop = l.stop /\ m.tp1_managed = l.tp1_managed
      /\ m.reason = r /\ m.exit = x /\ m.phase = "closed"
  BY DEF ClosedAt, Leg
<1>4. m.stop >= l.stop
  BY <1>3 DEF Leg
<1> QED
  BY <1>1, <1>2, <1>3, <1>4 DEF Keeps, Whole, RunnerOK

\* A transition moves the phase of an open leg and nothing else.
LEMMA TransitionKeeps ==
  ASSUME NEW l \in Leg, l.phase # "closed", NEW to \in {"triggered", "tp1_managed"}
  PROVE  /\ Transition(l, to) \in Leg /\ Transition(l, to).phase # "closed"
         /\ \A f \in {"stop", "ext", "reason", "tp1_managed", "exit"} :
              Transition(l, to)[f] = l[f]
  BY DEF Transition, Leg, Phases

\* Early breakeven moves the stop up to a price the leg has run beyond.
LEMMA EarlyKeeps ==
  ASSUME NEW l \in Leg
  PROVE  LET m == EarlyBreakeven(l) IN
         /\ Keeps(l, m)
         /\ m.ext = l.ext /\ m.phase = l.phase /\ m.reason = l.reason
         /\ m.tp1_managed = l.tp1_managed /\ m.exit = l.exit
         /\ m.stop # l.stop => m.stop = EntryLo + EarlyBuf /\ Mfe(l) >= EarlyFrom
<1> DEFINE m == EarlyBreakeven(l)
           x == EntryLo + EarlyBuf
           moved == [l EXCEPT !.stop = x, !.be = TRUE]
<1>1. x \in Int
  BY LevelsAssumption
<1>2. CASE m = l
  BY <1>2 DEF Keeps, Leg
<1>3. CASE m = moved /\ Mfe(l) >= EarlyFrom /\ x > l.stop
  <2>1. moved \in Leg
    BY <1>1 DEF Leg
  <2>2. /\ moved.stop = x /\ moved.ext = l.ext /\ moved.phase = l.phase
        /\ moved.reason = l.reason /\ moved.tp1_managed = l.tp1_managed
        /\ moved.exit = l.exit
    BY DEF Leg
  <2>3. x >= l.stop /\ (RunnerOK(l) => RunnerOK(moved))
    BY <1>1, <1>3, <2>2, MidIsInt DEF RunnerOK, Leg
  <2> QED
    BY <1>3, <2>1, <2>2, <2>3 DEF Keeps
<1> QED
  BY <1>2, <1>3 DEF EarlyBreakeven

\* The trailing stop moves up and stays behind the best price.
LEMMA TrailedKeeps ==
  ASSUME NEW l \in Leg, NEW d \in TrailDists \union {RiskDist}
  PROVE  LET m == Trailed(l, d) IN
         /\ Keeps(l, m)
         /\ m.ext = l.ext /\ m.phase = l.phase /\ m.reason = l.reason
         /\ m.tp1_managed = l.tp1_managed /\ m.exit = l.exit
         /\ m.stop # l.stop => m.stop < l.ext.hi
<1> DEFINE m == Trailed(l, d)
           x == l.ext.hi - d
           moved == [l EXCEPT !.stop = x, !.trailing = TRUE, !.be = TRUE]
<1>1. d \in Int /\ d > 0 /\ MinRatchet \in Int /\ EntryLo \in Int
  <2>1. TrailDists \subseteq Nat \ {0} /\ RiskDist \in Nat \ {0}
    BY LevelsAssumption
  <2>2. MinRatchet \in Int /\ EntryLo \in Int
    BY LevelsAssumption
  <2>3. d \in Nat \ {0}
    BY <2>1
  <2> QED
    BY <2>2, <2>3
<1>2. Higher(MinRatchet, 1) \in Int /\ Higher(MinRatchet, 1) >= 1
  BY <1>1 DEF Higher
<1>3. l.ext.hi \in Int
  BY DEF Leg, Span
<1>4. x \in Int /\ x < l.ext.hi
  BY <1>1, <1>3
<1>5. CASE m = l
  BY <1>5 DEF Keeps, Leg
<1>6. CASE m = moved /\ x >= l.stop + Higher(MinRatchet, 1)
  <2>1. moved \in Leg
    BY <1>4 DEF Leg
  <2>2. /\ moved.stop = x /\ moved.ext = l.ext /\ moved.phase = l.phase
        /\ moved.reason = l.reason /\ moved.tp1_managed = l.tp1_managed
        /\ moved.exit = l.exit
    BY DEF Leg
  <2>3. x >= l.stop /\ (RunnerOK(l) => RunnerOK(moved))
    BY <1>2, <1>4, <1>6, <2>2, MidIsInt DEF RunnerOK, Leg
  <2> QED
    BY <1>4, <1>6, <2>1, <2>2, <2>3 DEF Keeps
<1> QED
  BY <1>5, <1>6 DEF Trailed

\* Managing TP1 makes a runner: its stop is beyond the middle of the zone, and
\* not beyond TP1 unless it was before.
LEMMA ManageKeeps ==
  ASSUME NEW l \in Leg, l.phase # "closed", NEW b \in Tp1Bufs
  PROVE  LET m == ManageTp1(l, b) IN
         /\ Keeps(l, m)
         /\ m.ext = l.ext /\ m.phase # "closed" /\ m.reason = l.reason /\ m.exit = l.exit
         /\ m.stop # l.stop => m.stop <= TP1
<1> DEFINE x == EntryLo + Tp1Lock(b)
           n == [l EXCEPT !.stop = Higher(@, x), !.be = TRUE,
                          !.tp1_hit = TRUE, !.tp1_managed = TRUE]
           m == ManageTp1(l, b)
<1>1. x \in Int /\ x >= Mid /\ x <= TP1
  BY LockBeyondMid, LevelsAssumption
<1>2. /\ Higher(l.stop, x) \in Int
      /\ Higher(l.stop, x) >= l.stop /\ Higher(l.stop, x) >= x
      /\ Higher(l.stop, x) \in {l.stop, x}
  BY <1>1 DEF Higher, Leg
<1>3. n \in Leg
  BY <1>2 DEF Leg
<1>4. /\ n.stop = Higher(l.stop, x) /\ n.ext = l.ext /\ n.phase = l.phase
      /\ n.reason = l.reason /\ n.exit = l.exit
  BY DEF Leg
<1>5. /\ m \in Leg /\ m.phase # "closed"
      /\ m.stop = n.stop /\ m.ext = n.ext /\ m.reason = n.reason /\ m.exit = n.exit
  <2>1. m = Transition(n, "tp1_managed")
    BY DEF ManageTp1
  <2> HIDE DEF n
  <2> QED
    BY <1>3, <1>4, <2>1, TransitionKeeps
<1>6. l.stop \in Int
  BY DEF Leg
<1>7. m.stop >= Mid /\ m.stop >= l.stop /\ (m.stop # l.stop => m.stop <= TP1)
  BY <1>1, <1>2, <1>4, <1>5, <1>6, MidIsInt
<1> QED
  BY <1>4, <1>5, <1>7 DEF Keeps, RunnerOK

\* The ways evaluate_levels can leave a leg.
Outcome(l, p, r, d, b, m) ==
    LET moved == Trailed(EarlyBreakeven(l), d) IN
    \/ \E reason \in {"orphan_expired", "time_stall", "timeout"} : m = ClosedAt(l, reason, p)
    \/ r.lo <= moved.stop /\ m = ClosedAt(moved, StopReason(moved), moved.stop)
    \/ r.hi >= TP2 /\ m = ClosedAt([moved EXCEPT !.tp1_hit = TRUE], "tp2", TP2)
    \/ r.hi >= TP1 /\ m = ManageTp1(moved, b)
    \/ m = moved

\* evaluate_levels ends in one of these ways: its branches leave nothing out.
LEMMA EvaluateOutcomes ==
  ASSUME NEW l \in Leg, NEW p \in Int, NEW r \in Span,
         NEW d \in TrailDists \union {RiskDist}, NEW b \in Tp1Bufs
  PROVE  Outcome(l, p, r, d, b, EvaluateLevels(l, p, r, d, b))
<1> DEFINE early == EarlyBreakeven(l)
           moved == Trailed(early, d)
           ratcheted == moved.stop # early.stop
<1>1. moved.stop \in Int /\ r.lo \in Int
  BY EarlyKeeps, TrailedKeeps DEF Keeps, Leg, Span
<1>2. \/ r.lo <= moved.stop /\ ~(ratcheted /\ moved.stop > EntryLo)
      \/ r.lo > moved.stop \/ ratcheted
  BY <1>1
<1> HIDE DEF moved, early
<1>3. EvaluateLevels(l, p, r, d, b) =
        CASE orphan -> ClosedAt(l, "orphan_expired", p)
          [] ~orphan /\ age = 2 /\ ~l.tp1_hit /\ Mfe(l) < StallMfe ->
                ClosedAt(l, "time_stall", p)
          [] ~orphan /\ age = 3 -> ClosedAt(l, "timeout", p)
          [] OTHER ->
                CASE r.lo <= moved.stop /\ ~(ratcheted /\ moved.stop > EntryLo) ->
                        ClosedAt(moved, StopReason(moved), moved.stop)
                  [] r.lo > moved.stop \/ ratcheted ->
                        IF r.hi >= TP2
                        THEN ClosedAt([moved EXCEPT !.tp1_hit = TRUE], "tp2", TP2)
                        ELSE IF r.hi >= TP1 /\ ~moved.tp1_hit
                        THEN ManageTp1(moved, b)
                        ELSE moved
  BY DEF EvaluateLevels, moved, early
<1>4. \/ \E reason \in {"orphan_expired", "time_stall", "timeout"} :
           EvaluateLevels(l, p, r, d, b) = ClosedAt(l, reason, p)
      \/ r.lo <= moved.stop
           /\ EvaluateLevels(l, p, r, d, b) = ClosedAt(moved, StopReason(moved), moved.stop)
      \/ r.hi >= TP2
           /\ EvaluateLevels(l, p, r, d, b)
                = ClosedAt([moved EXCEPT !.tp1_hit = TRUE], "tp2", TP2)
      \/ r.hi >= TP1 /\ EvaluateLevels(l, p, r, d, b) = ManageTp1(moved, b)
      \/ EvaluateLevels(l, p, r, d, b) = moved
  BY <1>2, <1>3
<1> QED
  BY <1>4 DEF Outcome, moved, early

\* The stop as evaluate_levels has moved it, before it is tested.
LEMMA MovedKeeps ==
  ASSUME NEW l \in Leg, NEW d \in TrailDists \union {RiskDist}
  PROVE  LET m == Trailed(EarlyBreakeven(l), d) IN
         /\ Keeps(l, m)
         /\ m.ext = l.ext /\ m.phase = l.phase /\ m.reason = l.reason
         /\ m.tp1_managed = l.tp1_managed /\ m.exit = l.exit
<1> DEFINE e == EarlyBreakeven(l)
           m == Trailed(e, d)
<1>1. /\ Keeps(l, e) /\ e.ext = l.ext /\ e.phase = l.phase /\ e.reason = l.reason
      /\ e.tp1_managed = l.tp1_managed /\ e.exit = l.exit
  BY EarlyKeeps
<1>2. e \in Leg
  BY <1>1 DEF Keeps
<1> HIDE DEF e
<1>3. /\ Keeps(e, m) /\ m.ext = e.ext /\ m.phase = e.phase /\ m.reason = e.reason
      /\ m.tp1_managed = e.tp1_managed /\ m.exit = e.exit
  BY <1>2, TrailedKeeps
<1>4. l.stop \in Int /\ e.stop \in Int /\ m.stop \in Int
  BY <1>1, <1>3 DEF Keeps, Leg
<1>5. m.stop >= l.stop
  BY <1>1, <1>3, <1>4 DEF Keeps
<1>6. Keeps(l, m)
  BY <1>1, <1>3, <1>5 DEF Keeps
<1> QED
  BY <1>1, <1>3, <1>6 DEF e

\* What closed a leg at a level is a reason like any other.
LEMMA StopReasonType ==
  ASSUME NEW l
  PROVE  StopReason(l) \in Reasons
  BY DEF StopReason, Reasons

\* evaluate_levels keeps the stop and the range of an open leg.
LEMMA EvaluateKeeps ==
  ASSUME NEW l \in Leg, l.phase # "closed", l.reason = NotClosed, NEW p \in Int, NEW r \in Span,
         NEW d \in TrailDists \union {RiskDist}, NEW b \in Tp1Bufs
  PROVE  LET m == EvaluateLevels(l, p, r, d, b) IN
         Keeps(l, m) /\ Whole(m) /\ m.ext = l.ext
<1> DEFINE moved == Trailed(EarlyBreakeven(l), d)
           m == EvaluateLevels(l, p, r, d, b)
<1>1. /\ Keeps(l, moved) /\ moved.ext = l.ext /\ moved.phase # "closed"
      /\ moved.reason = NotClosed
  BY MovedKeeps
<1>2. moved \in Leg /\ moved.stop \in Int /\ l.stop \in Int
  BY <1>1 DEF Keeps, Leg
<1>3. Outcome(l, p, r, d, b, m)
  BY EvaluateOutcomes
<1>4. \/ \E reason \in {"orphan_expired", "time_stall", "timeout"} : m = ClosedAt(l, reason, p)
      \/ m = ClosedAt(moved, StopReason(moved), moved.stop)
      \/ m = ClosedAt([moved EXCEPT !.tp1_hit = TRUE], "tp2", TP2)
      \/ m = ManageTp1(moved, b)
      \/ m = moved
  BY <1>3 DEF Outcome
<1> SUFFICES Keeps(l, m) /\ Whole(m) /\ m.ext = l.ext
  OBVIOUS
<1> HIDE DEF moved, m
<1>5. \A n : Keeps(moved, n) => Keeps(l, n)
  <2>1. ASSUME NEW n, Keeps(moved, n) PROVE n.stop \in Int
    BY <2>1 DEF Keeps, Leg
  <2> QED
    BY <1>1, <1>2, <2>1 DEF Keeps
<1>6. CASE \E reason \in {"orphan_expired", "time_stall", "timeout"} : m = ClosedAt(l, reason, p)
  BY <1>6, ClosedAtKeeps DEF Reasons
<1>7. CASE m = ClosedAt(moved, StopReason(moved), moved.stop)
  BY <1>1, <1>2, <1>5, <1>7, ClosedAtKeeps, StopReasonType
<1>8. CASE m = ClosedAt([moved EXCEPT !.tp1_hit = TRUE], "tp2", TP2)
  <2> DEFINE n == [moved EXCEPT !.tp1_hit = TRUE]
  <2>1. n \in Leg /\ n.ext = moved.ext /\ n.stop = moved.stop
        /\ n.tp1_managed = moved.tp1_managed
    BY <1>2 DEF Leg
  <2>2. Keeps(moved, n)
    BY <1>2, <2>1 DEF Keeps, RunnerOK
  <2>3. TP2 \in Int /\ "tp2" \in Reasons
    BY LevelsAssumption DEF Reasons
  <2>6. m = ClosedAt(n, "tp2", TP2)
    BY <1>8
  <2> HIDE DEF n
  <2>4. Keeps(n, m) /\ Whole(m) /\ m.ext = n.ext
    BY <2>1, <2>3, <2>6, ClosedAtKeeps
  <2>5. Keeps(moved, m)
    <3>1. m.stop \in Int /\ n.stop \in Int
      BY <2>1, <2>4 DEF Keeps, Leg
    <3> QED
      BY <1>2, <2>2, <2>4, <3>1 DEF Keeps
  <2> QED
    BY <1>1, <1>5, <2>1, <2>4, <2>5
<1>9. CASE m = ManageTp1(moved, b)
  <2>1. /\ Keeps(moved, m) /\ m.ext = moved.ext
        /\ m.phase # "closed" /\ m.reason = moved.reason
    BY <1>1, <1>2, <1>9, ManageKeeps
  <2> QED
    BY <1>1, <1>5, <2>1 DEF Whole, Keeps
<1>10. CASE m = moved
  BY <1>1, <1>2, <1>10 DEF Whole
<1> QED
  BY <1>4, <1>6, <1>7, <1>8, <1>9, <1>10

\* The rest of a poll keeps the stop and the range of a leg the levels left open,
\* and closes it when the price is at its stop or beyond.
LEMMA InvalidatedKeeps ==
  ASSUME NEW l \in Leg, l.phase # "closed", l.reason = NotClosed, NEW p \in Int, NEW news \in News
  PROVE  LET m == Invalidated(l, p, news) IN
         /\ Keeps(l, m) /\ Whole(m) /\ m.ext = l.ext /\ m.stop = l.stop
         /\ m.reason = NotClosed => p > m.stop
         /\ \/ m = l
            \/ \E x \in Reasons \ {"trailing_stop_profit", "tp2"} : m = ClosedAt(l, x, p)
<1> DEFINE m == Invalidated(l, p, news)
<1>1. l.stop \in Int /\ Whole(l) /\ Keeps(l, l)
  BY DEF Whole, Keeps, Leg
<1>2. \/ m = l /\ p > l.stop
      \/ \E x \in {"lifecycle_stale", "bounce_invalidate", "trend_exhaustion", "stop_hit",
                   "structure_lost", "bias_flip"} : m = ClosedAt(l, x, p)
  <2> DEFINE stale == news = "stale" /\ ~l.tp1_hit /\ ~l.be /\ ~l.trailing /\ Mfe(l) < HoldMfe
             bounced == news = "bounce" /\ age > 0 /\ p < EntryLo
             spent == news = "exhaustion"
  <2>1. m = CASE stale -> ClosedAt(l, "lifecycle_stale", p)
              [] bounced -> ClosedAt(l, "bounce_invalidate", p)
              [] spent -> ClosedAt(l, "trend_exhaustion", p)
              [] p <= l.stop /\ ~stale /\ ~bounced /\ ~spent -> ClosedAt(l, "stop_hit", p)
              [] p > l.stop /\ news = "broken" -> ClosedAt(l, "structure_lost", p)
              [] p > l.stop /\ news = "flip" /\ age > 0 /\ p >= Mid /\ ~l.be ->
                    ClosedAt(l, "bias_flip", p)
              [] OTHER -> l
    BY DEF Invalidated
  <2>2. p <= l.stop \/ p > l.stop
    BY <1>1
  <2> HIDE DEF m, stale, bounced, spent
  <2> QED
    BY <2>1, <2>2
<1> HIDE DEF m
<1>3. CASE m = l /\ p > l.stop
  BY <1>1, <1>3 DEF m
<1>4. ASSUME NEW x \in {"lifecycle_stale", "bounce_invalidate", "trend_exhaustion", "stop_hit",
                        "structure_lost", "bias_flip"}, m = ClosedAt(l, x, p)
      PROVE  /\ Keeps(l, m) /\ Whole(m) /\ m.ext = l.ext /\ m.stop = l.stop
             /\ m.reason # NotClosed
             /\ \E y \in Reasons \ {"trailing_stop_profit", "tp2"} : m = ClosedAt(l, y, p)
  <2>1. x \in Reasons \ {"trailing_stop_profit", "tp2"}
    BY DEF Reasons
  <2> QED
    BY <1>4, <2>1, ClosedAtKeeps, NotClosedIsNoReason
<1> QED
  BY <1>2, <1>3, <1>4 DEF m

\* The armed-to-triggered step keeps everything but tier and phase.
LEMMA TriggeredKeeps ==
  ASSUME NEW l \in Leg, l.phase # "closed", l.reason = NotClosed, NEW p, NEW told \in BOOLEAN
  PROVE  LET m == Triggered(l, p, told) IN
         /\ m \in Leg /\ Keeps(l, m)
         /\ m.stop = l.stop /\ m.ext = l.ext /\ m.phase # "closed" /\ m.reason = NotClosed
<1> DEFINE n == [l EXCEPT !.tier = "triggered"]
           m == Triggered(l, p, told)
<1>1. /\ n \in Leg /\ n.phase # "closed"
      /\ \A f \in {"stop", "ext", "reason", "tp1_managed", "exit"} : n[f] = l[f]
  BY DEF Leg
<1>2. m = l \/ m = Transition(n, "triggered")
  BY DEF Triggered
<1>3. l.stop \in Int
  BY DEF Leg
<1> HIDE DEF n, m
<1>4. CASE m = l
  BY <1>3, <1>4 DEF Keeps, m
<1>5. CASE m = Transition(n, "triggered")
  <2>1. /\ m \in Leg /\ m.phase # "closed"
        /\ \A f \in {"stop", "ext", "reason", "tp1_managed", "exit"} : m[f] = n[f]
    BY <1>1, <1>5, TransitionKeeps
  <2>2. m.stop = l.stop /\ m.ext = l.ext /\ m.reason = NotClosed /\ m.tp1_managed = l.tp1_managed
    BY <1>1, <2>1
  <2> QED
    BY <1>3, <2>1, <2>2 DEF Keeps, RunnerOK, m
<1> QED
  BY <1>2, <1>4, <1>5

-----------------------------------------------------------------------------
(* Steps: type, stop and runner                                            *)

RunnerInv == LegTypeOK /\ RunnerOK(leg)

\* What the three ways of evaluating a leg have in common.
LegStep ==
    /\ Keeps(leg, leg') /\ Whole(leg')
    /\ orphan' = FALSE
    /\ UNCHANGED <<price, bar, age, seen>>

\* A leg in the journal is open in phase and reason alike.
LEMMA OpenLeg ==
  ASSUME LegTypeOK, Open
  PROVE  /\ leg \in Leg /\ leg.phase # "closed" /\ leg.reason = NotClosed
         /\ price \in Int /\ bar \in Span /\ leg.ext \in Span
  BY LevelsAssumption DEF LegTypeOK, Open, Leg

\* A leg whose range is joined with another is the same leg.
LEMMA WidenKeeps ==
  ASSUME NEW l \in Leg, l.phase # "closed", l.reason = NotClosed, NEW x \in Span
  PROVE  LET m == [l EXCEPT !.ext = x] IN
         /\ m \in Leg /\ m.phase # "closed" /\ m.reason = NotClosed
         /\ m.ext = x /\ m.stop = l.stop /\ m.tp1_managed = l.tp1_managed
         /\ \A n : Keeps(m, n) => Keeps(l, n)
  BY DEF Leg, Keeps, RunnerOK

\* A poll is such a step, and leaves the leg open only before its stop.
LEMMA PollStep ==
  ASSUME LegTypeOK, NEW d \in TrailDists, NEW b \in Tp1Bufs, NEW news \in News,
         Poll(d, b, news)
  PROVE  LegStep /\ (leg'.reason = NotClosed => price > leg'.stop)
<1>1. /\ leg \in Leg /\ leg.phase # "closed" /\ leg.reason = NotClosed
      /\ price \in Int /\ bar \in Span /\ leg.ext \in Span
  BY OpenLeg DEF Poll
<1>2. PICK told \in BOOLEAN, candles \in {bar, At(price)} :
         LET ext == Join(Extend(leg.ext, price), candles)
             l == EvaluateLevels([leg EXCEPT !.ext = ext], price, ext, d, b)
         IN  leg' = IF l.reason # NotClosed THEN l
                   ELSE Invalidated(Triggered(l, price, told), price, news)
  BY DEF Poll
<1> DEFINE ext == Join(Extend(leg.ext, price), candles)
           wide == [leg EXCEPT !.ext = ext]
           l == EvaluateLevels(wide, price, ext, d, b)
           t == Triggered(l, price, told)
<1>3. ext \in Span
  BY <1>1, AtIsSpan, JoinIsAround DEF Extend
<1>4. leg' = IF l.reason # NotClosed THEN l ELSE Invalidated(t, price, news)
  BY <1>2
<1> HIDE DEF ext
<1>5. /\ wide \in Leg /\ wide.phase # "closed" /\ wide.reason = NotClosed
      /\ \A n : Keeps(wide, n) => Keeps(leg, n)
  BY <1>1, <1>3, WidenKeeps
<1> HIDE DEF wide
<1>6. Keeps(wide, l) /\ Whole(l)
  BY <1>1, <1>3, <1>5, EvaluateKeeps
<1>7. Keeps(leg, l) /\ l \in Leg
  BY <1>5, <1>6 DEF Keeps
<1> HIDE DEF l
<1>8. CASE l.reason # NotClosed
  BY <1>4, <1>6, <1>7, <1>8 DEF LegStep, Poll
<1>9. CASE l.reason = NotClosed
  <2>1. l.phase # "closed"
    BY <1>6, <1>9 DEF Whole
  <2>2. /\ t \in Leg /\ Keeps(l, t) /\ t.phase # "closed" /\ t.reason = NotClosed
    BY <1>7, <1>9, <2>1, TriggeredKeeps
  <2> HIDE DEF t
  <2>3. leg' = Invalidated(t, price, news)
    BY <1>4, <1>9
  <2>4. Keeps(t, leg') /\ Whole(leg') /\ (leg'.reason = NotClosed => price > leg'.stop)
    BY <1>1, <2>2, <2>3, InvalidatedKeeps
  <2>5. leg.stop \in Int /\ l.stop \in Int /\ t.stop \in Int /\ leg'.stop \in Int
    BY <1>1, <1>7, <2>2, <2>4 DEF Keeps, Leg
  <2>6. Keeps(leg, leg')
    BY <1>7, <2>2, <2>4, <2>5 DEF Keeps
  <2> QED
    BY <2>4, <2>6 DEF LegStep, Poll
<1> QED
  BY <1>8, <1>9

\* So are the two reconciles.
LEMMA ReconcileStep ==
  ASSUME LegTypeOK, NEW b \in Tp1Bufs, KlineReconcile(b) \/ TickerReconcile(b)
  PROVE  LegStep
<1>1. /\ leg \in Leg /\ leg.phase # "closed" /\ leg.reason = NotClosed
      /\ price \in Int /\ bar \in Span /\ leg.ext \in Span
  BY OpenLeg DEF KlineReconcile, TickerReconcile
<1>2. PICK x \in Span, r \in Span :
        leg' = EvaluateLevels([leg EXCEPT !.ext = x], price, r, RiskDist, b)
  <2>1. /\ Join(leg.ext, bar) \in Span /\ Extend(leg.ext, price) \in Span
    BY <1>1, AtIsSpan, JoinIsAround DEF Extend
  <2>2. CASE KlineReconcile(b)
    BY <1>1, <2>1, <2>2 DEF KlineReconcile
  <2>3. CASE TickerReconcile(b)
    BY <2>1, <2>3 DEF TickerReconcile
  <2> QED
    BY <2>2, <2>3
<1> DEFINE wide == [leg EXCEPT !.ext = x]
<1>3. /\ wide \in Leg /\ wide.phase # "closed" /\ wide.reason = NotClosed
      /\ \A n : Keeps(wide, n) => Keeps(leg, n)
  BY <1>1, WidenKeeps
<1>4. leg' = EvaluateLevels(wide, price, r, RiskDist, b)
  BY <1>2
<1> HIDE DEF wide
<1>5. Keeps(wide, leg') /\ Whole(leg')
  BY <1>1, <1>3, <1>4, EvaluateKeeps
<1> QED
  BY <1>3, <1>5 DEF LegStep, KlineReconcile, TickerReconcile

\* auto_resolve_active_signals closes a leg as it is.
LEMMA ResolveStep ==
  ASSUME LegTypeOK, AutoResolveLeg
  PROVE  Keeps(leg, leg') /\ Whole(leg') /\ UNCHANGED <<price, bar, age, orphan, seen>>
<1>1. leg \in Leg /\ price \in Int
  BY OpenLeg DEF AutoResolveLeg
<1>2. \E x \in Reasons : leg' = ClosedAt(leg, x, price)
  BY DEF AutoResolveLeg, Reasons
<1> QED
  BY <1>1, <1>2, ClosedAtKeeps DEF AutoResolveLeg

\* Every step keeps the type of the state and the leg's stop, and a poll that
\* leaves the leg open leaves it before its stop.
LEMMA LevelsNext ==
  ASSUME LegTypeOK, [LegNext]_legVars
  PROVE  LegTypeOK' /\ Keeps(leg, leg')
<1>1. leg \in Leg /\ leg.stop \in Int /\ price \in Int /\ bar \in Span /\ seen \in Span
  BY LevelsAssumption DEF LegTypeOK, Leg
<1>2. UNCHANGED leg => Keeps(leg, leg')
  BY <1>1 DEF Keeps
<1>3. Keeps(leg, leg') /\ Whole(leg') /\ UNCHANGED <<price, bar, age, seen>>
        /\ orphan' \in BOOLEAN => LegTypeOK'
  BY DEF LegTypeOK, Keeps, Whole
<1>4. CASE AnyPoll
  BY <1>3, <1>4, PollStep DEF AnyPoll, LegStep
<1>5. CASE \E b \in Tp1Bufs : KlineReconcile(b) \/ TickerReconcile(b)
  BY <1>3, <1>5, ReconcileStep DEF LegStep
<1>6. CASE AutoResolveLeg
  BY <1>3, <1>6, ResolveStep DEF LegTypeOK
<1>7. ASSUME NEW p \in Prices, Move(p) PROVE LegTypeOK' /\ Keeps(leg, leg')
  <2>1. Extend(bar, p) \in Span /\ Extend(seen, p) \in Span
    BY <1>1, LevelsAssumption, AtIsSpan, JoinIsAround DEF Extend
  <2> QED
    BY <1>2, <1>7, <2>1 DEF Move, LegTypeOK
<1>8. CASE NewBar
  BY <1>1, <1>2, <1>8, AtIsSpan DEF NewBar, LegTypeOK
<1>9. CASE GetOlder
  BY <1>2, <1>9 DEF GetOlder, LegTypeOK
<1>10. CASE OrphanTtl
  BY <1>2, <1>10 DEF OrphanTtl, LegTypeOK
<1>11. CASE UNCHANGED legVars
  BY <1>2, <1>11 DEF legVars, LegTypeOK
<1> QED
  BY <1>4, <1>5, <1>6, <1>7, <1>8, <1>9, <1>10, <1>11 DEF LegNext

\* A leg is registered open, with its whole history in the running candle.
LEMMA LevelsInit ==
  ASSUME LegInit
  PROVE  RunnerInv
<1>1. /\ OpenPrice \in Int /\ At(OpenPrice) \in Span /\ InitialStop \in Int
      /\ bar \in Span /\ seen \in Span
  BY LevelsAssumption, AtIsSpan DEF LegInit
<1>2. PICK t \in Tiers :
         leg = [tier |-> t, phase |-> t, stop |-> InitialStop, ext |-> At(price),
                tp1_hit |-> FALSE, tp1_managed |-> FALSE, be |-> FALSE,
                trailing |-> FALSE, reason |-> NotClosed, exit |-> 0]
  BY DEF LegInit
<1>3. t \in {"armed", "triggered"} /\ price = OpenPrice
  BY LevelsAssumption DEF LegInit
<1>4. leg \in Leg /\ leg.phase = t /\ leg.reason = NotClosed /\ leg.tp1_managed = FALSE
  BY <1>1, <1>2, <1>3 DEF Leg, Phases
<1>5. price \in Prices /\ age \in 0 .. 3 /\ orphan \in BOOLEAN
  <2>1. OpenPrice \in Prices
    BY LevelsAssumption
  <2>2. age = 0 /\ orphan = FALSE
    BY DEF LegInit
  <2>3. price \in Prices
    BY <1>3, <2>1
  <2>4. age \in 0 .. 3
    BY <2>2
  <2>5. orphan \in BOOLEAN
    BY <2>2
  <2> QED
    BY <2>3, <2>4, <2>5
<1>6. leg.phase = "closed" <=> leg.reason # NotClosed
  BY <1>3, <1>4
<1>7. LegTypeOK
  BY <1>1, <1>4, <1>5, <1>6 DEF LegTypeOK
<1> QED
  BY <1>4, <1>7 DEF RunnerInv, RunnerOK

-----------------------------------------------------------------------------
(* Theorems                                                                *)

\* Every reachable state of a leg is well typed and its phase is closed exactly
\* when it has a reason to be: evaluate_levels and its callers, for any prices.
THEOREM LegTypeCorrect == LegSpec => []LegTypeOK
<1>1. LegInit => LegTypeOK
  BY LevelsInit DEF RunnerInv
<1>2. LegTypeOK /\ [LegNext]_legVars => LegTypeOK'
  BY LevelsNext
<1> QED
  BY <1>1, <1>2, PTL DEF LegSpec

\* Early breakeven, trailing and TP1 management never give back what another has
\* locked, whatever the distances, buffers, prices and their order.
THEOREM StopRatchets == LegSpec => StopNeverLoosens
<1>1. LegTypeOK /\ [LegNext]_legVars => [leg'.stop >= leg.stop]_legVars
  BY LevelsNext DEF Keeps
<1> QED
  BY <1>1, LegTypeCorrect, PTL DEF LegSpec, StopNeverLoosens

\* After TP1 management the stop of an open leg is never in the loss zone.
THEOREM RunnersKeepProfit == LegSpec => []RunnerNeverLoses
<1>1. LegInit => RunnerInv
  BY LevelsInit
<1>2. RunnerInv /\ [LegNext]_legVars => RunnerInv'
  BY LevelsNext DEF RunnerInv, Keeps
<1>3. RunnerInv => RunnerNeverLoses
  BY DEF RunnerInv, RunnerOK, RunnerNeverLoses
<1> QED
  BY <1>1, <1>2, <1>3, PTL DEF LegSpec

\* A poll leaves no leg open whose live price is at its stop or beyond.
THEOREM PollsEndBeyondStop == LegSpec => PollEndsBeyondStop
<1>1. LegTypeOK /\ [LegNext]_legVars => [leg'.reason = NotClosed /\ price <= leg'.stop => ~AnyPoll]_legVars
  <2> SUFFICES ASSUME LegTypeOK, LegNext, AnyPoll, leg'.reason = NotClosed, price <= leg'.stop
               PROVE  FALSE
    OBVIOUS
  <2>1. price > leg'.stop
    BY PollStep DEF AnyPoll
  <2>2. LegTypeOK'
    BY LevelsNext
  <2>3. price \in Int /\ leg'.stop \in Int
    BY <2>2, LevelsAssumption DEF LegTypeOK, Leg
  <2> QED
    BY <2>1, <2>3
<1> QED
  BY <1>1, LegTypeCorrect, PTL DEF LegSpec, PollEndsBeyondStop

-----------------------------------------------------------------------------
(* Exit prices                                                             *)

\* Levels that are drawn round the price they are registered at, and an early
\* breakeven buffer that is no further than the run that earns it.
OpensInside ==
    /\ InitialStop <= OpenPrice /\ OpenPrice <= TP2
    /\ EarlyBuf <= EarlyFrom

Inside(r, s) == s.lo <= r.lo /\ r.hi <= s.hi

ExitIn(l, s) ==
    l.reason \in {"stop_hit", "trailing_stop_profit", "tp2"} => s.lo <= l.exit /\ l.exit <= s.hi

\* All the leg has been shown was in the market, and its stop is not ahead of it.
Known(l, s) == Inside(l.ext, s) /\ l.stop <= s.hi /\ ExitIn(l, s)

TradedInv ==
    /\ LegTypeOK
    /\ Known(leg, seen)
    /\ Inside(bar, seen)
    /\ seen.lo <= price /\ price <= seen.hi
    /\ seen.lo <= OpenPrice

\* A stop that has been moved is still behind the best price the leg has seen.
LEMMA MovedBehind ==
  ASSUME OpensInside, NEW l \in Leg, NEW d \in TrailDists \union {RiskDist},
         NEW hi \in Int, l.stop <= hi, l.ext.hi <= hi
  PROVE  Trailed(EarlyBreakeven(l), d).stop <= hi
<1> DEFINE e == EarlyBreakeven(l)
           m == Trailed(e, d)
<1>1. /\ Keeps(l, e) /\ e.ext = l.ext
      /\ e.stop # l.stop => e.stop = EntryLo + EarlyBuf /\ Mfe(l) >= EarlyFrom
  BY EarlyKeeps
<1>2. EntryLo \in Int /\ EarlyBuf \in Int /\ EarlyBuf > 0 /\ EarlyFrom \in Int
      /\ l.ext.hi \in Int /\ l.stop \in Int
  BY LevelsAssumption DEF Leg, Span
<1>3. e \in Leg /\ e.stop \in Int
  BY <1>1 DEF Keeps, Leg
<1>4. Mfe(l) >= EarlyFrom => EntryLo + EarlyBuf <= l.ext.hi
  BY <1>2 DEF Mfe, Higher, OpensInside
<1>5. e.stop <= hi
  BY <1>1, <1>2, <1>4
<1> HIDE DEF e
<1>6. Keeps(e, m) /\ (m.stop # e.stop => m.stop < e.ext.hi)
  BY <1>3, TrailedKeeps
<1>7. m.stop \in Int
  BY <1>6 DEF Keeps, Leg
<1> QED
  BY <1>1, <1>2, <1>3, <1>5, <1>6, <1>7 DEF e

\* evaluate_levels on ranges that were traded leaves a stop and an exit that were.
LEMMA EvaluateKnown ==
  ASSUME OpensInside, NEW l \in Leg, l.phase # "closed", l.reason = NotClosed, NEW p \in Int,
         NEW r \in Span, NEW d \in TrailDists \union {RiskDist}, NEW b \in Tp1Bufs,
         NEW s \in Span, Inside(l.ext, s), Inside(r, s), l.stop <= s.hi, s.lo <= OpenPrice
  PROVE  Known(EvaluateLevels(l, p, r, d, b), s)
<1> DEFINE moved == Trailed(EarlyBreakeven(l), d)
           m == EvaluateLevels(l, p, r, d, b)
<1>1. /\ Keeps(l, moved) /\ moved.ext = l.ext /\ moved.phase # "closed"
      /\ moved.reason = NotClosed
  BY MovedKeeps
<1>2. moved \in Leg /\ moved.stop \in Int /\ l.stop \in Int
  BY <1>1 DEF Keeps, Leg
<1>3. /\ s.hi \in Int /\ s.lo \in Int /\ l.ext.hi \in Int /\ r.hi \in Int /\ r.lo \in Int
      /\ TP1 \in Int /\ TP2 \in Int /\ OpenPrice \in Int
  BY LevelsAssumption DEF Span, Leg
<1>4. moved.stop <= s.hi
  BY <1>3, MovedBehind DEF Inside
<1>5. Outcome(l, p, r, d, b, m)
  BY EvaluateOutcomes
<1>6. \/ \E reason \in {"orphan_expired", "time_stall", "timeout"} : m = ClosedAt(l, reason, p)
      \/ r.lo <= moved.stop /\ m = ClosedAt(moved, StopReason(moved), moved.stop)
      \/ r.hi >= TP2 /\ m = ClosedAt([moved EXCEPT !.tp1_hit = TRUE], "tp2", TP2)
      \/ r.hi >= TP1 /\ m = ManageTp1(moved, b)
      \/ m = moved
  BY <1>5 DEF Outcome
<1> SUFFICES Known(m, s)
  OBVIOUS
<1> HIDE DEF moved, m
<1>7. CASE \E reason \in {"orphan_expired", "time_stall", "timeout"} : m = ClosedAt(l, reason, p)
  <2>1. m.ext = l.ext /\ m.stop = l.stop
        /\ m.reason \in {"orphan_expired", "time_stall", "timeout"}
    BY <1>7, ClosedAtKeeps DEF Reasons
  <2> QED
    BY <2>1 DEF Known, ExitIn
<1>8. CASE r.lo <= moved.stop /\ m = ClosedAt(moved, StopReason(moved), moved.stop)
  <2>1. m.ext = l.ext /\ m.stop = moved.stop /\ m.exit = moved.stop
    BY <1>1, <1>2, <1>8, ClosedAtKeeps, StopReasonType
  <2>2. s.lo <= moved.stop
    BY <1>2, <1>3, <1>8 DEF Inside
  <2> QED
    BY <1>4, <2>1, <2>2 DEF Known, ExitIn
<1>9. CASE r.hi >= TP2 /\ m = ClosedAt([moved EXCEPT !.tp1_hit = TRUE], "tp2", TP2)
  <2> DEFINE n == [moved EXCEPT !.tp1_hit = TRUE]
  <2>1. n \in Leg /\ n.ext = l.ext /\ n.stop = moved.stop
    BY <1>1, <1>2 DEF Leg
  <2>2. m = ClosedAt(n, "tp2", TP2) /\ "tp2" \in Reasons
    BY <1>9 DEF Reasons
  <2> HIDE DEF n
  <2>3. m.ext = l.ext /\ m.stop = moved.stop /\ m.exit = TP2
    BY <1>3, <2>1, <2>2, ClosedAtKeeps
  <2>4. s.lo <= TP2 /\ TP2 <= s.hi
    BY <1>3, <1>9 DEF Inside, OpensInside
  <2> QED
    BY <1>4, <2>3, <2>4 DEF Known, ExitIn
<1>10. CASE r.hi >= TP1 /\ m = ManageTp1(moved, b)
  <2>1. /\ Keeps(moved, m) /\ m.ext = l.ext /\ m.reason = NotClosed
        /\ m.stop # moved.stop => m.stop <= TP1
    BY <1>1, <1>2, <1>10, ManageKeeps
  <2>2. m.stop \in Int
    BY <2>1 DEF Keeps, Leg
  <2>3. m.stop <= s.hi
    BY <1>3, <1>4, <1>10, <2>1, <2>2 DEF Inside
  <2> QED
    BY <2>1, <2>3, NotClosedIsNoReason DEF Known, ExitIn, Reasons
<1>11. CASE m = moved
  BY <1>1, <1>4, <1>11, NotClosedIsNoReason DEF Known, ExitIn, Reasons
<1> QED
  BY <1>6, <1>7, <1>8, <1>9, <1>10, <1>11

\* The rest of a poll closes at the live price.
LEMMA InvalidatedKnown ==
  ASSUME NEW l \in Leg, l.phase # "closed", l.reason = NotClosed, NEW p \in Int,
         NEW news \in News, NEW s \in Span, Known(l, s), s.lo <= p, p <= s.hi
  PROVE  Known(Invalidated(l, p, news), s)
<1> DEFINE m == Invalidated(l, p, news)
<1>1. \/ m = l
      \/ \E x \in Reasons \ {"trailing_stop_profit", "tp2"} : m = ClosedAt(l, x, p)
  BY InvalidatedKeeps
<1> HIDE DEF m
<1>2. CASE m = l
  BY <1>2 DEF m
<1>3. ASSUME NEW x \in Reasons, m = ClosedAt(l, x, p)
      PROVE  m.ext = l.ext /\ m.stop = l.stop /\ m.exit = p
  BY <1>3, ClosedAtKeeps
<1>4. Known(m, s)
  BY <1>1, <1>2, <1>3 DEF Known, ExitIn
<1> QED
  BY <1>4 DEF m

\* The market widens what has been seen.
LEMMA KnownWidens ==
  ASSUME NEW l \in Leg, NEW s \in Span, NEW t \in Span, Known(l, s), Inside(s, t),
         l.reason = NotClosed
  PROVE  Known(l, t)
<1>1. /\ l.ext.hi \in Int /\ l.ext.lo \in Int /\ l.stop \in Int
      /\ s.hi \in Int /\ s.lo \in Int /\ t.hi \in Int /\ t.lo \in Int
  BY DEF Leg, Span
<1>2. ExitIn(l, t)
  BY NotClosedIsNoReason DEF ExitIn, Reasons
<1> QED
  BY <1>1, <1>2 DEF Known, Inside

\* A poll keeps the leg within what has been traded.
LEMMA PollKnown ==
  ASSUME OpensInside, TradedInv, NEW d \in TrailDists, NEW b \in Tp1Bufs, NEW news \in News,
         Poll(d, b, news)
  PROVE  Known(leg', seen)
<1>1. /\ leg \in Leg /\ leg.phase # "closed" /\ leg.reason = NotClosed
      /\ price \in Int /\ bar \in Span /\ leg.ext \in Span /\ seen \in Span
      /\ Open
  BY OpenLeg DEF Poll, TradedInv, LegTypeOK
<1>2. PICK told \in BOOLEAN, candles \in {bar, At(price)} :
         LET ext == Join(Extend(leg.ext, price), candles)
             l == EvaluateLevels([leg EXCEPT !.ext = ext], price, ext, d, b)
         IN  leg' = IF l.reason # NotClosed THEN l
                   ELSE Invalidated(Triggered(l, price, told), price, news)
  BY DEF Poll
<1> DEFINE once == Extend(leg.ext, price)
           ext == Join(once, candles)
           wide == [leg EXCEPT !.ext = ext]
           l == EvaluateLevels(wide, price, ext, d, b)
           t == Triggered(l, price, told)
<1>3. leg' = IF l.reason # NotClosed THEN l ELSE Invalidated(t, price, news)
  BY <1>2
<1>4. /\ seen.lo <= price /\ price <= seen.hi /\ seen.lo <= OpenPrice
      /\ Known(leg, seen) /\ Inside(bar, seen)
  BY DEF TradedInv
<1>5. candles \in Span /\ Inside(candles, seen)
  BY <1>1, <1>4, AtIsSpan DEF Inside
<1>6. once \in Span /\ Inside(once, seen)
  BY <1>1, <1>4, AtIsSpan, JoinIsAround DEF Extend, Inside, Known
<1> HIDE DEF once
<1>7. ext \in Span /\ Inside(ext, seen)
  BY <1>5, <1>6, JoinIsAround DEF Inside
<1> HIDE DEF ext
<1>8. /\ wide \in Leg /\ wide.phase # "closed" /\ wide.reason = NotClosed
      /\ wide.ext = ext /\ wide.stop = leg.stop
  BY <1>1, <1>7, WidenKeeps
<1>9. wide.stop <= seen.hi
  BY <1>4, <1>8 DEF Known
<1> HIDE DEF wide
<1>10. l \in Leg /\ Whole(l)
  BY <1>1, <1>7, <1>8, EvaluateKeeps DEF Keeps
<1>11. Known(l, seen)
  BY <1>1, <1>4, <1>7, <1>8, <1>9, EvaluateKnown
<1> HIDE DEF l
<1>12. CASE l.reason = NotClosed
  <2>1. l.phase # "closed"
    BY <1>10, <1>12 DEF Whole
  <2>2. /\ t \in Leg /\ t.phase # "closed" /\ t.reason = NotClosed
        /\ t.stop = l.stop /\ t.ext = l.ext
    BY <1>10, <1>12, <2>1, TriggeredKeeps
  <2> HIDE DEF t
  <2>3. Known(t, seen)
    BY <1>11, <2>2, NotClosedIsNoReason DEF Known, ExitIn, Reasons
  <2>4. leg' = Invalidated(t, price, news)
    BY <1>3, <1>12
  <2> QED
    BY <1>1, <1>4, <2>2, <2>3, <2>4, InvalidatedKnown
<1> QED
  BY <1>3, <1>11, <1>12

\* So do the reconciles.
LEMMA ReconcileKnown ==
  ASSUME OpensInside, TradedInv, NEW b \in Tp1Bufs, KlineReconcile(b) \/ TickerReconcile(b)
  PROVE  Known(leg', seen)
<1>1. /\ leg \in Leg /\ leg.phase # "closed" /\ leg.reason = NotClosed
      /\ price \in Int /\ bar \in Span /\ leg.ext \in Span /\ seen \in Span
  BY OpenLeg DEF KlineReconcile, TickerReconcile, TradedInv, LegTypeOK
<1>2. /\ seen.lo <= price /\ price <= seen.hi /\ seen.lo <= OpenPrice
      /\ Known(leg, seen) /\ Inside(bar, seen)
  BY DEF TradedInv
<1>3. /\ Join(leg.ext, bar) \in Span /\ Inside(Join(leg.ext, bar), seen)
      /\ Extend(leg.ext, price) \in Span /\ Inside(Extend(leg.ext, price), seen)
  BY <1>1, <1>2, AtIsSpan, JoinIsAround DEF Extend, Inside, Known
<1>4. PICK x \in Span, r \in Span :
        /\ Inside(x, seen) /\ Inside(r, seen)
        /\ leg' = EvaluateLevels([leg EXCEPT !.ext = x], price, r, RiskDist, b)
  <2>1. CASE KlineReconcile(b)
    BY <1>1, <1>2, <1>3, <2>1 DEF KlineReconcile
  <2>2. CASE TickerReconcile(b)
    BY <1>3, <2>2 DEF TickerReconcile
  <2> QED
    BY <2>1, <2>2
<1> DEFINE wide == [leg EXCEPT !.ext = x]
<1>5. /\ wide \in Leg /\ wide.phase # "closed" /\ wide.reason = NotClosed
      /\ wide.ext = x /\ wide.stop = leg.stop
  BY <1>1, WidenKeeps
<1>6. leg' = EvaluateLevels(wide, price, r, RiskDist, b)
  BY <1>4
<1>7. wide.stop <= seen.hi
  BY <1>2, <1>5 DEF Known
<1> HIDE DEF wide
<1> QED
  BY <1>1, <1>2, <1>4, <1>5, <1>6, <1>7, EvaluateKnown

\* The invariant, step by step.
LEMMA TradedNext ==
  ASSUME OpensInside, TradedInv, [LegNext]_legVars
  PROVE  TradedInv'
<1>1. LegTypeOK /\ LegTypeOK'
  BY LevelsNext DEF TradedInv
<1>2. /\ leg \in Leg /\ price \in Int /\ bar \in Span /\ seen \in Span /\ OpenPrice \in Int
  BY <1>1, LevelsAssumption DEF LegTypeOK
<1>3. ASSUME Known(leg', seen), UNCHANGED <<price, bar, seen>> PROVE TradedInv'
  BY <1>1, <1>3 DEF TradedInv
<1>4. CASE AnyPoll
  BY <1>1, <1>3, <1>4, PollKnown, PollStep DEF AnyPoll, LegStep
<1>5. CASE \E b \in Tp1Bufs : KlineReconcile(b) \/ TickerReconcile(b)
  BY <1>1, <1>3, <1>5, ReconcileKnown, ReconcileStep DEF LegStep
<1>6. CASE AutoResolveLeg
  <2>1. leg.phase # "closed" /\ leg.reason = NotClosed
    BY <1>1, <1>6, OpenLeg DEF AutoResolveLeg
  <2>2. PICK x \in Reasons \ {"stop_hit", "trailing_stop_profit", "tp2"} :
           leg' = ClosedAt(leg, x, price)
    BY <1>6 DEF AutoResolveLeg, Reasons
  <2>3. leg'.ext = leg.ext /\ leg'.stop = leg.stop /\ leg'.reason = x
    BY <1>2, <2>2, ClosedAtKeeps
  <2>4. Known(leg', seen)
    BY <2>2, <2>3 DEF Known, ExitIn, TradedInv
  <2> QED
    BY <1>3, <1>6, <2>4 DEF AutoResolveLeg
<1>7. ASSUME NEW p \in Prices, Move(p) PROVE TradedInv'
  <2>1. p \in Int
    BY LevelsAssumption
  <2>4. At(p) \in Span /\ At(p).lo = p /\ At(p).hi = p
    BY <2>1, AtIsSpan
  <2>5. bar' = Join(bar, At(p)) /\ seen' = Join(seen, At(p))
    BY <1>7 DEF Extend, Move
  <2>6. /\ bar'.lo \in {bar.lo, p} /\ bar'.hi \in {bar.hi, p}
        /\ seen'.lo <= seen.lo /\ seen'.hi >= seen.hi /\ seen'.lo <= p /\ p <= seen'.hi
        /\ bar' \in Span /\ seen' \in Span
    BY <1>2, <2>4, <2>5, JoinIsAround
  <2>7. /\ bar.lo \in Int /\ bar.hi \in Int /\ seen.lo \in Int /\ seen.hi \in Int
        /\ seen'.lo \in Int /\ seen'.hi \in Int
    BY <1>2, <2>6 DEF Span
  <2>8. seen.lo <= bar.lo /\ bar.hi <= seen.hi /\ seen.lo <= OpenPrice
    BY DEF TradedInv, Inside
  <2>2. /\ Inside(bar', seen') /\ Inside(seen, seen') /\ seen' \in Span
        /\ seen'.lo <= p /\ p <= seen'.hi /\ seen'.lo <= OpenPrice
    BY <1>2, <2>1, <2>6, <2>7, <2>8 DEF Inside
  <2>3. Known(leg, seen')
    BY <1>2, <1>7, <2>2, KnownWidens DEF Move, Open, TradedInv
  <2> QED
    BY <1>1, <1>7, <2>2, <2>3 DEF Move, TradedInv
<1>8. CASE NewBar
  BY <1>1, <1>2, <1>8, AtIsSpan DEF NewBar, TradedInv, Inside
<1>9. CASE GetOlder
  BY <1>1, <1>9 DEF GetOlder, TradedInv
<1>10. CASE OrphanTtl
  BY <1>1, <1>10 DEF OrphanTtl, TradedInv
<1>11. CASE UNCHANGED legVars
  BY <1>1, <1>11 DEF legVars, TradedInv
<1> QED
  BY <1>4, <1>5, <1>6, <1>7, <1>8, <1>9, <1>10, <1>11 DEF LegNext

\* It holds at registration.
LEMMA TradedInit ==
  ASSUME OpensInside, LegInit
  PROVE  TradedInv
<1>1. LegTypeOK
  BY LevelsInit DEF RunnerInv
<1>2. /\ OpenPrice \in Int /\ At(OpenPrice) \in Span /\ InitialStop \in Int
      /\ At(OpenPrice).lo = OpenPrice /\ At(OpenPrice).hi = OpenPrice
      /\ price = OpenPrice /\ bar \in FirstBars /\ seen = bar
  BY LevelsAssumption, AtIsSpan DEF LegInit
<1>3. bar \in Span /\ bar.lo <= OpenPrice /\ OpenPrice <= bar.hi
  BY <1>2, LevelsAssumption
<1>4. leg.ext = At(OpenPrice) /\ leg.stop = InitialStop /\ leg.reason = NotClosed
  BY <1>2 DEF LegInit
<1>5. bar.lo \in Int /\ bar.hi \in Int
  BY <1>3 DEF Span
<1>6. InitialStop <= bar.hi
  BY <1>2, <1>3, <1>5 DEF OpensInside
<1>7. ExitIn(leg, seen)
  BY <1>4, NotClosedIsNoReason DEF ExitIn, Reasons
<1>8. Known(leg, seen)
  BY <1>2, <1>3, <1>4, <1>6, <1>7 DEF Known, Inside
<1> QED
  BY <1>1, <1>2, <1>3, <1>5, <1>8 DEF TradedInv, Inside

\* The exit price a level writes into the journal is one the market was at, for
\* levels drawn round the price they are registered at (a setup without risk or
\* reward is dropped by manipulation_delivery before it is registered).
THEOREM ExitsWereTraded == OpensInside => (LegSpec => []LevelExitWasTraded)
<1> SUFFICES ASSUME OpensInside PROVE LegSpec => []LevelExitWasTraded
  OBVIOUS
<1>1. LegInit => TradedInv
  BY TradedInit
<1>2. TradedInv /\ [LegNext]_legVars => TradedInv'
  BY TradedNext
<1>3. TradedInv => LevelExitWasTraded
  BY DEF TradedInv, Known, ExitIn, LevelExitWasTraded
<1> QED
  BY <1>1, <1>2, <1>3, PTL DEF LegSpec
=============================================================================
