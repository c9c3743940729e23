---------------------------- MODULE HuntTracker ----------------------------
(***************************************************************************)
(* The hunt application keeps its open signals in one JSON file that three *)
(* writers of one asyncio process share without a lock:                    *)
(*                                                                         *)
(*   tick   run_tick (runtime/cycle/_cycle_tick.py): loads its own copy,   *)
(*          closes legs in it between awaits, merges it into the file;     *)
(*   scan   _manipulation_scan_loop (runtime/cycle/_cycle_loop.py): loads  *)
(*          its own copy, posts and registers legs, merges it;             *)
(*   deep   _register_tracker (runtime/emitter.py): loads, registers and   *)
(*          saves without an await in between.                             *)
(*                                                                         *)
(* A leg is one registration of a signal (the code tells legs apart by     *)
(* symbol, direction and opened_at); the file has one entry per symbol and *)
(* direction.  Levels, which decide when a leg closes, are HuntLevels.     *)
(*                                                                         *)
(* Faults: crashes, passes that raise, appends to the archive that raise   *)
(* and searches of it that miss a line, writes that a crash cuts short     *)
(* (write_text is not atomic), reads that fail, symbols without a price.   *)
(***************************************************************************)
EXTENDS Naturals, FiniteSets

CONSTANTS
    Symbols,
    None,
    Faults,         \* the faults that happen
    MaxHistory,     \* records closed_history is cut to (1000 in the code)
    MaxLegs,        \* bound: legs registered
    MaxScans,       \* bound: passes of the scan loop
    MaxUpsets       \* bound: crashes, faults of the disk, delistings

ASSUME BoundsAssumption ==
    /\ MaxHistory \in Nat \ {0}
    /\ MaxLegs \in Nat /\ MaxScans \in Nat /\ MaxUpsets \in Nat

ASSUME FaultsAssumption ==
    Faults \subseteq {"crash", "tick_fails", "scan_fails", "append_fails",
                     "search_fails", "torn_write", "read_fails", "delisted"}

Directions == {"long", "short"}
Keys == Symbols \X Directions
Legs == 1 .. MaxLegs
Loops == {"tick", "scan"}
Writers == Loops \union {"deep"}

\* The other direction of the same symbol.
Opposite(k) == <<k[1], CHOOSE d \in Directions : d # k[2]>>

Entry == [leg : Legs, status : {"active", "closed"}]
Record == [leg : Legs, by : Writers]    \* an element of closed_history
File == [signals : [Keys -> Entry \union {None}], history : SUBSET Record]

ASSUME NoneAssumption == None \notin Keys /\ None \notin Entry /\ None \notin File

VARIABLES
    file,           \* STATE_PATH
    copy,           \* the dictionary each loop has loaded
    pc,             \* where each loop stands
    todo,           \* symbols the scan has still to look at
    posting,        \* the key whose message the scan is sending
    archive,        \* lines of signal_history.jsonl about each leg (saturates at 2)
    registered,     \* legs registered so far
    scans,          \* passes of the scan loop started so far
    aged,           \* the oldest "aged" legs are open for longer than the timeout
    listed,         \* symbols the exchange still quotes
    astray,         \* history: legs whose append failed, or whose line the
                    \* search missed
    upsets          \* crashes, faults of the disk and delistings so far

vars == <<file, copy, pc, todo, posting, archive, registered, scans, aged, listed,
          astray, upsets>>

NoFile == [signals |-> [k \in Keys |-> None], history |-> {}]

Init ==
    /\ file = NoFile
    /\ copy = [l \in Loops |-> None] /\ pc = [l \in Loops |-> "idle"]
    /\ todo = {} /\ posting = None
    /\ archive = [g \in Legs |-> 0]
    /\ registered = 0 /\ scans = 0 /\ aged = 0
    /\ listed = Symbols /\ astray = {} /\ upsets = 0

Upset(fault) ==
    /\ fault \in Faults /\ upsets < MaxUpsets
    /\ upsets' = upsets + 1

-----------------------------------------------------------------------------
(* Operations of track/tracker.py on one dictionary                        *)

IsActive(f, k) == f.signals[k] # None /\ f.signals[k].status = "active"
ActiveKeys(f) == {k \in Keys : IsActive(f, k)}
LegsAt(f, S) == {f.signals[k].leg : k \in S}
Bump(n) == IF n < 2 THEN n + 1 ELSE n
InHistory(f, g) == \E r \in f.history : r.leg = g

\* The legs that close_signal adds to the history when it closes the keys of S:
\* those the copy's own history does not hold yet.
NewlyClosed(f, S) == {g \in LegsAt(f, S \intersect ActiveKeys(f)) : ~InHistory(f, g)}

\* A record that is appended to a full history pushes the oldest out.  The
\* model does not keep the age of records: any of the older ones may go.
Trimmed(old, new) ==
    IF new = {} \/ Cardinality(old \union new) <= MaxHistory THEN {old \union new}
    ELSE {h \in SUBSET (old \union new) :
            Cardinality(h) = MaxHistory /\ (new \subseteq h \/ h \subseteq new)}

\* close_signal for the active keys of S: the entries become closed, and the
\* legs are added to the history.
Closings(f, S, w) ==
    LET T == S \intersect ActiveKeys(f)
    IN  {[signals |-> [k \in Keys |->
                         IF k \in T THEN [f.signals[k] EXCEPT !.status = "closed"]
                         ELSE f.signals[k]],
          history |-> h] :
            h \in Trimmed(f.history, {[leg |-> g, by |-> w] : g \in NewlyClosed(f, S)})}

\* append_outcome_record for the legs of G: the last lines of the archive are
\* searched first, a leg that is found there gets no other line.
AppendLines_Always(G) ==        \* mutant: the archive is not searched first
    archive' = [g \in Legs |-> IF g \in G THEN Bump(archive[g]) ELSE archive[g]]

AppendLines(G) ==
    archive' = [g \in Legs |-> IF g \in G /\ archive[g] = 0 THEN 1 ELSE archive[g]]

\* What close_signal swallows: an append that raises (or one that continues a
\* line a crash cut short, so that it cannot be read); and what it does not see:
\* a line behind the last 800, or an archive that cannot be read.
AppendOutcome(G) ==
    \/ AppendLines(G) /\ UNCHANGED <<astray, upsets>>
    \/ /\ Upset("append_fails")
       /\ \E lost \in SUBSET G \ {{}} :
            AppendLines(G \ lost) /\ astray' = astray \union lost
    \/ /\ Upset("search_fails")
       /\ \E missed \in SUBSET {g \in G : archive[g] > 0} \ {{}} :
            /\ archive' = [g \in Legs |->
                   IF g \in missed \/ (g \in G /\ archive[g] = 0) THEN Bump(archive[g])
                   ELSE archive[g]]
            /\ astray' = astray \union missed

\* register_signal_open: an active opposite leg is closed, the key is replaced.
Registrations(f, k, w) ==
    {[c EXCEPT !.signals[k] = [leg |-> registered + 1, status |-> "active"]] :
        c \in Closings(f, {Opposite(k)}, w)}

RegisterLogs_NoArchive(f, k) ==     \* mutant: the opposite leg is not archived
    /\ registered < MaxLegs
    /\ registered' = registered + 1
    /\ UNCHANGED <<archive, astray, upsets>>

RegisterLogs(f, k) ==
    /\ registered < MaxLegs
    /\ registered' = registered + 1
    /\ AppendOutcome(NewlyClosed(f, {Opposite(k)}))

-----------------------------------------------------------------------------
(* data/lake.py: the buffer and the merge                                  *)

Merge_BlindOverwrite(disk, buffered) == buffered    \* mutant: as before the merge

\* _merge_tracker_state: a key of the buffered copy wins, histories are united.
Merge(disk, buffered) ==
    [signals |-> [k \in Keys |-> IF buffered.signals[k] # None
                                 THEN buffered.signals[k] ELSE disk.signals[k]],
     history |-> disk.history \union buffered.history]

\* load_tracker_state: a file that cannot be read counts as an empty one.
Load(l) ==
    \/ copy' = [copy EXCEPT ![l] = file] /\ UNCHANGED upsets
    \/ Upset("read_fails") /\ copy' = [copy EXCEPT ![l] = NoFile]

\* buffer_tracker_state and flush_tracker_state at the end of a pass.
Flush(l) == file' = Merge(file, copy[l])

Leave(l) ==
    /\ copy' = [copy EXCEPT ![l] = None]
    /\ pc' = [pc EXCEPT ![l] = "idle"]

-----------------------------------------------------------------------------
(* run_tick                                                                *)

TickStart ==
    /\ pc["tick"] = "idle"
    /\ pc' = [pc EXCEPT !["tick"] = "symbols"]
    /\ Load("tick")
    /\ UNCHANGED <<file, todo, posting, archive, registered, scans, aged, listed, astray>>

\* A leg reaches a level, an expiry or a reversal while the symbols are looked
\* at: evaluate_followups, or a reconcile from klines or tickers.
TickClose(k) ==
    /\ pc["tick"] = "symbols"
    /\ IsActive(copy["tick"], k)
    /\ \E c \in Closings(copy["tick"], {k}, "tick") : copy' = [copy EXCEPT !["tick"] = c]
    /\ AppendOutcome(NewlyClosed(copy["tick"], {k}))
    /\ UNCHANGED <<file, pc, todo, posting, registered, scans, aged, listed>>

AutoResolve_NoTimeout(quoted) ==        \* mutant: only tp1 and stop are looked at
    /\ pc["tick"] = "symbols"
    /\ pc' = [pc EXCEPT !["tick"] = "resolved"]
    /\ UNCHANGED <<file, copy, todo, posting, archive, registered, scans, aged, listed,
                   astray, upsets>>

\* auto_resolve_active_signals: of the legs whose symbol has a price, the aged
\* ones are closed, and any that are at a level.  A leg without a price is
\* skipped before its age is looked at; without tickers nothing is called.
AutoResolve(quoted) ==
    /\ pc["tick"] = "symbols"
    /\ LET priced == {k \in ActiveKeys(copy["tick"]) : k[1] \in quoted}
       IN  \E S \in SUBSET priced :
              /\ \A k \in priced : copy["tick"].signals[k].leg <= aged => k \in S
              /\ \E c \in Closings(copy["tick"], S, "tick") :
                    copy' = [copy EXCEPT !["tick"] = c]
              /\ AppendOutcome(NewlyClosed(copy["tick"], S))
    /\ pc' = [pc EXCEPT !["tick"] = "resolved"]
    /\ UNCHANGED <<file, todo, posting, registered, scans, aged, listed>>

\* The finally block, after the advisory digest's await.
TickEnd ==
    /\ pc["tick"] = "resolved"
    /\ Flush("tick") /\ Leave("tick")
    /\ UNCHANGED <<todo, posting, archive, registered, scans, aged, listed, astray, upsets>>

\* The tick raises or is cancelled: the finally block runs all the same.
TickFails ==
    /\ "tick_fails" \in Faults
    /\ pc["tick"] = "symbols"
    /\ Flush("tick") /\ Leave("tick")
    /\ UNCHANGED <<todo, posting, archive, registered, scans, aged, listed, astray, upsets>>

-----------------------------------------------------------------------------
(* _manipulation_scan_loop and deliver_manipulation_setups                 *)

ScanStart ==
    /\ pc["scan"] = "idle" /\ scans < MaxScans
    /\ pc' = [pc EXCEPT !["scan"] = "symbols"]
    /\ Load("scan")
    /\ scans' = scans + 1
    /\ todo' = Symbols
    /\ UNCHANGED <<file, posting, archive, registered, aged, listed, astray>>

\* A setup of direction k[2]: it is posted unless the copy has the leg open.
ScanPost(k) ==
    /\ pc["scan"] = "symbols" /\ k[1] \in todo
    /\ ~IsActive(copy["scan"], k)
    /\ todo' = todo \ {k[1]}
    /\ pc' = [pc EXCEPT !["scan"] = "sending"]
    /\ posting' = k
    /\ UNCHANGED <<file, copy, archive, registered, scans, aged, listed, astray, upsets>>

\* The send returns, whatever its status: the leg is registered in the copy.
ScanRegister ==
    /\ pc["scan"] = "sending"
    /\ RegisterLogs(copy["scan"], posting)
    /\ \E c \in Registrations(copy["scan"], posting, "scan") :
          copy' = [copy EXCEPT !["scan"] = c]
    /\ pc' = [pc EXCEPT !["scan"] = "symbols"]
    /\ posting' = None
    /\ UNCHANGED <<file, todo, scans, aged, listed>>

\* The send raises, or mission_delivery_block refuses the leg.
ScanSkip ==
    /\ pc["scan"] = "sending"
    /\ pc' = [pc EXCEPT !["scan"] = "symbols"]
    /\ posting' = None
    /\ UNCHANGED <<file, copy, todo, archive, registered, scans, aged, listed, astray,
                   upsets>>

ScanEnd ==
    /\ pc["scan"] = "symbols"
    /\ Flush("scan") /\ Leave("scan")
    /\ todo' = {}
    /\ UNCHANGED <<posting, archive, registered, scans, aged, listed, astray, upsets>>

\* An exception of a later symbol: the copy is dropped and never buffered.
ScanFails ==
    /\ "scan_fails" \in Faults
    /\ pc["scan"] = "symbols"
    /\ Leave("scan")
    /\ todo' = {}
    /\ UNCHANGED <<file, posting, archive, registered, scans, aged, listed, astray, upsets>>

-----------------------------------------------------------------------------
(* The emitter, the clock, the exchange, crashes and the disk              *)

\* _register_tracker after a lifecycle message has been sent.
DeepRegister(k) ==
    /\ RegisterLogs(file, k)
    /\ file' \in Registrations(file, k, "deep")
    /\ UNCHANGED <<copy, pc, todo, posting, scans, aged, listed>>

\* Legs age in the order they were opened in.
Age ==
    /\ aged < registered
    /\ aged' = aged + 1
    /\ UNCHANGED <<file, copy, pc, todo, posting, archive, registered, scans, listed,
                   astray, upsets>>

Delist(y) ==
    /\ Upset("delisted")
    /\ y \in listed /\ listed' = listed \ {y}
    /\ UNCHANGED <<file, copy, pc, todo, posting, archive, registered, scans, aged, astray>>

\* The process stops and starts again: the file and the archive are left.
Stop ==
    /\ copy' = [l \in Loops |-> None] /\ pc' = [l \in Loops |-> "idle"]
    /\ todo' = {} /\ posting' = None
    /\ UNCHANGED <<scans, aged, listed>>

Crash ==
    /\ \E l \in Loops : pc[l] # "idle"
    /\ Upset("crash")
    /\ Stop
    /\ UNCHANGED <<file, archive, registered, astray>>

\* A loop stands where its pass may end, by itself or by an exception.
Flushing(l) == pc[l] \in {"symbols", "resolved"}

\* The crash cuts the write of a flush short: what is left does not parse and
\* counts as an empty file from then on.
TornFlush(l) ==
    /\ Flushing(l) /\ Upset("torn_write")
    /\ file' = NoFile
    /\ Stop
    /\ UNCHANGED <<archive, registered, astray>>

\* The same in the write of a registration.
TornRegister(k) ==
    /\ Upset("torn_write")
    /\ registered < MaxLegs /\ registered' = registered + 1
    /\ AppendLines(NewlyClosed(file, {Opposite(k)}))
    /\ file' = NoFile
    /\ Stop
    /\ UNCHANGED astray

\* flush_tracker_state cannot read what it merges into: the copy replaces it.
FlushUnread(l) ==
    /\ Flushing(l) /\ Upset("read_fails")
    /\ file' = copy[l]
    /\ Leave(l)
    /\ todo' = IF l = "scan" THEN {} ELSE todo
    /\ UNCHANGED <<posting, archive, registered, scans, aged, listed, astray>>

\* The registration loads an empty file and saves it with its one leg.
RegisterUnread(k) ==
    /\ Upset("read_fails")
    /\ registered < MaxLegs /\ registered' = registered + 1
    /\ file' \in Registrations(NoFile, k, "deep")
    /\ UNCHANGED <<copy, pc, todo, posting, archive, scans, aged, listed, astray>>

\* The steps that lose what the file held.
Erases ==
    \/ \E l \in Loops : TornFlush(l) \/ FlushUnread(l)
    \/ \E k \in Keys : TornRegister(k) \/ RegisterUnread(k)

Tick == TickStart \/ (\E k \in Keys : TickClose(k))
            \/ (\E quoted \in SUBSET listed : AutoResolve(quoted)) \/ TickEnd \/ TickFails
Scan == ScanStart \/ (\E k \in Keys : ScanPost(k)) \/ ScanRegister
            \/ ScanSkip \/ ScanEnd \/ ScanFails

Next ==
    \/ Tick
    \/ Scan
    \/ \E k \in Keys : DeepRegister(k)
    \/ Age
    \/ \E y \in Symbols : Delist(y)
    \/ Crash
    \/ Erases

Spec == Init /\ [][Next]_vars

\* asyncio runs every task, and upsets are finitely many, crashes too.  Strong
\* fairness of AutoResolve is an assumption about the exchange and the ticks: the
\* tickers quote the symbols it lists again and again in ticks that get that far.
FairSpec ==
    /\ Spec
    /\ WF_vars(TickStart) /\ SF_vars(AutoResolve(listed)) /\ WF_vars(TickEnd)
    /\ WF_vars(ScanSkip) /\ WF_vars(ScanEnd)

-----------------------------------------------------------------------------
(* Properties                                                              *)

TypeOK ==
    /\ file \in File
    /\ copy \in [Loops -> File \union {None}]
    /\ pc \in [Loops -> {"idle", "symbols", "resolved", "sending"}]
    /\ todo \subseteq Symbols
    /\ posting \in Keys \union {None}
    /\ archive \in [Legs -> 0 .. 2]
    /\ registered \in 0 .. MaxLegs
    /\ scans \in 0 .. MaxScans
    /\ aged \in 0 .. MaxLegs
    /\ listed \subseteq Symbols /\ astray \subseteq Legs /\ upsets \in 0 .. MaxUpsets
    /\ \A l \in Loops : copy[l] = None <=> pc[l] = "idle"
    /\ posting = None <=> pc["scan"] # "sending"

\* Three writers flush copies of different ages and crash anywhere.  No step
\* takes a key out of the file, and a record of its closed_history goes only
\* when a new one fills the history up.  What the code does not prevent is named:
\* a write that a crash cuts short, and a rewrite of a file that cannot be read.
NothingErased ==
    [][Erases \/ /\ \A k \in Keys : file.signals[k] # None => file'.signals[k] # None
                 /\ \/ file.history \subseteq file'.history
                    \/ Cardinality(file'.history) = MaxHistory]_vars

\* Well typed, and signal_history.jsonl has at most one line about a leg, although two writers
\* may close it in their copies, or one of them again after a crash, and records
\* leave the history.  A search that misses the line is the exception.
ArchivedOnce == TypeOK /\ \A g \in Legs : archive[g] <= 1 \/ g \in astray

\* Every close a reader of the file can see has its line in the archive: the
\* archive is written before the copy that closed the leg is flushed.  A leg
\* without a line is one whose append failed.
ClosedIsArchived ==
    /\ \A k \in Keys : file.signals[k] # None /\ ~IsActive(file, k)
                         => archive[file.signals[k].leg] > 0 \/ file.signals[k].leg \in astray
    /\ \A r \in file.history : archive[r.leg] > 0 \/ r.leg \in astray

\* Legs older than the timeout, open in the file, of symbols that have prices.
Overdue ==
    {g \in Legs : \E k \in ActiveKeys(file) :
                     file.signals[k].leg = g /\ g <= aged /\ k[1] \in listed}

\* A leg older than the timeout does not stay open in the file, although stale
\* copies may open it again, ticks may fail and tickers be missing, unless the
\* exchange no longer quotes its symbol.
AgedAreResolved == \A g \in Legs : g \in Overdue ~> g \notin Overdue

\* What the merge promises: two writers collide on a key only when both touch it
\* in the same beat.  A leg that one writer has closed in the file is open in it
\* again when the other, which never touched the leg, writes back its copy.
ClosedStaysClosed ==
    [][\A k \in Keys : file.signals[k] # None /\ ~IsActive(file, k)
            => file'.signals[k] # [file.signals[k] EXCEPT !.status = "active"]]_vars
=============================================================================
