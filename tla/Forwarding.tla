----------------------------- MODULE Forwarding -----------------------------
(***************************************************************************)
(* Forwarding of programs to destinations (control-api/main.go): requests  *)
(* change rows of program, destination and program_destination, and then   *)
(* synchronise each program they touch: its path in MediaMTX lists the     *)
(* plain destinations, one FFmpeg relay per destination with a query in    *)
(* its URL is kept by control-api itself, in the map relays under relayMu. *)
(*                                                                         *)
(* A synchronisation reads rows, then keys, writes the path, and adapts    *)
(* the relays; nothing keeps two of them, or a request that changes the    *)
(* rows, from coming in between.  At boot all programs are synchronised,   *)
(* in a few attempts, by a goroutine.                                      *)
(*                                                                         *)
(* Not modelled: sources and recording of a path, the two requests of      *)
(* upsertPath and a restart of MediaMTX (module RecordingControl), the     *)
(* state a relay shows to users, and requests that only read.              *)
(***************************************************************************)
EXTENDS Integers, FiniteSets

CONSTANTS
    Programs, Destinations, Slugs,
    programs,          \* the slug of p at first, None when p has no row yet
    destinations,      \* the row of d at first, or None
    Rows,              \* the rows requests write
    Urls, Queries,     \* Queries: the URLs with a query
    Keys,              \* stream keys
    Handlers, Boot,    \* concurrent requests, and the goroutine of main
    None,
    MaxRuns,           \* goroutines of one relay, old ones included
    MaxAttempts,       \* of syncProgramWithRetry (3 in the code)
    MaxBootAttempts,   \* of the boot synchronisation (12 in the code)
    MaxRequests

ASSUME ForwardingAssumption ==
    /\ Queries \subseteq Urls
    /\ programs \in [Programs -> Slugs \cup {None}]
    /\ \A p, q \in Programs : programs[p] = programs[q] => p = q \/ programs[p] = None
    /\ Rows \subseteq [url : Urls, key : Keys, on : BOOLEAN] /\ None \notin Rows
    /\ destinations \in [Destinations -> Rows \cup {None}]
    /\ Boot \notin Handlers
    /\ None \notin Programs \cup Destinations \cup Slugs
    /\ Programs \cap Destinations = {}   \* `unused' holds ids of both tables
    /\ MaxRuns \in Nat \ {0} /\ MaxAttempts \in Nat \ {0} /\ MaxBootAttempts \in Nat \ {0}
    /\ MaxRequests \in Nat

VARIABLES
    slug,      \* slug[p] of the row of p, None when there is no row
    row,       \* row[d], None when there is no row
    bound,     \* bound[<<p, d>>]: the row of program_destination, "none", "off" or "on"
    unused,    \* ids that were never inserted; SQLite does not give them twice
    path,      \* path[s]: what MediaMTX forwards path s to, None without a path
    relay,     \* relay[<<p, d>>]: the entry of the map, NoRelay when absent
    run,       \* run[<<p, d>>][n]: a goroutine runFFmpegRelay, NoRun when over
    at,        \* at[h]: where the request, or the boot goroutine, is
    item,      \* the destination or slug it is about
    left,      \* programs it still has to synchronise
    prog,      \* the one it synchronises now, or None
    tries,     \* attempts that are left
    seen,      \* destinations and URLs it read for prog
    name,      \* the slug it read for prog
    body,      \* what it writes into the path
    alone,     \* (history) the request at work had the place to itself
    unsure,    \* (history) programs whose last synchronisation failed or was not alone
    requests

rows == <<slug, row, bound, unused>>
relays == <<relay, run>>
sync == <<prog, seen, name, body>>
call == <<at, item, left, tries, sync>>
ghost == <<alone, unsure>>
vars == <<rows, path, relays, call, ghost, requests>>

Workers == Handlers \cup {Boot}
Keyed == Programs \X Destinations
Addresses == Urls \X Keys

NoRelay == [n |-> 0, dest |-> None]
NoRun == [at |-> "over", slug |-> None, dest |-> None, live |-> FALSE]
Points == {"idle", "listing", "deleting", "unpath", "syncing", "keys", "upsert",
           "reconcile"}

TypeOK ==
    /\ slug \in [Programs -> Slugs \cup {None}]
    /\ row \in [Destinations -> Rows \cup {None}]
    /\ bound \in [Keyed -> {"none", "off", "on"}]
    /\ unused \subseteq Programs \cup Destinations
    /\ path \in [Slugs -> (SUBSET Addresses) \cup {None}]
    /\ relay \in [Keyed -> [n : 1 .. MaxRuns, dest : Addresses] \cup {NoRelay}]
    /\ run \in [Keyed -> [1 .. MaxRuns ->
                    [at : {"pushing", "pausing"}, slug : Slugs, dest : Addresses, live : BOOLEAN]
                        \cup {NoRun}]]
    /\ at \in [Workers -> Points]
    /\ item \in [Workers -> Destinations \cup Slugs \cup {None}]
    /\ left \in [Workers -> SUBSET Programs]
    /\ prog \in [Workers -> Programs \cup {None}]
    /\ tries \in [Workers -> Nat]
    /\ seen \in [Workers -> SUBSET (Destinations \X Urls)]
    /\ name \in [Workers -> Slugs \cup {None}]
    /\ body \in [Workers -> SUBSET Addresses]
    /\ alone \in BOOLEAN /\ unsure \subseteq Programs
    /\ requests \in 0 .. MaxRequests

(* The process starts: rows are what they are, nothing is forwarded or     *)
(* relayed yet.                                                            *)
Init ==
    /\ slug = programs
    /\ row = destinations
    /\ bound = [k \in Keyed |->
                    IF slug[k[1]] # None /\ row[k[2]] # None THEN "on" ELSE "none"]
    /\ unused = {p \in Programs : slug[p] = None} \cup {d \in Destinations : row[d] = None}
    /\ path = [s \in Slugs |-> None]
    /\ relay = [k \in Keyed |-> NoRelay]
    /\ run = [k \in Keyed |-> [n \in 1 .. MaxRuns |-> NoRun]]
    /\ at = [h \in Workers |-> IF h = Boot THEN "listing" ELSE "idle"]
    /\ item = [h \in Workers |-> None]
    /\ left = [h \in Workers |-> {}]
    /\ prog = [h \in Workers |-> None]
    /\ tries = [h \in Workers |-> IF h = Boot THEN MaxBootAttempts ELSE 0]
    /\ seen = [h \in Workers |-> {}]
    /\ name = [h \in Workers |-> None]
    /\ body = [h \in Workers |-> {}]
    /\ alone = TRUE /\ unsure = Programs
    /\ requests = 0

-----------------------------------------------------------------------------
(* Requests.                                                               *)

Idle(h) == at[h] = "idle"

Arrive(h) ==
    /\ Idle(h) /\ requests < MaxRequests
    /\ requests' = requests + 1
    /\ IF \A x \in Workers : Idle(x)
       THEN alone' = TRUE /\ UNCHANGED unsure
       ELSE alone' = FALSE /\ unsure' = Programs
    /\ UNCHANGED <<path, relays, sync>>

Then(h, p, x, todo, n) ==
    /\ at' = [at EXCEPT ![h] = p] /\ item' = [item EXCEPT ![h] = x]
    /\ left' = [left EXCEPT ![h] = todo] /\ tries' = [tries EXCEPT ![h] = n]

SyncWithRetry(h, todo) == Then(h, "syncing", None, todo, MaxAttempts)
SyncOnce(h, todo) == Then(h, "syncing", None, todo, 1)

(* POST .../destinations; the foreign keys ask for both rows.              *)
Bind(h) ==
    \E p \in Programs, d \in Destinations :
        /\ Arrive(h)
        /\ slug[p] # None /\ row[d] # None
        /\ bound' = [bound EXCEPT ![<<p, d>>] = "on"]
        /\ SyncWithRetry(h, {p})
        /\ UNCHANGED <<slug, row, unused>>

(* PATCH .../destinations/d, also when there is nothing to update.         *)
SwitchBinding(h) ==
    \E p \in Programs, d \in Destinations, to \in {"off", "on"} :
        /\ Arrive(h)
        /\ bound' = [bound EXCEPT ![<<p, d>>] = IF @ = "none" THEN @ ELSE to]
        /\ SyncWithRetry(h, {p})
        /\ UNCHANGED <<slug, row, unused>>

(* DELETE .../destinations/d: one attempt.                                 *)
Unbind(h) ==
    \E p \in Programs, d \in Destinations :
        /\ Arrive(h)
        /\ bound' = [bound EXCEPT ![<<p, d>>] = "none"]
        /\ SyncOnce(h, {p})
        /\ UNCHANGED <<slug, row, unused>>

(* POST /destinations; nothing is bound to the new row.                    *)
CreateDestination(h) ==
    \E d \in unused \cap Destinations, new \in Rows :
        /\ Arrive(h)
        /\ row' = [row EXCEPT ![d] = new] /\ unused' = unused \ {d}
        /\ UNCHANGED <<slug, bound, at, item, left, tries>>

(* PATCH /destinations/d writes every column, whatever it read of them     *)
(* before; then syncProgramsForDestination.                                *)
PatchDestination(h) ==
    \E d \in Destinations, new \in Rows :
        /\ Arrive(h)
        /\ row[d] # None
        /\ row' = [row EXCEPT ![d] = new]
        /\ Then(h, "listing", d, {}, MaxAttempts)
        /\ UNCHANGED <<slug, bound, unused>>

BoundTo(d) == {p \in Programs : bound[<<p, d>>] # "none"}

(* DELETE /destinations/d asks first to which programs it is bound ...     *)
DeleteDestination(h) ==
    \E d \in Destinations :
        /\ Arrive(h)
        /\ Then(h, "deleting", d, BoundTo(d), MaxAttempts)
        /\ UNCHANGED rows

DestinationDeletedFirst(h) ==   \* variant: asks when the bindings are gone
    /\ at[h] = "deleting"
    /\ row' = [row EXCEPT ![item[h]] = None]
    /\ bound' = [k \in Keyed |-> IF k[2] = item[h] THEN "none" ELSE bound[k]]
    /\ SyncWithRetry(h, {})
    /\ UNCHANGED <<slug, unused, path, relays, sync, ghost, requests>>

(* ... and then deletes, the rows of program_destination too.              *)
DestinationDeleted(h) ==
    /\ at[h] = "deleting"
    /\ row' = [row EXCEPT ![item[h]] = None]
    /\ bound' = [k \in Keyed |-> IF k[2] = item[h] THEN "none" ELSE bound[k]]
    /\ SyncWithRetry(h, left[h])
    /\ UNCHANGED <<slug, unused, path, relays, sync, ghost, requests>>

Free(s) == \A p \in Programs : slug[p] # s

CreateProgram(h) ==
    \E p \in unused \cap Programs, s \in Slugs :
        /\ Arrive(h)
        /\ Free(s)
        /\ slug' = [slug EXCEPT ![p] = s] /\ unused' = unused \ {p}
        /\ SyncOnce(h, {p})
        /\ UNCHANGED <<row, bound>>

(* PATCH /programs/p, perhaps with a new slug.                             *)
PatchProgram(h) ==
    \E p \in Programs, s \in Slugs :
        /\ Arrive(h)
        /\ slug[p] # None /\ (s = slug[p] \/ Free(s))
        /\ slug' = [slug EXCEPT ![p] = s]
        /\ SyncOnce(h, {p})
        /\ UNCHANGED <<row, bound, unused>>

(* DELETE /programs/p: the row and its bindings, then the path.  Nobody    *)
(* looks at the relays.                                                    *)
DeleteProgram(h) ==
    \E p \in Programs :
        /\ Arrive(h)
        /\ slug[p] # None
        /\ slug' = [slug EXCEPT ![p] = None]
        /\ bound' = [k \in Keyed |-> IF k[1] = p THEN "none" ELSE bound[k]]
        /\ Then(h, "unpath", slug[p], {}, 0)
        /\ UNCHANGED <<row, unused>>

Leave(h) == Then(h, "idle", None, {}, 0)

DeletePath(h) ==
    /\ at[h] = "unpath"
    /\ \/ path' = [path EXCEPT ![item[h]] = None]
       \/ UNCHANGED path
    /\ Leave(h)
    /\ UNCHANGED <<rows, relays, sync, ghost, requests>>

-----------------------------------------------------------------------------
(* syncProgramsForDestination, and syncAllPrograms of the boot goroutine.  *)

List(h) ==
    /\ at[h] = "listing"
    /\ at' = [at EXCEPT ![h] = "syncing"]
    /\ item' = [item EXCEPT ![h] = None]
    /\ left' = [left EXCEPT ![h] =
            IF h = Boot THEN {p \in Programs : slug[p] # None} ELSE BoundTo(item[h])]
    /\ UNCHANGED <<rows, path, relays, tries, sync, ghost, requests>>

Finish(h) ==
    /\ at[h] = "syncing" /\ left[h] = {}
    /\ Leave(h)
    /\ UNCHANGED <<rows, path, relays, sync, ghost, requests>>

-----------------------------------------------------------------------------
(* syncProgram.                                                            *)

Forget(h) ==
    /\ prog' = [prog EXCEPT ![h] = None] /\ seen' = [seen EXCEPT ![h] = {}]
    /\ name' = [name EXCEPT ![h] = None] /\ body' = [body EXCEPT ![h] = {}]

(* An attempt for program p failed: another one, or the next program; the  *)
(* boot goroutine begins with the first program again.                     *)
AttemptFails(h, p) ==
    /\ IF tries[h] > 1
       THEN /\ tries' = [tries EXCEPT ![h] = @ - 1]
            /\ at' = [at EXCEPT ![h] = IF h = Boot THEN "listing" ELSE "syncing"]
            /\ left' = IF h = Boot THEN [left EXCEPT ![h] = {}] ELSE left
            /\ prog' = [prog EXCEPT ![h] = IF h = Boot THEN None ELSE p]
            /\ UNCHANGED <<item, unsure>>
       ELSE /\ unsure' = unsure \cup {p}
            /\ prog' = [prog EXCEPT ![h] = None]
            /\ IF h = Boot
               THEN Leave(h)
               ELSE /\ at' = [at EXCEPT ![h] = "syncing"]
                    /\ left' = [left EXCEPT ![h] = @ \ {p}]
                    /\ tries' = [tries EXCEPT ![h] = MaxAttempts]
                    /\ UNCHANGED item
    /\ seen' = [seen EXCEPT ![h] = {}]
    /\ name' = [name EXCEPT ![h] = None] /\ body' = [body EXCEPT ![h] = {}]
    /\ UNCHANGED <<rows, relays, alone, requests>>

(* programDestinationList: bindings and destinations that are enabled.     *)
Listed(p) == {d \in Destinations : bound[<<p, d>>] = "on" /\ row[d].on}

Read(h) ==
    \E p \in left[h] :
        /\ at[h] = "syncing" /\ prog[h] \in {None, p}
        /\ IF slug[p] = None
           THEN AttemptFails(h, p) /\ UNCHANGED path
           ELSE /\ at' = [at EXCEPT ![h] = "keys"]
                /\ prog' = [prog EXCEPT ![h] = p]
                /\ name' = [name EXCEPT ![h] = slug[p]]
                /\ seen' = [seen EXCEPT ![h] = {<<d, row[d].url>> : d \in Listed(p)}]
                /\ UNCHANGED <<rows, path, relays, item, left, tries, body, ghost, requests>>

(* The cipher of each destination; a row that is gone ends the attempt.    *)
ReadKeys(h) ==
    /\ at[h] = "keys"
    /\ IF \E e \in seen[h] : row[e[1]] = None
       THEN AttemptFails(h, prog[h]) /\ UNCHANGED path
       ELSE /\ at' = [at EXCEPT ![h] = "upsert"]
            /\ body' = [body EXCEPT ![h] =
                    {<<e[2], row[e[1]].key>> : e \in {e \in seen[h] : e[2] \notin Queries}}]
            /\ UNCHANGED <<rows, path, relays, item, left, tries, prog, seen, name, ghost, requests>>

Upsert(h) ==
    /\ at[h] = "upsert"
    /\ path' = [path EXCEPT ![name[h]] = body[h]]
    /\ at' = [at EXCEPT ![h] = "reconcile"]
    /\ UNCHANGED <<rows, relays, item, left, tries, sync, ghost, requests>>

(* The request fails, applied or not.                                      *)
UpsertLost(h) ==
    /\ at[h] = "upsert"
    /\ path' \in {path, [path EXCEPT ![name[h]] = body[h]]}
    /\ AttemptFails(h, prog[h])

(* The browser goes away: the context of the request is done, and neither  *)
(* a request to MediaMTX nor a retry follows.                              *)
HangUp(h) ==
    /\ h # Boot /\ at[h] \in {"syncing", "upsert"} /\ left[h] # {}
    /\ unsure' = unsure \cup left[h]
    /\ Leave(h) /\ Forget(h)
    /\ UNCHANGED <<rows, path, relays, alone, requests>>

-----------------------------------------------------------------------------
(* reconcileFFmpegRelays: the keys are read once more, a destination whose *)
(* row is gone is left out.                                                *)

Desired(h) ==
    {<<prog[h], e[1]>> : e \in {e \in seen[h] : e[2] \in Queries /\ row[e[1]] # None}}

DestOf(h, k) ==
    LET e == CHOOSE x \in seen[h] : x[1] = k[2] IN <<e[2], row[k[2]].key>>

Stays(h, k) == k \in Desired(h) /\ relay[k].dest = DestOf(h, k)
Cancels(h, k) == k[1] = prog[h] /\ relay[k] # NoRelay /\ ~Stays(h, k)
Starts(h, k) == k \in Desired(h) /\ ~Stays(h, k)

IsFresh(k, n) == run[k][n] = NoRun
FreshRun(k) == CHOOSE n \in 1 .. MaxRuns : IsFresh(k, n)

Cancelled(h, k, n) == Cancels(h, k) /\ relay[k].n = n

AdaptRelay(h, k) ==
    CASE Starts(h, k)  -> [n |-> FreshRun(k), dest |-> DestOf(h, k)]
      [] Cancels(h, k) /\ ~Starts(h, k) -> NoRelay
      [] OTHER -> relay[k]

AdaptRunNotReplaced(h, k, n) ==   \* variant: an entry is replaced, its run goes on
    CASE Cancelled(h, k, n) /\ ~Starts(h, k) -> [run[k][n] EXCEPT !.live = FALSE]
      [] Starts(h, k) /\ n = FreshRun(k) ->
            [at |-> "pushing", slug |-> name[h], dest |-> DestOf(h, k), live |-> TRUE]
      [] OTHER -> run[k][n]

AdaptRun(h, k, n) ==
    CASE Cancelled(h, k, n) -> [run[k][n] EXCEPT !.live = FALSE]
      [] Starts(h, k) /\ n = FreshRun(k) ->
            [at |-> "pushing", slug |-> name[h], dest |-> DestOf(h, k), live |-> TRUE]
      [] OTHER -> run[k][n]

Reconcile(h) ==
    /\ at[h] = "reconcile"
    /\ \A k \in Keyed : Starts(h, k) => \E n \in 1 .. MaxRuns : IsFresh(k, n)
    /\ relay' = [k \in Keyed |-> AdaptRelay(h, k)]
    /\ run' = [k \in Keyed |-> [n \in 1 .. MaxRuns |-> AdaptRun(h, k, n)]]
    /\ at' = [at EXCEPT ![h] = "syncing"]
    /\ left' = [left EXCEPT ![h] = @ \ {prog[h]}]
    /\ tries' = IF h = Boot THEN tries ELSE [tries EXCEPT ![h] = MaxAttempts]
    /\ unsure' = IF alone THEN unsure \ {prog[h]} ELSE unsure
    /\ Forget(h)
    /\ UNCHANGED <<rows, path, item, alone, requests>>

-----------------------------------------------------------------------------
(* runFFmpegRelay, the state it shows left out.                            *)

Move(k, n, p) == run' = [run EXCEPT ![k][n] = [@ EXCEPT !.at = p]]
Return(k, n) == run' = [run EXCEPT ![k][n] = NoRun]

(* FFmpeg ends, killed or not; a cancelled run is over.                    *)
Exit(k, n) ==
    /\ run[k][n].at = "pushing"
    /\ IF run[k][n].live THEN Move(k, n, "pausing") ELSE Return(k, n)
    /\ UNCHANGED <<rows, path, relay, call, ghost, requests>>

Killed(k, n) == ~run[k][n].live /\ Exit(k, n)

ReturnAfterPause(k, n) ==   \* variant: an error ends the relay
    /\ run[k][n].at = "pausing"
    /\ Return(k, n)
    /\ UNCHANGED <<rows, path, relay, call, ghost, requests>>

(* Five seconds are over, or the context is done.                          *)
Resume(k, n) ==
    /\ run[k][n].at = "pausing"
    /\ IF run[k][n].live THEN Move(k, n, "pushing") ELSE Return(k, n)
    /\ UNCHANGED <<rows, path, relay, call, ghost, requests>>

(* control-api stops and starts: requests and relays are gone, main        *)
(* synchronises.  FFmpeg that ends well and says nothing is such a stop:   *)
(* err.Error() of a nil error.                                             *)
Restart ==
    /\ relay' = [k \in Keyed |-> NoRelay]
    /\ run' = [k \in Keyed |-> [n \in 1 .. MaxRuns |-> NoRun]]
    /\ at' = [h \in Workers |-> IF h = Boot THEN "listing" ELSE "idle"]
    /\ item' = [h \in Workers |-> None] /\ left' = [h \in Workers |-> {}]
    /\ tries' = [h \in Workers |-> IF h = Boot THEN MaxBootAttempts ELSE 0]
    /\ prog' = [h \in Workers |-> None] /\ seen' = [h \in Workers |-> {}]
    /\ name' = [h \in Workers |-> None] /\ body' = [h \in Workers |-> {}]
    /\ alone' = TRUE /\ unsure' = Programs
    /\ UNCHANGED <<rows, path, requests>>

-----------------------------------------------------------------------------
Request(h) ==
    \/ Bind(h) \/ SwitchBinding(h) \/ Unbind(h)
    \/ CreateDestination(h) \/ PatchDestination(h) \/ DeleteDestination(h)
    \/ CreateProgram(h) \/ PatchProgram(h) \/ DeleteProgram(h)

Step(h) ==
    \/ DestinationDeleted(h) \/ DeletePath(h) \/ List(h) \/ Finish(h)
    \/ Read(h) \/ ReadKeys(h) \/ Upsert(h) \/ Reconcile(h)

Next ==
    \/ \E h \in Handlers : Request(h) \/ HangUp(h)
    \/ \E h \in Workers : Step(h) \/ UpsertLost(h)
    \/ \E k \in Keyed, n \in 1 .. MaxRuns : Resume(k, n) \/ Exit(k, n)
    \/ Restart

Spec == Init /\ [][Next]_vars

(* Handlers and goroutines run, a cancelled FFmpeg is killed; nothing is   *)
(* asked of users, of lost requests or of an FFmpeg that works.            *)
Fairness ==
    /\ \A h \in Workers : WF_vars(Step(h))
    /\ \A k \in Keyed, n \in 1 .. MaxRuns : WF_vars(Resume(k, n) \/ Killed(k, n))

FairSpec == Spec /\ Fairness

-----------------------------------------------------------------------------
(* Properties.                                                             *)

(* The map is the only handle to cancel a relay: every goroutine that was  *)
(* not cancelled is the one of its entry and pushes to the destination the *)
(* entry names, whatever synchronisations of old rows come in between; so  *)
(* never two of them push to one destination.                              *)
RelayIsReachable ==
    \A k \in Keyed, n \in 1 .. MaxRuns :
        run[k][n].live => relay[k].n = n /\ relay[k].dest = run[k][n].dest

Wanted(p) == {d \in Listed(p) : row[d].url \notin Queries}
WantedRelays(p) == Listed(p) \ Wanted(p)
Address(d) == <<row[d].url, row[d].key>>

(* "Destination edits must take effect immediately; otherwise the old      *)
(* URL/key remains": when nothing is at work, a program whose last         *)
(* synchronisation was alone and succeeded is forwarded and relayed to     *)
(* what the rows say, and to nothing else; no request since touched it     *)
(* without synchronising it.                                               *)
EditsTakeEffect ==
    (\A h \in Workers : Idle(h)) =>
        \A p \in Programs \ unsure : slug[p] # None =>
            /\ path[slug[p]] = {Address(d) : d \in Wanted(p)}
            /\ \A d \in Destinations :
                  relay[<<p, d>>].dest = IF d \in WantedRelays(p) THEN Address(d) ELSE None

Pushing(p, d) ==
    /\ row[d] # None
    /\ \E n \in 1 .. MaxRuns :
           run[<<p, d>>][n].at = "pushing" /\ run[<<p, d>>][n].dest = Address(d)

(* A relay the rows want, of a program that was synchronised since, is     *)
(* pushing again and again, although FFmpeg ends, relays are replaced and  *)
(* control-api restarts and has to start all of them anew.                 *)
RelayComesBack ==
    \A p \in Programs, d \in Destinations :
        []<>(slug[p] # None /\ p \notin unsure /\ d \in WantedRelays(p) => Pushing(p, d))

=============================================================================
