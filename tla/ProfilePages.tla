---------------------------- MODULE ProfilePages ----------------------------
(***************************************************************************)
(* GET /profiles (profile.Handler.list, ProfileRepository.List) walked by  *)
(* a client that follows next_cursor, while profiles are created.  A page  *)
(* is the user's live rows with created_at before the cursor, ORDER BY     *)
(* created_at DESC LIMIT limit; SQL leaves the order of equal created_at   *)
(* open, so a page is any such top-limit set.  next_cursor is the last     *)
(* row's created_at formatted as RFC3339, which keeps whole seconds only,  *)
(* and time.Parse of it gives back that second.                            *)
(*                                                                         *)
(* Time is counted in ticks, TicksPerSecond to the second; a profile's     *)
(* created_at is the tick of its time.Now().  Only the rows of one user,   *)
(* without search or offset, are modelled: the WHERE on user_id and the    *)
(* LIKE filter narrow the rows, they do not change how pages follow each   *)
(* other.  Soft delete and the failures of a create are ProfileStore's.    *)
(***************************************************************************)
EXTENDS Naturals, FiniteSets

CONSTANTS
    Profiles,        \* ids uuid.New returns
    TicksPerSecond,  \* clock resolution within one RFC3339 second
    MaxTick,         \* bound on the clock
    LimitQueries,    \* values of ?limit= the client sends
    NONE             \* no cursor

ASSUME TicksPerSecond \in Nat \ {0} /\ MaxTick \in Nat

LOCAL Conf == INSTANCE Config

VARIABLES
    rows,   \* the user's live profiles: [id, at]
    now,    \* the clock
    walk    \* the client: st, limit, cursor, ids seen, ids live at the start

vars == <<rows, now, walk>>

Ids(R) == {r.id : r \in R}

(* response.GetLimit: fallback when absent, unparsable or <= 0; capped.    *)
GetLimit(q, fallback, max) ==
    IF q = "" \/ ~Conf!AtoiOK(q) THEN fallback
    ELSE LET n == Conf!Atoi(q)
         IN  CASE n <= 0             -> fallback
               [] max > 0 /\ n > max -> max
               [] OTHER              -> n

(* The SELECT of ProfileRepository.List: the rows created before the       *)
(* cursor, newest first, the first limit of them; ties in any order.       *)
Pages(R, cursor, limit) ==
    LET E == {r \in R : cursor = NONE \/ r.at < cursor}
        n == IF Cardinality(E) < limit THEN Cardinality(E) ELSE limit
    IN  {P \in SUBSET E :
            /\ Cardinality(P) = n
            /\ \A x \in P, y \in E \ P : y.at <= x.at}

(* next_cursor: "" for an empty page, else the last row's created_at in    *)
(* RFC3339, which the next request parses back to the start of its second.*)
NextCursor(P) ==
    IF P = {} THEN NONE
    ELSE LET last == CHOOSE r \in P : \A s \in P : r.at <= s.at
         IN  (last.at \div TicksPerSecond) * TicksPerSecond

Init ==
    /\ rows = {}
    /\ now = 0
    /\ walk = [st |-> "idle", limit |-> 0, cursor |-> NONE, seen |-> {},
               start |-> {}]

(* Service.Create and each profile of Service.BulkCreate: a new row with   *)
(* created_at = time.Now().UTC().  No two profiles are given the same      *)
(* tick: exact ties, which Postgres' microseconds make rare, are ruled     *)
(* out, so what the walk misses is not owed to them.                       *)
Create(p) ==
    /\ p \notin Ids(rows)
    /\ now \notin {r.at : r \in rows}
    /\ rows' = rows \cup {[id |-> p, at |-> now]}
    /\ UNCHANGED <<now, walk>>

Tick ==
    /\ now < MaxTick
    /\ now' = now + 1
    /\ UNCHANGED <<rows, walk>>

(* The first GET /profiles?limit=q, without cursor.                        *)
ListFirst(q) ==
    /\ walk.st = "idle"
    /\ LET limit == GetLimit(q, 20, 100) IN
       \E P \in Pages(rows, NONE, limit) :
         walk' = [st |-> IF P = {} THEN "done" ELSE "walking", limit |-> limit,
                  cursor |-> NextCursor(P), seen |-> Ids(P),
                  start |-> Ids(rows)]
    /\ UNCHANGED <<rows, now>>

(* The next GET /profiles?limit=q&cursor=next_cursor; the walk ends on an  *)
(* empty page, whose next_cursor is "".                                    *)
ListNext ==
    /\ walk.st = "walking"
    /\ \E P \in Pages(rows, walk.cursor, walk.limit) :
         walk' = [walk EXCEPT !.st = IF P = {} THEN "done" ELSE "walking",
                              !.cursor = NextCursor(P),
                              !.seen = @ \cup Ids(P)]
    /\ UNCHANGED <<rows, now>>

(* The walk is over: the behaviour may stop.                               *)
Done ==
    /\ walk.st = "done"
    /\ UNCHANGED vars

Next ==
    \/ \E p \in Profiles : Create(p)
    \/ Tick
    \/ \E q \in LimitQueries : ListFirst(q)
    \/ ListNext
    \/ Done

Spec == Init /\ [][Next]_vars

-----------------------------------------------------------------------------

TypeOK ==
    /\ rows \subseteq [id: Profiles, at: 0..MaxTick]
    /\ now \in 0..MaxTick
    /\ walk.st \in {"idle", "walking", "done"}
    /\ walk.seen \subseteq Profiles /\ walk.start \subseteq Profiles

(* A client that follows next_cursor until it comes back "" has been shown *)
(* every profile that existed when it asked for the first page (rows are   *)
(* only added here, and later ones are newer than every cursor).           *)
CursorWalkComplete ==
    walk.st = "done" => walk.start \subseteq walk.seen

=============================================================================
