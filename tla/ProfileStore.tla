----------------------------- MODULE ProfileStore -----------------------------
(***************************************************************************)
(* Profile writes with optimistic versioning: profile.Service              *)
(* (internal/domain/profile/service.go) over ProfileRepository             *)
(* (internal/infrastructure/db/profile_repository.go).  The profiles table *)
(* is the shared state; every SQL statement is atomic, and a service call  *)
(* that reads (GetByID) and then writes is two steps, between which other  *)
(* requests run.  All profiles belong to the one calling user: every       *)
(* statement filters on user_id, so other owners add nothing.              *)
(*                                                                         *)
(* A row is "absent" (its uuid not yet used), "live", "deleted" (soft,     *)
(* deleted_at set) or "erased" (hard DELETE).  Column values other than    *)
(* the version are left out.  Calls that fail without writing change      *)
(* nothing and are stuttering steps, except the PATCH and DELETE answers   *)
(* kept in answer.                                                         *)
(***************************************************************************)
EXTENDS Naturals, FiniteSets

CONSTANTS
    Profiles,     \* profile ids (uuid.New) used in one behaviour
    Workers,      \* requests in flight at once
    MaxVersion    \* bound on the version column

ASSUME MaxVersion \in Nat \ {0}

VARIABLES
    row,        \* profiles table: id -> [state, version]
    pc,         \* per worker: Update / Delete read, Patch written
    commits,    \* per id: writes reported successful that bump the version
    reported,   \* ids a create call reported as created
    answer      \* per worker: status and id of its last PATCH or DELETE

vars == <<row, pc, commits, reported, answer>>

States == {"absent", "live", "deleted", "erased"}

Versions == 0..MaxVersion

Idle == [op |-> "idle", id |-> CHOOSE p \in Profiles : TRUE, v |-> 0,
         hard |-> FALSE]

(* Rows an UPDATE/DELETE ... WHERE id = ? AND user_id = ? can hit: the     *)
(* WHERE clauses of Update, Patch, Delete and BulkDelete do not test       *)
(* deleted_at.                                                             *)
InTable(p) == row[p].state \in {"live", "deleted"}

(* GetByID: ... AND deleted_at IS NULL.                                    *)
Visible(p) == row[p].state = "live"

Init ==
    /\ row = [p \in Profiles |-> [state |-> "absent", version |-> 0]]
    /\ pc = [w \in Workers |-> Idle]
    /\ commits = [p \in Profiles |-> 0]
    /\ reported = {}
    /\ answer = [w \in Workers |-> [code |-> 0, id |-> Idle.id]]

(* Mutant: the Profile literal leaves Version at its zero value.           *)
CreateNoVersion(w, p) ==
    /\ pc[w].op = "idle"
    /\ row[p].state = "absent"
    /\ row' = [row EXCEPT ![p] = [state |-> "live", version |-> 0]]
    /\ reported' = reported \cup {p}
    /\ UNCHANGED <<pc, commits, answer>>

(* Service.Create: INSERT with version 1.                                  *)
Create(w, p) ==
    /\ pc[w].op = "idle"
    /\ row[p].state = "absent"
    /\ row' = [row EXCEPT ![p] = [state |-> "live", version |-> 1]]
    /\ reported' = reported \cup {p}
    /\ UNCHANGED <<pc, commits, answer>>

(* ProfileRepository.BulkCreate: the INSERTs of S run in one transaction  *)
(* that commits them all or, on any error, rolls them all back.            *)
BulkInsert(S) ==
    { [p \in Profiles |-> IF p \in S THEN [state |-> "live", version |-> 1]
                                     ELSE row[p]],
      row }

(* Service.BulkCreate: the valid payloads go to the repository, whose      *)
(* error is dropped; all of them are reported as created either way.       *)
BulkCreate(w, S) ==
    /\ pc[w].op = "idle"
    /\ S # {}
    /\ \A p \in S : row[p].state = "absent"
    /\ row' \in BulkInsert(S)
    /\ reported' = reported \cup S
    /\ UNCHANGED <<pc, commits, answer>>

(* Service.Update, first half: GetByID finds a live row whose version is   *)
(* the one in the request.                                                 *)
UpdateRead(w, p, v) ==
    /\ pc[w].op = "idle"
    /\ Visible(p)
    /\ row[p].version = v
    /\ v < MaxVersion
    /\ pc' = [pc EXCEPT ![w] = [op |-> "update", id |-> p, v |-> v,
                                hard |-> FALSE]]
    /\ UNCHANGED <<row, commits, reported, answer>>

(* Mutant: Update writes back the version it read, without Version++.      *)
UpdateWriteNoBump(w) ==
    /\ pc[w].op = "update"
    /\ LET p == pc[w].id IN
         /\ InTable(p)
         /\ row' = [row EXCEPT ![p].version = pc[w].v]
         /\ commits' = [commits EXCEPT ![p] = @ + 1]
    /\ pc' = [pc EXCEPT ![w] = Idle]
    /\ UNCHANGED <<reported, answer>>

(* Mutant: the write is an upsert (save), recreating a row deleted since.  *)
UpdateWriteUpsert(w) ==
    /\ pc[w].op = "update"
    /\ LET p == pc[w].id IN
         /\ row' = [row EXCEPT ![p] = [state |-> "live",
                                       version |-> pc[w].v + 1]]
         /\ commits' = [commits EXCEPT ![p] = @ + 1]
    /\ pc' = [pc EXCEPT ![w] = Idle]
    /\ UNCHANGED <<reported, answer>>

(* Service.Update, second half: Version++ on the copy read, then           *)
(* ProfileRepository.Update, UPDATE ... SET version = :version WHERE id    *)
(* AND user_id; no rows affected is ErrNotFound.                           *)
UpdateWrite(w) ==
    /\ pc[w].op = "update"
    /\ LET p == pc[w].id IN
         \/ /\ InTable(p)
            /\ row' = [row EXCEPT ![p].version = pc[w].v + 1]
            /\ commits' = [commits EXCEPT ![p] = @ + 1]
         \/ /\ ~InTable(p)
            /\ UNCHANGED <<row, commits>>
    /\ pc' = [pc EXCEPT ![w] = Idle]
    /\ UNCHANGED <<reported, answer>>

(* Handler.handleError (and Handler.delete's 204 on success): the status  *)
(* of the answer.                                                          *)
HandleError(err) ==
    CASE err = "ok"        -> 204
      [] err = "not_found" -> 404
      [] err = "conflict"  -> 409
      [] err = "internal"  -> 500

(* ProfileRepository.Patch: UPDATE ... SET version = version + 1 WHERE id  *)
(* AND user_id AND version = ?; no rows affected is ErrVersionConflict.    *)
PatchHits(p, v) == InTable(p) /\ row[p].version = v

(* Service.Patch: the whitelisted, sanitised fields (none left is an       *)
(* error without a write) go to ProfileRepository.Patch, whose UPDATE is   *)
(* this step.  A miss is ErrVersionConflict, answered 409; a hit goes on   *)
(* to fetchByID, a statement of its own.                                   *)
PatchWrite(w, p, v) ==
    /\ pc[w].op = "idle"
    /\ \/ /\ PatchHits(p, v)
          /\ v < MaxVersion
          /\ row' = [row EXCEPT ![p].version = v + 1]
          /\ commits' = [commits EXCEPT ![p] = @ + 1]
          /\ pc' = [pc EXCEPT ![w] = [Idle EXCEPT !.op = "patch", !.id = p,
                                                  !.v = v]]
          /\ UNCHANGED answer
       \/ /\ ~PatchHits(p, v)
          /\ answer' = [answer EXCEPT ![w] = [code |-> HandleError("conflict"),
                                              id |-> p]]
          /\ UNCHANGED <<row, commits, pc>>
    /\ UNCHANGED reported

(* ProfileRepository.fetchByID: SELECT * WHERE id = ?, without user_id or  *)
(* deleted_at; a soft-deleted row is found, an erased one is               *)
(* sql.ErrNoRows.  Either error is returned as is.                         *)
Fetched(p) == InTable(p)

(* Patch, after its UPDATE: fetchByID, whose query may also fail (readOk   *)
(* FALSE) though the UPDATE committed.  The row is answered 200; an error  *)
(* goes to handleError, whose default is 500.                              *)
PatchFetch(w) ==
    /\ pc[w].op = "patch"
    /\ \E readOk \in BOOLEAN :
         LET p == pc[w].id IN
         answer' = [answer EXCEPT ![w] =
                      [code |-> IF readOk /\ Fetched(p) THEN 200
                                ELSE HandleError("internal"),
                       id |-> p]]
    /\ pc' = [pc EXCEPT ![w] = Idle]
    /\ UNCHANGED <<row, commits, reported>>

(* Service.Delete, first half: GetByID finds a live row at the version in  *)
(* the request.                                                            *)
DeleteRead(w, p, v, hard) ==
    /\ pc[w].op = "idle"
    /\ Visible(p)
    /\ row[p].version = v
    /\ v < MaxVersion
    /\ pc' = [pc EXCEPT ![w] = [op |-> "delete", id |-> p, v |-> v,
                                hard |-> hard]]
    /\ UNCHANGED <<row, commits, reported, answer>>


(* Service.Delete, second half: ProfileRepository.Delete.  Hard: DELETE    *)
(* WHERE id AND user_id AND version; no row matched is ErrNotFound.  Soft: *)
(* UPDATE SET deleted_at, version = version + 1 under the same WHERE; no   *)
(* row matched is ErrVersionConflict.  The handler answers the error.      *)
DeleteWrite(w) ==
    /\ pc[w].op = "delete"
    /\ LET p == pc[w].id
           hit == InTable(p) /\ row[p].version = pc[w].v
           err == CASE hit         -> "ok"
                    [] pc[w].hard  -> "not_found"
                    [] OTHER       -> "conflict"
       IN  /\ answer' = [answer EXCEPT ![w] = [code |-> HandleError(err),
                                               id |-> p]]
           /\ \/ /\ hit /\ pc[w].hard
                 /\ row' = [row EXCEPT ![p].state = "erased"]
                 /\ UNCHANGED commits
              \/ /\ hit /\ ~pc[w].hard
                 /\ row' = [row EXCEPT ![p] = [state |-> "deleted",
                                               version |-> @.version + 1]]
                 /\ commits' = [commits EXCEPT ![p] = @ + 1]
              \/ /\ ~hit
                 /\ UNCHANGED <<row, commits>>
    /\ pc' = [pc EXCEPT ![w] = Idle]
    /\ UNCHANGED reported

(* ProfileRepository.BulkDelete: one statement over the ids, no version:   *)
(* hard is DELETE, soft is UPDATE SET deleted_at (the version is not       *)
(* bumped); zero rows affected is (0, nil), a call that changes nothing.  *)
BulkDeleted(S, hard) ==
    [p \in Profiles |->
       IF p \in S /\ InTable(p)
         THEN [row[p] EXCEPT !.state = IF hard THEN "erased" ELSE "deleted"]
         ELSE row[p]]

(* Service.BulkDelete: an empty id list is an error; otherwise the         *)
(* repository call.                                                        *)
BulkDelete(w, S, hard) ==
    /\ pc[w].op = "idle"
    /\ S # {}
    /\ \E p \in S : InTable(p)
    /\ row' = BulkDeleted(S, hard)
    /\ UNCHANGED <<pc, commits, reported, answer>>

(* Every row is gone or at the version bound and no request is in flight.  *)
Done ==
    /\ \A w \in Workers : pc[w].op = "idle"
    /\ \A p \in Profiles :
         row[p].state = "erased" \/ row[p].version = MaxVersion
    /\ UNCHANGED vars

Next ==
    \/ \E w \in Workers :
         \/ \E p \in Profiles : Create(w, p)
         \/ \E S \in SUBSET Profiles : BulkCreate(w, S)
         \/ \E p \in Profiles, v \in Versions : UpdateRead(w, p, v)
         \/ UpdateWrite(w)
         \/ \E p \in Profiles, v \in Versions : PatchWrite(w, p, v)
         \/ PatchFetch(w)
         \/ \E p \in Profiles, v \in Versions, h \in BOOLEAN :
              DeleteRead(w, p, v, h)
         \/ DeleteWrite(w)
         \/ \E S \in SUBSET Profiles, h \in BOOLEAN : BulkDelete(w, S, h)
    \/ Done

Spec == Init /\ [][Next]_vars

-----------------------------------------------------------------------------

TypeOK ==
    /\ row \in [Profiles -> [state: {"absent"}, version: {0}] \cup
                            [state: States \ {"absent"}, version: 1..MaxVersion]]
    /\ pc \in [Workers -> [op: {"idle", "update", "patch", "delete"}, id: Profiles,
                           v: Versions, hard: BOOLEAN]]
    /\ commits \in [Profiles -> Nat]
    /\ reported \subseteq Profiles
    /\ answer \in [Workers -> [code: {0, 200, 204, 404, 409, 500}, id: Profiles]]

(* Optimistic locking: every committed write that bumps the version        *)
(* all.  Two successes ending on the same version mean one request's      *)
(* all.  Two successes ending on the same version mean one request's  *)
(* write silently overwrote another's (a lost update).                     *)
NoLostUpdate ==
    \A p \in Profiles :
        InTable(p) => row[p].version = 1 + commits[p]

(* A soft-deleted profile is gone for the API (GetByID, List skip it): no  *)
(* later call changes it, except a hard delete that erases it.             *)
DeletedStaysDeleted ==
    [][\A p \in Profiles :
         row[p].state = "deleted" =>
            (row'[p] = row[p] \/ row'[p].state = "erased")]_row

(* The store implements the profile lifecycle of ProfileLifecycle: under  *)
(* any interleaving of reads and writes, a row's state only takes the      *)
(* lifecycle's moves.  In particular an Update that read a profile before  *)
(* a DELETE and writes after it matches no row (its WHERE needs the row),  *)
(* so neither an erased nor a soft-deleted profile comes back live.        *)
Lifecycle == INSTANCE ProfileLifecycle
                 WITH state <- [p \in Profiles |-> row[p].state]

LifecycleSpec == Lifecycle!Spec

(* A create call that reports a profile created has stored it.             *)
ReportedCreatedExists ==
    \A p \in reported : row[p].state # "absent"

(* A DELETE answered 404 "profile not found" found no profile to delete:   *)
(* the profile is not live when the answer is given.  The hard DELETE's    *)
(* WHERE also tests the version, and its zero rows are reported as         *)
(* ErrNotFound whatever the reason.                                        *)
NotFoundMeansGone ==
    \A w \in Workers : answer[w].code = 404 => row[answer[w].id].state # "live"

=============================================================================
