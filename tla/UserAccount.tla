----------------------------- MODULE UserAccount -----------------------------
(***************************************************************************)
(* The user rows behind user.Service (internal/domain/user/service.go) and *)
(* UserRepository (internal/infrastructure/db/user_repository.go), for one *)
(* e-mail address.  Register reads (GetByEmail) then INSERTs; Login and    *)
(* UpdateMe read the row then write the whole row back (Update sets name,  *)
(* profile_image, password_hash, refresh_version, updated_at and           *)
(* last_login_at WHERE id).  Each SQL statement is one atomic step;        *)
(* concurrent requests interleave between the read and the write.          *)
(*                                                                         *)
(* A row keeps its id, its name and whether it records a login; the other *)
(* columns are written the same way and add nothing.  Token issuing after *)
(* Register and Login is JwtManager's; bcrypt and validation failures are *)
(* early returns that change nothing and are left out as stutters.         *)
(***************************************************************************)
EXTENDS Naturals

CONSTANTS
    Ids,        \* user ids (uuid.New)
    Names,      \* names a request may set
    Workers,    \* requests in flight at once
    MaxWrites,  \* bound on row writes
    IssueOutcomes, \* what IssueTokens may answer: "ok", or "err" when the
                   \* refresh store (Redis) fails
    NONE

VARIABLES
    users,      \* rows with the e-mail: a set of [id, name, login]
    pc,         \* per worker: idle, or the row copy read and the call
    acked,      \* per id: name the last successful UpdateMe returned
    writes,     \* row writes so far
    answered,   \* ids a Register answered with tokens
    emailIndex  \* whether the users table has a unique index on email

vars == <<users, pc, acked, writes, answered, emailIndex>>

Row == [id: Ids, name: Names, login: BOOLEAN]

Idle == [op |-> "idle", row |-> NONE]

UsedIds == {u.id : u \in users}

(* UPDATE users SET ... WHERE id = :id: replaces the row with that id, if  *)
(* any; a missing row is zero rows affected and no error.                  *)
WriteRow(r) == {IF u.id = r.id THEN r ELSE u : u \in users}

Init ==
    /\ users = {}
    /\ pc = [w \in Workers |-> Idle]
    /\ acked = [i \in Ids |-> NONE]
    /\ writes = 0
    /\ answered = {}
    /\ emailIndex \in BOOLEAN    \* the schema is not in the repository

(* UserRepository.GetByEmail: the rows with the e-mail (LIMIT 1); the     *)
(* answer is nil, nil when there is none.                                  *)
GetByEmail == users

(* Register: only a GetByEmail that found a row without error stops it;    *)
(* no row, or a failed query, goes on to the INSERT.                       *)
RegisterCheck(w) ==
    /\ pc[w].op = "idle"
    /\ \/ GetByEmail = {}      \* nil, nil
       \/ GetByEmail # {}      \* the query fails: err != nil, not a duplicate
    /\ pc' = [pc EXCEPT ![w] = [op |-> "register", row |-> NONE]]
    /\ UNCHANGED <<users, acked, writes, answered, emailIndex>>

(* UserRepository.Create: INSERT of the new row.  isDuplicate maps a      *)
(* unique-violation error to ErrDuplicateEmail, which presumes a unique    *)
(* index on email; no schema in the repository defines one, so both       *)
(* schemas are possible and without the index the INSERT always commits.  *)
Committed == ~emailIndex \/ users = {}

Insert(i, n) ==
    IF Committed THEN users \cup {[id |-> i, name |-> n, login |-> FALSE]}
                 ELSE users

(* Register: a User with a fresh uuid and the name, then                   *)
(* UserRepository.Create; ErrDuplicateEmail is passed on.  After a         *)
(* committed INSERT, IssueTokens; its error is returned as is, the row     *)
(* stays.                                                                  *)
RegisterCreate(w, i, n) ==
    /\ pc[w].op = "register"
    /\ i \notin UsedIds
    /\ writes < MaxWrites
    /\ users' = Insert(i, n)
    /\ writes' = IF Committed THEN writes + 1 ELSE writes
    /\ \E o \in IssueOutcomes :
         answered' = IF Committed /\ o = "ok" THEN answered \cup {i}
                                              ELSE answered
    /\ pc' = [pc EXCEPT ![w] = Idle]
    /\ UNCHANGED <<acked, emailIndex>>

(* Login: GetByEmail returns a row (LIMIT 1), the password matches.        *)
LoginRead(w) ==
    /\ pc[w].op = "idle"
    /\ \E u \in users : pc' = [pc EXCEPT ![w] = [op |-> "login", row |-> u]]
    /\ UNCHANGED <<users, acked, writes, answered, emailIndex>>

(* Mutant: the login row is INSERTed rather than updated.                  *)
LoginWriteInsert(w) ==
    /\ pc[w].op = "login"
    /\ writes < MaxWrites
    /\ users' = users \cup {[pc[w].row EXCEPT !.login = TRUE]}
    /\ writes' = writes + 1
    /\ pc' = [pc EXCEPT ![w] = Idle]
    /\ UNCHANGED <<acked, answered, emailIndex>>

(* Login: LastLoginAt set on the copy read, Update of the whole row, its   *)
(* error dropped.                                                          *)
LoginWrite(w) ==
    /\ pc[w].op = "login"
    /\ writes < MaxWrites
    /\ users' = WriteRow([pc[w].row EXCEPT !.login = TRUE])
    /\ writes' = writes + 1
    /\ pc' = [pc EXCEPT ![w] = Idle]
    /\ UNCHANGED <<acked, answered, emailIndex>>

(* UserRepository.GetByID: the row with the id (ErrUserNotFound if none). *)
GetByID(i) == {u \in users : u.id = i}

(* UpdateMe: GetByID finds the row.                                        *)
UpdateMeRead(w, i) ==
    /\ pc[w].op = "idle"
    /\ \E u \in GetByID(i) :
         /\ pc' = [pc EXCEPT ![w] = [op |-> "update", row |-> u]]
    /\ UNCHANGED <<users, acked, writes, answered, emailIndex>>

(* Mutant: the row read is written back before the new name is set.       *)
UpdateMeWriteStale(w, n) ==
    /\ pc[w].op = "update"
    /\ writes < MaxWrites
    /\ users' = WriteRow(pc[w].row)
    /\ acked' = [acked EXCEPT ![pc[w].row.id] = n]
    /\ writes' = writes + 1
    /\ pc' = [pc EXCEPT ![w] = Idle]
    /\ UNCHANGED <<answered, emailIndex>>

(* UpdateMe: Name set on the copy read, Update of the whole row; the user  *)
(* is returned with that name.                                             *)
UpdateMeWrite(w, n) ==
    /\ pc[w].op = "update"
    /\ writes < MaxWrites
    /\ users' = WriteRow([pc[w].row EXCEPT !.name = n])
    /\ acked' = [acked EXCEPT ![pc[w].row.id] = n]
    /\ writes' = writes + 1
    /\ pc' = [pc EXCEPT ![w] = Idle]
    /\ UNCHANGED <<answered, emailIndex>>

(* The write bound is reached, or every id is used (uuid.New never runs    *)
(* out; the model's Ids do): the behaviour may stop.                       *)
Done ==
    /\ writes = MaxWrites \/ UsedIds = Ids
    /\ UNCHANGED vars

Next ==
    \/ \E w \in Workers :
         \/ RegisterCheck(w)
         \/ \E i \in Ids, n \in Names : RegisterCreate(w, i, n)
         \/ LoginRead(w)
         \/ LoginWrite(w)
         \/ \E i \in Ids : UpdateMeRead(w, i)
         \/ \E n \in Names : UpdateMeWrite(w, n)
    \/ Done

Spec == Init /\ [][Next]_vars

-----------------------------------------------------------------------------

TypeOK ==
    /\ users \subseteq Row
    /\ \A u, v \in users : u.id = v.id => u = v   \* id is the primary key
    /\ pc \in [Workers -> [op: {"idle", "register"}, row: {NONE}] \cup
                          [op: {"login", "update"}, row: Row]]
    /\ acked \in [Ids -> Names \cup {NONE}]
    /\ writes \in 0..MaxWrites
    /\ answered \subseteq Ids
    /\ emailIndex \in BOOLEAN

(* The name an UpdateMe call answered with is the stored name until the    *)
(* next UpdateMe: no other request's full-row write, made from an older    *)
(* read, puts an earlier name back.                                        *)
UpdatedNameKept ==
    \A u \in users : acked[u.id] # NONE => u.name = acked[u.id]

(* Spec 4.3: issuing tokens "always succeeds unless signing or storage     *)
(* fails", and then the error is the answer.  Register commits the user    *)
(* row before IssueTokens, so the account must exist only for a Register   *)
(* that answered with tokens: a client told registration failed must not   *)
(* find the e-mail taken (ErrDuplicateEmail) on its retry.                 *)
AccountOnlyIfAnswered ==
    \A u \in users : u.id \in answered

=============================================================================
