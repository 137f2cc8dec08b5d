------------------------------ MODULE Accounts ------------------------------
(***************************************************************************)
(* The management of accounts: the handlers of proxy/accounts.rs, the      *)
(* commands of cli/commands.rs (another process on the same database), the *)
(* pending flows of proxy/oauth.rs, and the states of accounts that the    *)
(* X-factor service keeps beside them.                                     *)
(*                                                                         *)
(* Each statement commits on its own; a handler looks first and writes     *)
(* later, and others write in between.  Only db_take_pending reads and     *)
(* writes in one transaction, a deferred one: in WAL mode its DELETE fails *)
(* if anything was committed since its SELECT.                             *)
(*                                                                         *)
(* A table this program made has UNIQUE names; one of the TypeScript       *)
(* version, which the migration only adds columns to, has not, and may     *)
(* come with accounts of the same name.                                    *)
(***************************************************************************)
EXTENDS Integers, FiniteSets

CONSTANTS
  Clients,        \* handlers and commands in progress
  Ids, OAuthIds,  \* account ids (uuids); those of claude-oauth accounts
  Names, Fold,    \* names, and each one in lower case
  Sessions,       \* CSRF tokens
  TTL,            \* PENDING_TTL_MS
  Unborn, Gone,   \* in place of a row not yet inserted, or deleted
  None,
  MaxNow          \* bound

ASSUME AccountsAssumption ==
  /\ OAuthIds \subseteq Ids /\ IsFiniteSet(Sessions)
  /\ Fold \in [Names -> Names]
  /\ None \notin Ids \union Names \union Sessions
  /\ TTL \in Nat /\ MaxNow \in Nat
  /\ Unborn # Gone
  /\ \A n \in Names, p \in {0, 1} : [name |-> n, priority |-> p] \notin {Unborn, Gone}

VARIABLES
  row,      \* the table accounts
  session,  \* the table oauth_sessions
  client,   \* what each client is about to do
  saved,    \* account_xfactor_state
  cached,   \* the keys of the XFactorCache
  now,
  enforced, \* the table was created with UNIQUE on accounts.name
  handed,   \* history: how often the verifier of a session was handed out
  against   \* history: the accounts whose present names an account's name was
            \* compared with before it was given

names == <<enforced, against>>
vars == <<row, session, client, saved, cached, now, handed, names>>

Edits == {"option", "priority", "rename", "delete", "key"}
Idle == [at |-> "idle", op |-> None, id |-> None, name |-> None, saw |-> {}, of |-> None,
         spoilt |-> FALSE]

Accs == [name : Names, priority : {0, 1}]
Present == {i \in Ids : row[i] \notin {Unborn, Gone}}
Pending == {s \in Sessions : session[s] \notin {Unborn, Gone}}

TypeOK ==
  /\ row \in [Ids -> Accs \union {Unborn, Gone}]
  /\ enforced => \A i, j \in Present : row[i].name = row[j].name => i = j
  /\ session \in [Sessions -> [of : OAuthIds, expires : 0..(MaxNow + TTL)]
                                \union {Unborn, Gone}]
  /\ client \in [Clients ->
       [at : {"idle", "found", "checked", "opening", "reading", "exchanging", "granted"},
        op : Edits \union {None}, id : Ids \union {None}, name : Names \union {None},
        saw : SUBSET Ids, of : Sessions \union {None}, spoilt : BOOLEAN]]
  /\ saved \subseteq Present /\ cached \subseteq Ids
  /\ now \in 0..MaxNow
  /\ handed \in [Sessions -> Nat]
  /\ enforced \in BOOLEAN
  /\ against \in [Ids -> SUBSET Ids]

-----------------------------------------------------------------------------
(* Steps of a client *)

Goes(c, f) == client' = [client EXCEPT ![c] = f]

(* A commit spoils every snapshot taken before it; a check of names saw    *)
(* nothing of the names it gives.                                          *)
Commits(c, f, named) ==
  client' = [d \in Clients |->
    IF d = c THEN f
    ELSE [client[d] EXCEPT !.spoilt = @ \/ client[d].at = "reading", !.saw = @ \ named]]

(* Every edit looks the account up by its id.  A missing row or a failed   *)
(* statement is answered at once.                                          *)
FindById(c, op, i) ==
  /\ client[c] = Idle /\ op \in Edits \ {"key", "delete"}
  /\ i \in Present
  /\ Goes(c, [Idle EXCEPT !.at = "found", !.op = op, !.id = i])
  /\ UNCHANGED <<row, session, saved, cached, now, handed, names>>

(* The commands look it up by its name, in any case, and take the first in *)
(* the order of priorities.                                                *)
Alike(m, n) == Fold[m] = Fold[n]
Namesakes(n) == {i \in Present : Alike(row[i].name, n)}

FindByName(c, op, n) ==
  /\ client[c] = Idle /\ op \in Edits \ {"rename"}
  /\ \E i \in Namesakes(n) :
       /\ \A j \in Namesakes(n) : row[i].priority <= row[j].priority
       /\ op = "key" => i \notin OAuthIds
       /\ Goes(c, [Idle EXCEPT !.at = "found", !.op = op, !.id = i])
  /\ UNCHANGED <<row, session, saved, cached, now, handed, names>>

About(c, op) == client[c].at = "found" /\ client[c].op = op

(* A row has the columns that decide here; an UPDATE of one that is gone   *)
(* changes nothing and is a success.                                       *)
Update(c, r, named) ==
  /\ IF client[c].id \in Present
     THEN row' = [row EXCEPT ![client[c].id] = r] /\ Commits(c, Idle, named)
     ELSE UNCHANGED row /\ Goes(c, Idle)
  /\ UNCHANGED <<session, saved, cached, now, handed>>

(* Pausing, the reserves, the toggles and, for accounts with a key, a new  *)
(* one: columns nothing here reads.                                        *)
SetColumn(c) ==
  /\ About(c, "option") \/ About(c, "key")
  /\ Update(c, row[client[c].id], {})
  /\ UNCHANGED names

UpdatePriority(c) ==
  /\ About(c, "priority")
  /\ \E p \in {0, 1} : Update(c, [row[client[c].id] EXCEPT !.priority = p], {})
  /\ UNCHANGED names

(* Fault: this program makes the table without the constraint, too.        *)
Anything(n, i) == TRUE

Unique(n, i) == enforced => \A j \in Present \ {i} : row[j].name # n

Named(i, others) ==
  against' = [j \in Ids |-> IF j = i THEN others ELSE against[j] \ {i}]

RenameAccount(c) ==
  /\ About(c, "rename")
  /\ \E n \in Names :
       /\ Unique(n, client[c].id)
       /\ Update(c, [row[client[c].id] EXCEPT !.name = n], {client[c].id})
  /\ IF client[c].id \in Present THEN Named(client[c].id, {}) ELSE UNCHANGED against
  /\ UNCHANGED enforced

(* The row of account_xfactor_state refers to the account.                 *)
Remove(c, i) ==
  IF i \in Present \ saved
  THEN row' = [row EXCEPT ![i] = Gone] /\ Commits(c, Idle, {})
  ELSE UNCHANGED row /\ Goes(c, Idle)

DeleteAccount(c, i) ==
  /\ client[c] = Idle /\ i \in Present
  /\ Remove(c, i)
  /\ UNCHANGED <<session, saved, cached, now, handed, names>>

RemoveFound(c) ==
  /\ About(c, "delete")
  /\ Remove(c, client[c].id)
  /\ UNCHANGED <<session, saved, cached, now, handed, names>>

-----------------------------------------------------------------------------
(* Creating an account *)

(* Fault: names that differ in case only are two names.                    *)
NoneAlikeExactly(n) == \A i \in Present : row[i].name # n

NoneAlike(n) == Namesakes(n) = {}

(* The command takes a failure of the check for the absence of the name.   *)
CheckName(c, i, n) ==
  /\ client[c] = Idle /\ row[i] = Unborn /\ \A d \in Clients : client[d].id # i
  /\ \E broken \in BOOLEAN :
       /\ broken \/ NoneAlike(n)
       /\ Goes(c, [Idle EXCEPT !.at = "checked", !.id = i, !.name = n,
                             !.saw = IF broken THEN {} ELSE Present])
  /\ UNCHANGED <<row, session, saved, cached, now, handed, names>>

CreateAccount(c) ==
  /\ client[c].at = "checked"
  /\ LET n == client[c].name
         i == client[c].id IN
     IF Unique(n, i)
     THEN /\ \E p \in {0, 1} :
               row' = [row EXCEPT ![i] = [name |-> n, priority |-> p]]
          /\ Commits(c, Idle, {i})
          /\ Named(i, client[c].saw)
     ELSE UNCHANGED <<row, against>> /\ Goes(c, Idle)
  /\ UNCHANGED <<session, saved, cached, now, handed, enforced>>

-----------------------------------------------------------------------------
(* The flow of a re-authentication in the browser *)

OpenFlow(c, i) ==
  /\ client[c] = Idle /\ i \in Present \intersect OAuthIds
  /\ Goes(c, [Idle EXCEPT !.at = "opening", !.id = i])
  /\ UNCHANGED <<row, session, saved, cached, now, handed, names>>

(* db_insert_pending: expired sessions go first; either may fail.          *)
InsertPending(c, s) ==
  /\ client[c].at = "opening" /\ session[s] = Unborn
  /\ \E kept \in {Pending, {t \in Pending : session[t].expires >= now}}, ok \in BOOLEAN :
       session' = [t \in Sessions |->
         IF t = s /\ ok THEN [of |-> client[c].id, expires |-> now + TTL]
         ELSE IF t \in Pending \ kept THEN Gone ELSE session[t]]
  /\ IF session' = session THEN Goes(c, Idle) ELSE Commits(c, Idle, {})
  /\ UNCHANGED <<row, saved, cached, now, handed, names>>

(* db_take_pending: the SELECT, and the DELETE of the same transaction.    *)
ReadPending(c, s) ==
  /\ client[c] = Idle
  /\ s \in Pending /\ session[s].expires > now
  /\ Goes(c, [Idle EXCEPT !.at = "reading", !.of = s, !.id = session[s].of])
  /\ UNCHANGED <<row, session, saved, cached, now, handed, names>>

(* Fault: the two statements are not one transaction.                      *)
CommitsAnyway(c) == TRUE

Serializable(c) == ~client[c].spoilt

TakePending(c) ==
  /\ client[c].at = "reading"
  /\ IF Serializable(c)
     THEN /\ session' = [session EXCEPT ![client[c].of] = Gone]
          /\ handed' = [handed EXCEPT ![client[c].of] = @ + 1]
          /\ Commits(c, [client[c] EXCEPT !.at = "exchanging"], {})
     ELSE UNCHANGED <<session, handed>> /\ Goes(c, Idle)
  /\ UNCHANGED <<row, saved, cached, now, names>>

ExchangeCode(c) ==
  /\ client[c].at = "exchanging"
  /\ Goes(c, Idle) \/ Goes(c, [client[c] EXCEPT !.at = "granted"])
  /\ UNCHANGED <<row, session, saved, cached, now, handed, names>>

PersistTokens(c) ==
  /\ client[c].at = "granted"
  /\ Update(c, row[client[c].id], {})
  /\ UNCHANGED names

-----------------------------------------------------------------------------
(* The X-factor service, and the end of clients *)

(* update_from_usage_cache knows new accounts; a deleted one stays.        *)
KnowAccounts ==
  /\ cached' = cached \union Present
  /\ UNCHANGED <<row, session, client, saved, now, handed, names>>

(* save_all_states: one transaction, which a deleted account fails.        *)
SaveStates ==
  /\ cached \subseteq Present /\ cached \ saved # {}
  /\ saved' = saved \union cached
  /\ Commits(None, Idle, {})
  /\ UNCHANGED <<row, session, cached, now, handed, names>>

(* A statement fails, a future is dropped, a command ends.                 *)
Abort(c) ==
  /\ client[c] # Idle
  /\ Goes(c, Idle)
  /\ UNCHANGED <<row, session, saved, cached, now, handed, names>>

Restart ==
  /\ cached' = {} /\ client' = [c \in Clients |-> Idle]
  /\ UNCHANGED <<row, session, saved, now, handed, names>>

Tick ==
  /\ now < MaxNow /\ now' = now + 1
  /\ UNCHANGED <<row, session, client, saved, cached, handed, names>>

Init ==
  /\ enforced \in BOOLEAN
  /\ row \in [Ids -> Accs \union {Unborn}]
  /\ enforced => \A i, j \in Present : row[i].name = row[j].name => i = j
  /\ session = [s \in Sessions |-> Unborn]
  /\ client = [c \in Clients |-> Idle]
  /\ saved = {} /\ cached = {}
  /\ now = 0
  /\ handed = [s \in Sessions |-> 0] /\ against = [i \in Ids |-> {}]

Next ==
  \/ \E c \in Clients :
       \/ \E op \in Edits, i \in Ids : FindById(c, op, i)
       \/ \E op \in Edits, n \in Names : FindByName(c, op, n)
       \/ SetColumn(c) \/ UpdatePriority(c) \/ RenameAccount(c)
       \/ \E i \in Ids : DeleteAccount(c, i)
       \/ RemoveFound(c)
       \/ \E i \in Ids, n \in Names : CheckName(c, i, n)
       \/ CreateAccount(c)
       \/ \E i \in Ids : OpenFlow(c, i)
       \/ \E s \in Sessions : InsertPending(c, s) \/ ReadPending(c, s)
       \/ TakePending(c) \/ ExchangeCode(c) \/ PersistTokens(c)
       \/ Abort(c)
  \/ KnowAccounts \/ SaveStates \/ Restart \/ Tick

Spec == Init /\ [][Next]_vars
-----------------------------------------------------------------------------
(* Properties *)

(* The verifier of a flow is handed out at most once, however many         *)
(* callbacks bring its state (oauth.rs: db_take_pending).                  *)
SessionUsedOnce == \A s \in Sessions : handed[s] <= 1

(* A name that was compared with another when it was given is not alike to *)
(* it as long as neither changes.  So two accounts with names that are     *)
(* alike, of which a command by name can reach but one, either were there  *)
(* before, or one of them was renamed, which does not compare, or created  *)
(* while the check failed or the other one came to its name between the    *)
(* check and the insertion (accounts.rs: create_account, rename_account;   *)
(* commands.rs: find_account_by_name, add_account).                        *)
NamesakesExplained ==
  \A i, j \in Present :
    i # j /\ j \in against[i] => ~Alike(row[i].name, row[j].name)
=============================================================================
