-------------------------- MODULE Accounts_proofs --------------------------
(***************************************************************************)
(* Theorems of Accounts, for every set of clients, accounts, names and     *)
(* sessions, and every way of folding names.                               *)
(***************************************************************************)
EXTENDS Accounts, TLAPS

LEMMA Constants ==
  /\ OAuthIds \subseteq Ids /\ Fold \in [Names -> Names]
  /\ None \notin Ids /\ None \notin Names /\ None \notin Sessions
  /\ TTL \in Nat /\ MaxNow \in Nat
  /\ Unborn # Gone
BY AccountsAssumption

LEMMA RowsAreRows == \A r \in Accs : r \notin {Unborn, Gone}
<1> SUFFICES ASSUME NEW r \in Accs PROVE r \notin {Unborn, Gone}
  OBVIOUS
<1>1. r = [name |-> r.name, priority |-> r.priority] /\ r.name \in Names /\ r.priority \in {0, 1}
  BY DEF Accs
<1> QED BY <1>1, AccountsAssumption

-----------------------------------------------------------------------------
(* What a client is about to do *)

Doings ==
  [at : {"idle", "found", "checked", "opening", "reading", "exchanging", "granted"},
   op : Edits \union {None}, id : Ids \union {None}, name : Names \union {None},
   saw : SUBSET Ids, of : Sessions \union {None}, spoilt : BOOLEAN]

(* It knows what its next step needs.                                      *)
Sound(f) ==
  /\ f \in Doings
  /\ f.at = "checked" => f.id \in Ids /\ f.name \in Names
  /\ f.at \in {"opening", "reading"} => f.id \in OAuthIds
  /\ f.at = "reading" => f.of \in Sessions

ClientsOK == client \in [Clients -> Doings] /\ \A c \in Clients : Sound(client[c])

LEMMA SoundIdle == Sound(Idle)
BY DEF Sound, Idle, Doings

LEMMA SoundFound ==
  ASSUME NEW op \in Edits, NEW i \in Ids
  PROVE  Sound([Idle EXCEPT !.at = "found", !.op = op, !.id = i])
BY DEF Sound, Idle, Doings

LEMMA SoundChecked ==
  ASSUME NEW i \in Ids, NEW n \in Names, NEW b \in SUBSET Ids
  PROVE  Sound([Idle EXCEPT !.at = "checked", !.id = i, !.name = n, !.saw = b])
BY DEF Sound, Idle, Doings

LEMMA SoundOpening ==
  ASSUME NEW i \in OAuthIds
  PROVE  Sound([Idle EXCEPT !.at = "opening", !.id = i])
BY Constants DEF Sound, Idle, Doings

LEMMA SoundReading ==
  ASSUME NEW i \in OAuthIds, NEW s \in Sessions
  PROVE  Sound([Idle EXCEPT !.at = "reading", !.of = s, !.id = i])
BY Constants DEF Sound, Idle, Doings

LEMMA SoundNext ==
  ASSUME NEW f, Sound(f), NEW p \in {"exchanging", "granted"}
  PROVE  Sound([f EXCEPT !.at = p])
BY DEF Sound, Doings

LEMMA GoesClients ==
  ASSUME ClientsOK, NEW c \in Clients, NEW f, Sound(f), Goes(c, f)
  PROVE  ClientsOK'
BY DEF ClientsOK, Goes, Sound

(* What a step of one client, and a commit, leave of the others.           *)
LEMMA GoesOthers ==
  ASSUME ClientsOK, NEW c, NEW f, NEW d \in Clients, d # c, Goes(c, f)
  PROVE  client'[d] = client[d]
BY DEF Goes, ClientsOK

LEMMA CommitsOthers ==
  ASSUME ClientsOK, NEW c, NEW f, NEW named, NEW d \in Clients, d # c, Commits(c, f, named)
  PROVE  /\ client'[d].at = client[d].at /\ client'[d].name = client[d].name
         /\ client'[d].of = client[d].of
         /\ client'[d].saw = client[d].saw \ named
         /\ client[d].spoilt => client'[d].spoilt
<1> DEFINE s == client[d].spoilt \/ client[d].at = "reading"
           t == client[d].saw \ named
<1>1. client[d] \in Doings
  BY DEF ClientsOK
<1>2. client'[d] = [client[d] EXCEPT !.spoilt = s, !.saw = t]
  BY DEF Commits
<1>3. s \in BOOLEAN /\ (client[d].spoilt => s)
  BY <1>1 DEF Doings
<1> HIDE DEF s
<1>4. client'[d].spoilt = s /\ client'[d].saw = t
  BY <1>1, <1>2, <1>3 DEF Doings
<1>5. /\ client'[d].at = client[d].at /\ client'[d].name = client[d].name
      /\ client'[d].of = client[d].of
  BY <1>1, <1>2, <1>3 DEF Doings
<1> QED BY <1>3, <1>4, <1>5

LEMMA MovedTo ==
  ASSUME ClientsOK, NEW c, NEW f, NEW named, Goes(c, f) \/ Commits(c, f, named)
  PROVE  c \in Clients => client'[c] = f
BY DEF Goes, Commits, ClientsOK

LEMMA CommitsClients ==
  ASSUME ClientsOK, NEW c, NEW f, Sound(f), NEW named, Commits(c, f, named)
  PROVE  ClientsOK'
<1>1. ASSUME NEW d \in Clients, NEW b \in BOOLEAN
      PROVE  Sound([client[d] EXCEPT !.spoilt = b, !.saw = @ \ named])
  BY DEF ClientsOK, Sound, Doings
<1>2. \A d \in Clients : Sound(client'[d])
  <2>1. \A d \in Clients : (client[d].spoilt \/ client[d].at = "reading") \in BOOLEAN
    OBVIOUS
  <2> QED BY <1>1, <2>1 DEF Commits, ClientsOK
<1>3. client' \in [Clients -> Doings]
  BY <1>2 DEF Commits, Sound
<1> QED BY <1>2, <1>3 DEF ClientsOK

-----------------------------------------------------------------------------
(* Type correctness *)

RowsOK ==
  /\ row \in [Ids -> Accs \union {Unborn, Gone}]
  /\ enforced => \A i, j \in Present : row[i].name = row[j].name => i = j
  /\ saved \subseteq Present /\ cached \subseteq Ids

SessionsOK ==
  /\ session \in [Sessions -> [of : OAuthIds, expires : 0..(MaxNow + TTL)] \union {Unborn, Gone}]
  /\ handed \in [Sessions -> Nat]
  /\ now \in 0..MaxNow

NamesOK == enforced \in BOOLEAN /\ against \in [Ids -> SUBSET Ids]

TypeInv == ClientsOK /\ RowsOK /\ SessionsOK /\ NamesOK

LEMMA TypeSplit == TypeInv => TypeOK
BY DEF TypeInv, ClientsOK, Doings, RowsOK, SessionsOK, NamesOK, TypeOK

LEMMA PresentRows ==
  ASSUME RowsOK, NEW i \in Present
  PROVE  i \in Ids /\ row[i] \in Accs
BY DEF RowsOK, Present

(* A row that is there, or comes to be there, under a name of its own.     *)
LEMMA RowWritten ==
  ASSUME RowsOK, NEW i \in Ids, NEW r \in Accs, r \notin {Unborn, Gone}, Unique(r.name, i),
         row' = [row EXCEPT ![i] = r], UNCHANGED <<saved, cached, enforced>>
  PROVE  RowsOK'
<1>1. Present' = Present \union {i}
  BY DEF Present, RowsOK
<1>2. \A j \in Present' : j \in Ids /\ row'[j] = IF j = i THEN r ELSE row[j]
  BY <1>1 DEF RowsOK, Present
<1>3. enforced' => \A j, k \in Present' : row'[j].name = row'[k].name => j = k
  BY <1>1, <1>2 DEF RowsOK, Unique
<1>4. row' \in [Ids -> Accs \union {Unborn, Gone}]
  BY DEF RowsOK
<1>5. saved' \subseteq Present' /\ cached' \subseteq Ids
  BY <1>1 DEF RowsOK
<1> QED BY <1>3, <1>4, <1>5 DEF RowsOK

(* One that goes, if the X-factor service has not saved it.                *)
LEMMA RowRemoved ==
  ASSUME RowsOK, NEW i \in Present \ saved,
         row' = [row EXCEPT ![i] = Gone], UNCHANGED <<saved, cached, enforced>>
  PROVE  RowsOK' /\ Present' = Present \ {i} /\ \A j \in Present' : row'[j] = row[j]
<1>1. Present' = Present \ {i}
  BY DEF Present, RowsOK
<1>2. \A j \in Present' : j \in Ids /\ row'[j] = row[j]
  BY <1>1 DEF RowsOK, Present
<1>3. enforced' => \A j, k \in Present' : row'[j].name = row'[k].name => j = k
  BY <1>1, <1>2 DEF RowsOK
<1>4. row' \in [Ids -> Accs \union {Unborn, Gone}]
  BY DEF RowsOK
<1>5. saved' \subseteq Present' /\ cached' \subseteq Ids
  BY <1>1 DEF RowsOK
<1> QED BY <1>1, <1>2, <1>3, <1>4, <1>5 DEF RowsOK

LEMMA RowsKept ==
  ASSUME RowsOK, UNCHANGED <<row, saved, cached, enforced>>
  PROVE  RowsOK' /\ Present' = Present
BY DEF RowsOK, Present

LEMMA SessionsKept ==
  ASSUME SessionsOK, UNCHANGED <<session, handed, now>>
  PROVE  SessionsOK'
BY DEF SessionsOK

(* What a client writes to a row that may be gone.                         *)
LEMMA UpdateKeeps ==
  ASSUME TypeInv, NEW c \in Clients, NEW r, NEW named, Update(c, r, named),
         client[c].id \in Present => r \in Accs /\ Unique(r.name, client[c].id),
         enforced' = enforced, against' \in [Ids -> SUBSET Ids]
  PROVE  TypeInv'
<1>0. NamesOK'
  BY DEF TypeInv, NamesOK
<1>1. SessionsOK'
  BY SessionsKept DEF TypeInv, Update
<1>2. CASE client[c].id \in Present
  <2>1. row' = [row EXCEPT ![client[c].id] = r] /\ Commits(c, Idle, named)
    BY <1>2 DEF Update
  <2>2. ClientsOK'
    BY <2>1, SoundIdle, CommitsClients DEF TypeInv
  <2>3. client[c].id \in Ids /\ r \in Accs /\ r \notin {Unborn, Gone}
    BY <1>2, RowsAreRows, PresentRows DEF TypeInv
  <2>4. RowsOK'
    BY <1>2, <2>1, <2>3, RowWritten DEF TypeInv, Update
  <2> QED BY <1>0, <1>1, <2>2, <2>4 DEF TypeInv
<1>3. CASE client[c].id \notin Present
  <2>1. ClientsOK'
    BY <1>3, SoundIdle, GoesClients DEF TypeInv, Update
  <2>2. RowsOK'
    BY <1>3, RowsKept DEF TypeInv, Update
  <2> QED BY <1>0, <1>1, <2>1, <2>2 DEF TypeInv
<1> QED BY <1>2, <1>3

LEMMA RemoveKeeps ==
  ASSUME TypeInv, NEW c \in Clients, NEW i, Remove(c, i),
         UNCHANGED <<session, saved, cached, now, handed, names>>
  PROVE  TypeInv'
<1>1. SessionsOK' /\ NamesOK' /\ enforced' = enforced
  BY SessionsKept DEF TypeInv, NamesOK, names
<1>2. CASE i \in Present \ saved
  <2>1. ClientsOK'
    BY <1>2, SoundIdle, CommitsClients DEF TypeInv, Remove
  <2>2. RowsOK'
    BY <1>1, <1>2, RowRemoved DEF TypeInv, Remove
  <2> QED BY <1>1, <2>1, <2>2 DEF TypeInv
<1>3. CASE i \notin Present \ saved
  <2>1. ClientsOK'
    BY <1>3, SoundIdle, GoesClients DEF TypeInv, Remove
  <2>2. RowsOK'
    BY <1>1, <1>3, RowsKept DEF TypeInv, Remove
  <2> QED BY <1>1, <2>1, <2>2 DEF TypeInv
<1> QED BY <1>2, <1>3

(* A step that moves one client and leaves the database alone.             *)
LEMMA GoesKeeps ==
  ASSUME TypeInv, NEW c \in Clients, NEW f, Sound(f), Goes(c, f),
         UNCHANGED <<row, session, saved, cached, now, handed, names>>
  PROVE  TypeInv'
BY GoesClients, RowsKept, SessionsKept DEF TypeInv, NamesOK, names

LEMMA InitType == Init => TypeInv
<1> SUFFICES ASSUME Init PROVE TypeInv
  OBVIOUS
<1>1. row \in [Ids -> Accs \union {Unborn}]
  BY DEF Init
<1>2. RowsOK
  BY <1>1 DEF Init, RowsOK
<1>3. SessionsOK
  <2>1. session \in [Sessions -> {Unborn}] /\ handed \in [Sessions -> Nat]
    BY DEF Init
  <2>2. now \in 0..MaxNow
    <3>1. now = 0
      BY DEF Init
    <3>2. 0 \in 0..MaxNow
      BY Constants
    <3> QED BY <3>1, <3>2
  <2>3. session \in [Sessions -> [of : OAuthIds, expires : 0..(MaxNow + TTL)] \union {Unborn, Gone}]
    BY <2>1
  <2> QED BY <2>1, <2>2, <2>3 DEF SessionsOK
<1>4. ClientsOK
  BY SoundIdle DEF Init, ClientsOK, Sound
<1>5. NamesOK
  BY DEF Init, NamesOK
<1> QED BY <1>2, <1>3, <1>4, <1>5 DEF TypeInv

LEMMA NextType == TypeInv /\ [Next]_vars => TypeInv'
<1> SUFFICES ASSUME TypeInv, [Next]_vars PROVE TypeInv'
  OBVIOUS
<1>1. ASSUME NEW c \in Clients, NEW op \in Edits, NEW i \in Ids, FindById(c, op, i) PROVE TypeInv'
  BY <1>1, SoundFound, GoesKeeps DEF FindById
<1>2. ASSUME NEW c \in Clients, NEW op \in Edits, NEW n \in Names, FindByName(c, op, n)
      PROVE  TypeInv'
  <2>1. PICK i \in Namesakes(n) : Goes(c, [Idle EXCEPT !.at = "found", !.op = op, !.id = i])
    BY <1>2 DEF FindByName
  <2>2. i \in Ids
    BY DEF Namesakes, Present
  <2> QED BY <1>2, <2>1, <2>2, SoundFound, GoesKeeps DEF FindByName
<1>3. ASSUME NEW c \in Clients, SetColumn(c) PROVE TypeInv'
  <2>1. client[c].id \in Present => LET r == row[client[c].id] IN
          r \in Accs /\ Unique(r.name, client[c].id)
    BY PresentRows DEF TypeInv, RowsOK, Unique
  <2> QED BY <1>3, <2>1, UpdateKeeps DEF SetColumn, TypeInv, NamesOK, names
<1>4. ASSUME NEW c \in Clients, UpdatePriority(c) PROVE TypeInv'
  <2>1. PICK p \in {0, 1} : Update(c, [row[client[c].id] EXCEPT !.priority = p], {})
    BY <1>4 DEF UpdatePriority
  <2>2. client[c].id \in Present => LET r == [row[client[c].id] EXCEPT !.priority = p] IN
          r \in Accs /\ Unique(r.name, client[c].id)
    <3> SUFFICES ASSUME client[c].id \in Present
                 PROVE  LET r == [row[client[c].id] EXCEPT !.priority = p] IN
                          r \in Accs /\ Unique(r.name, client[c].id)
      OBVIOUS
    <3>1. row[client[c].id] \in Accs
      BY PresentRows DEF TypeInv
    <3>2. [row[client[c].id] EXCEPT !.priority = p] \in Accs
      BY <3>1 DEF Accs
    <3>3. [row[client[c].id] EXCEPT !.priority = p].name = row[client[c].id].name
      BY <3>1 DEF Accs
    <3>4. Unique(row[client[c].id].name, client[c].id)
      BY DEF TypeInv, RowsOK, Unique
    <3> QED BY <3>2, <3>3, <3>4
  <2> QED BY <1>4, <2>1, <2>2, UpdateKeeps DEF UpdatePriority, TypeInv, NamesOK, names
<1>5. ASSUME NEW c \in Clients, RenameAccount(c) PROVE TypeInv'
  <2>1. PICK n \in Names :
          /\ Unique(n, client[c].id)
          /\ Update(c, [row[client[c].id] EXCEPT !.name = n], {client[c].id})
    BY <1>5 DEF RenameAccount
  <2>2. client[c].id \in Present => LET r == [row[client[c].id] EXCEPT !.name = n] IN
          r \in Accs /\ Unique(r.name, client[c].id)
    <3> SUFFICES ASSUME client[c].id \in Present
                 PROVE  LET r == [row[client[c].id] EXCEPT !.name = n] IN
                          r \in Accs /\ Unique(r.name, client[c].id)
      OBVIOUS
    <3>1. row[client[c].id] \in Accs
      BY PresentRows DEF TypeInv
    <3>2. [row[client[c].id] EXCEPT !.name = n] \in Accs
      BY <3>1 DEF Accs
    <3>3. [row[client[c].id] EXCEPT !.name = n].name = n
      BY <3>1 DEF Accs
    <3> QED BY <2>1, <3>2, <3>3
  <2>3. enforced' = enforced /\ against' \in [Ids -> SUBSET Ids]
    BY <1>5 DEF RenameAccount, Named, TypeInv, NamesOK
  <2> QED BY <2>1, <2>2, <2>3, UpdateKeeps
<1>6. ASSUME NEW c \in Clients, NEW i \in Ids, DeleteAccount(c, i) PROVE TypeInv'
  BY <1>6, RemoveKeeps DEF DeleteAccount
<1>7. ASSUME NEW c \in Clients, RemoveFound(c) PROVE TypeInv'
  BY <1>7, RemoveKeeps DEF RemoveFound
<1>8. ASSUME NEW c \in Clients, NEW i \in Ids, NEW n \in Names, CheckName(c, i, n) PROVE TypeInv'
  <2>1. PICK b \in {{}, Present} :
          Goes(c, [Idle EXCEPT !.at = "checked", !.id = i, !.name = n, !.saw = b])
    BY <1>8 DEF CheckName
  <2>2. b \in SUBSET Ids
    BY DEF Present
  <2> QED BY <1>8, <2>1, <2>2, SoundChecked, GoesKeeps DEF CheckName
<1>9. ASSUME NEW c \in Clients, CreateAccount(c) PROVE TypeInv'
  <2> DEFINE n == client[c].name
             i == client[c].id
  <2>1. /\ i \in Ids /\ n \in Names /\ client[c].saw \in SUBSET Ids
        /\ UNCHANGED <<session, saved, cached, now, handed, enforced>>
    BY <1>9 DEF CreateAccount, TypeInv, ClientsOK, Sound, Doings
  <2>2. CASE Unique(n, i)
    <3>1. PICK p \in {0, 1} : row' = [row EXCEPT ![i] = [name |-> n, priority |-> p]]
      BY <1>9, <2>2 DEF CreateAccount
    <3>2. [name |-> n, priority |-> p] \in Accs
      BY <2>1 DEF Accs
    <3>3. RowsOK'
      BY <2>1, <2>2, <3>1, <3>2, RowsAreRows, RowWritten DEF TypeInv
    <3>4. ClientsOK'
      BY <1>9, <2>2, SoundIdle, CommitsClients DEF CreateAccount, TypeInv
    <3>5. SessionsOK'
      BY <2>1, SessionsKept DEF TypeInv
    <3>6. NamesOK'
      BY <1>9, <2>1, <2>2 DEF CreateAccount, Named, TypeInv, NamesOK
    <3> QED BY <3>3, <3>4, <3>5, <3>6 DEF TypeInv
  <2>3. CASE ~Unique(n, i)
    BY <1>9, <2>3, SoundIdle, GoesKeeps DEF CreateAccount, names
  <2> QED BY <2>2, <2>3
<1>10. ASSUME NEW c \in Clients, NEW i \in Ids, OpenFlow(c, i) PROVE TypeInv'
  BY <1>10, SoundOpening, GoesKeeps DEF OpenFlow
<1>11. ASSUME NEW c \in Clients, NEW s \in Sessions, InsertPending(c, s) PROVE TypeInv'
  <2>1. client[c].id \in OAuthIds
    BY <1>11 DEF InsertPending, TypeInv, ClientsOK, Sound
  <2>2. session' \in [Sessions -> [of : OAuthIds, expires : 0..(MaxNow + TTL)]
                                     \union {Unborn, Gone}]
    BY <1>11, <2>1, Constants DEF InsertPending, TypeInv, SessionsOK
  <2>3. ClientsOK'
    BY <1>11, SoundIdle, GoesClients, CommitsClients DEF InsertPending, TypeInv
  <2>4. RowsOK'
    BY <1>11, RowsKept DEF InsertPending, TypeInv, names
  <2>5. SessionsOK'
    BY <1>11, <2>2 DEF InsertPending, TypeInv, SessionsOK
  <2>6. NamesOK'
    BY <1>11 DEF InsertPending, TypeInv, NamesOK, names
  <2> QED BY <2>3, <2>4, <2>5, <2>6 DEF TypeInv
<1>12. ASSUME NEW c \in Clients, NEW s \in Sessions, ReadPending(c, s) PROVE TypeInv'
  <2>1. session[s].of \in OAuthIds
    BY <1>12 DEF ReadPending, Pending, TypeInv, SessionsOK
  <2> QED BY <1>12, <2>1, SoundReading, GoesKeeps DEF ReadPending
<1>13. ASSUME NEW c \in Clients, TakePending(c) PROVE TypeInv'
  <2>1. Sound(client[c]) /\ client[c].of \in Sessions
    BY <1>13 DEF TakePending, TypeInv, ClientsOK, Sound
  <2>2. CASE Serializable(c)
    <3>1. ClientsOK'
      BY <1>13, <2>1, <2>2, SoundNext, CommitsClients DEF TakePending, TypeInv
    <3>2. RowsOK'
      BY <1>13, RowsKept DEF TakePending, TypeInv, names
    <3>3. SessionsOK'
      BY <1>13, <2>1, <2>2 DEF TakePending, TypeInv, SessionsOK
    <3>4. NamesOK'
      BY <1>13 DEF TakePending, TypeInv, NamesOK, names
    <3> QED BY <3>1, <3>2, <3>3, <3>4 DEF TypeInv
  <2>3. CASE ~Serializable(c)
    BY <1>13, <2>3, SoundIdle, GoesKeeps DEF TakePending
  <2> QED BY <2>2, <2>3
<1>14. ASSUME NEW c \in Clients, ExchangeCode(c) PROVE TypeInv'
  <2>1. Sound(client[c])
    BY DEF TypeInv, ClientsOK
  <2> QED BY <1>14, <2>1, SoundIdle, SoundNext, GoesKeeps DEF ExchangeCode
<1>15. ASSUME NEW c \in Clients, PersistTokens(c) PROVE TypeInv'
  <2>1. client[c].id \in Present => LET r == row[client[c].id] IN
          r \in Accs /\ Unique(r.name, client[c].id)
    BY PresentRows DEF TypeInv, RowsOK, Unique
  <2> QED BY <1>15, <2>1, UpdateKeeps DEF PersistTokens, TypeInv, NamesOK, names
<1>16. ASSUME NEW c \in Clients, Abort(c) PROVE TypeInv'
  BY <1>16, SoundIdle, GoesKeeps DEF Abort
<1>17. CASE KnowAccounts
  BY <1>17 DEF KnowAccounts, TypeInv, ClientsOK, Sound, RowsOK, Present, SessionsOK, NamesOK, names
<1>18. CASE SaveStates
  <2>1. ClientsOK'
    BY <1>18, SoundIdle, CommitsClients DEF SaveStates, TypeInv
  <2>2. RowsOK'
    BY <1>18 DEF SaveStates, TypeInv, RowsOK, Present, names
  <2> QED BY <1>18, <2>1, <2>2 DEF SaveStates, TypeInv, SessionsOK, NamesOK, names
<1>19. CASE Restart
  <2>1. ClientsOK'
    BY <1>19, SoundIdle DEF Restart, ClientsOK, Sound
  <2>2. RowsOK'
    BY <1>19 DEF Restart, TypeInv, RowsOK, Present, names
  <2> QED BY <1>19, <2>1, <2>2 DEF Restart, TypeInv, SessionsOK, NamesOK, names
<1>20. CASE Tick
  <2>1. now' \in 0..MaxNow
    BY <1>20, Constants DEF Tick, TypeInv, SessionsOK
  <2>2. ClientsOK'
    BY <1>20 DEF Tick, TypeInv, ClientsOK, Sound
  <2>3. RowsOK'
    BY <1>20, RowsKept DEF Tick, TypeInv, names
  <2> QED BY <1>20, <2>1, <2>2, <2>3 DEF Tick, TypeInv, SessionsOK, NamesOK, names
<1>21. CASE UNCHANGED vars
  BY <1>21 DEF vars, names, TypeInv, ClientsOK, Sound, RowsOK, Present, SessionsOK, NamesOK
<1> QED
  BY <1>1, <1>2, <1>3, <1>4, <1>5, <1>6, <1>7, <1>8, <1>9, <1>10, <1>11, <1>12, <1>13, <1>14,
     <1>15, <1>16, <1>17, <1>18, <1>19, <1>20, <1>21 DEF Next

(* Every reachable state is well typed, from whatever accounts there are   *)
(* at the start; in a table made with UNIQUE names they keep distinct      *)
(* names, and the X-factor service has saved states of existing accounts.  *)
THEOREM TypeCorrect == Spec => []TypeOK
<1>1. Spec => []TypeInv
  BY InitType, NextType, PTL DEF Spec
<1> QED BY <1>1, TypeSplit, PTL

-----------------------------------------------------------------------------
(* A session is used once *)

(* A transaction that can still commit sees a session that is there.       *)
SessionInv ==
  /\ \A s \in Sessions : handed[s] = 0 \/ (handed[s] = 1 /\ session[s] = Gone)
  /\ \A c \in Clients :
       client[c].at = "reading" /\ ~client[c].spoilt => session[client[c].of] \notin {Unborn, Gone}

LEMMA Used == SessionInv => SessionUsedOnce
BY DEF SessionInv, SessionUsedOnce

LEMMA InitSession == Init => SessionInv
BY DEF Init, SessionInv, Idle

(* Clients that move elsewhere, or are spoilt, keep the invariant.         *)
LEMMA Elsewhere ==
  ASSUME SessionInv, NEW c, NEW f, f.at # "reading", NEW named,
         Goes(c, f) \/ Commits(c, f, named), ClientsOK, ClientsOK',
         UNCHANGED <<session, handed>>
  PROVE  SessionInv'
<1> SUFFICES ASSUME NEW d \in Clients, client'[d].at = "reading", ~client'[d].spoilt
             PROVE  client[d].at = "reading" /\ ~client[d].spoilt /\ client'[d].of = client[d].of
  BY DEF SessionInv
<1>1. d # c
  BY MovedTo
<1>2. /\ client'[d].at = client[d].at /\ client'[d].of = client[d].of
      /\ client[d].spoilt => client'[d].spoilt
  <2>1. CASE Goes(c, f)
    BY <1>1, <2>1, GoesOthers
  <2>2. CASE Commits(c, f, named)
    BY <1>1, <2>2, CommitsOthers
  <2> QED BY <2>1, <2>2
<1> QED BY <1>2

(* After a commit, no other transaction can.                               *)
LEMMA AllSpoilt ==
  ASSUME NEW c, NEW f, f.at # "reading", NEW named, Commits(c, f, named), ClientsOK
  PROVE  \A d \in Clients : client'[d].at = "reading" => client'[d].spoilt
<1> SUFFICES ASSUME NEW d \in Clients, client'[d].at = "reading" PROVE client'[d].spoilt
  OBVIOUS
<1>1. client[d] \in Doings
  BY DEF ClientsOK
<1> QED BY <1>1 DEF Commits, Doings

LEMMA UpdateElsewhere ==
  ASSUME SessionInv, ClientsOK, ClientsOK', NEW c, NEW r, NEW named, Update(c, r, named)
  PROVE  SessionInv'
<1>1. Idle.at # "reading" /\ UNCHANGED <<session, handed>>
  BY DEF Idle, Update
<1>2. Goes(c, Idle) \/ Commits(c, Idle, named)
  BY DEF Update
<1> QED BY <1>1, <1>2, Elsewhere

LEMMA NextSession == TypeInv /\ SessionInv /\ [Next]_vars => SessionInv'
<1> SUFFICES ASSUME TypeInv, SessionInv, [Next]_vars PROVE SessionInv'
  OBVIOUS
<1>0. ClientsOK /\ ClientsOK' /\ Idle.at # "reading"
  BY NextType DEF TypeInv, Idle
<1>1. ASSUME NEW c \in Clients, NEW op \in Edits, NEW i \in Ids, FindById(c, op, i) PROVE SessionInv'
  <2>1. [Idle EXCEPT !.at = "found", !.op = op, !.id = i].at # "reading"
    BY DEF Idle
  <2> QED BY <1>0, <1>1, <2>1, Elsewhere DEF FindById
<1>2. ASSUME NEW c \in Clients, NEW op \in Edits, NEW n \in Names, FindByName(c, op, n)
      PROVE  SessionInv'
  <2>1. PICK i : Goes(c, [Idle EXCEPT !.at = "found", !.op = op, !.id = i])
    BY <1>2 DEF FindByName
  <2>2. [Idle EXCEPT !.at = "found", !.op = op, !.id = i].at # "reading"
    BY DEF Idle
  <2> QED BY <1>0, <1>2, <2>1, <2>2, Elsewhere DEF FindByName
<1>3. ASSUME NEW c \in Clients, SetColumn(c) \/ UpdatePriority(c) \/ RenameAccount(c)
                                \/ PersistTokens(c)
      PROVE  SessionInv'
  BY <1>0, <1>3, UpdateElsewhere DEF SetColumn, UpdatePriority, RenameAccount, PersistTokens
<1>4. ASSUME NEW c \in Clients, NEW i \in Ids, DeleteAccount(c, i) PROVE SessionInv'
  BY <1>0, <1>4, Elsewhere DEF DeleteAccount, Remove
<1>5. ASSUME NEW c \in Clients, RemoveFound(c) PROVE SessionInv'
  BY <1>0, <1>5, Elsewhere DEF RemoveFound, Remove
<1>6. ASSUME NEW c \in Clients, NEW i \in Ids, NEW n \in Names, CheckName(c, i, n)
      PROVE  SessionInv'
  <2>1. PICK b \in {{}, Present} :
          Goes(c, [Idle EXCEPT !.at = "checked", !.id = i, !.name = n, !.saw = b])
    BY <1>6 DEF CheckName
  <2>2. [Idle EXCEPT !.at = "checked", !.id = i, !.name = n, !.saw = b].at # "reading"
    BY DEF Idle
  <2> QED BY <1>0, <1>6, <2>1, <2>2, Elsewhere DEF CheckName
<1>7. ASSUME NEW c \in Clients, CreateAccount(c) PROVE SessionInv'
  BY <1>0, <1>7, Elsewhere DEF CreateAccount
<1>8. ASSUME NEW c \in Clients, NEW i \in Ids, OpenFlow(c, i) PROVE SessionInv'
  <2>1. [Idle EXCEPT !.at = "opening", !.id = i].at # "reading"
    BY DEF Idle
  <2> QED BY <1>0, <1>8, <2>1, Elsewhere DEF OpenFlow
<1>9. ASSUME NEW c \in Clients, NEW s \in Sessions, InsertPending(c, s) PROVE SessionInv'
  <2>1. CASE session' = session
    BY <1>0, <1>9, <2>1, Elsewhere DEF InsertPending
  <2>2. CASE session' # session
    <3>1. \A d \in Clients : client'[d].at = "reading" => client'[d].spoilt
      BY <1>0, <1>9, <2>2, AllSpoilt DEF InsertPending
    <3>2. PICK kept \in {Pending, {t \in Pending : session[t].expires >= now}}, ok \in BOOLEAN :
            session' = [t \in Sessions |->
              IF t = s /\ ok THEN [of |-> client[c].id, expires |-> now + TTL]
              ELSE IF t \in Pending \ kept THEN Gone ELSE session[t]]
      BY <1>9 DEF InsertPending
    <3>3. \A t \in Sessions : session[t] = Gone => session'[t] = Gone
      BY <1>9, <3>2, Constants DEF InsertPending
    <3>4. handed' = handed
      BY <1>9 DEF InsertPending
    <3> QED BY <3>1, <3>3, <3>4 DEF SessionInv
  <2> QED BY <2>1, <2>2
<1>10. ASSUME NEW c \in Clients, NEW s \in Sessions, ReadPending(c, s) PROVE SessionInv'
  <2> DEFINE f == [Idle EXCEPT !.at = "reading", !.of = s, !.id = session[s].of]
  <2>1. f.of = s
    BY DEF Idle
  <2>2. client' = [client EXCEPT ![c] = f]
    BY <1>10 DEF ReadPending, Goes
  <2>3. session[s] \notin {Unborn, Gone} /\ UNCHANGED <<session, handed>>
    BY <1>10 DEF ReadPending, Pending
  <2> HIDE DEF f
  <2>4. \A d \in Clients : client'[d] = IF d = c THEN f ELSE client[d]
    BY <1>0, <2>2 DEF ClientsOK
  <2> QED BY <2>1, <2>3, <2>4 DEF SessionInv
<1>11. ASSUME NEW c \in Clients, TakePending(c) PROVE SessionInv'
  <2>1. CASE Serializable(c)
    <3>1. client[c].of \in Sessions /\ client[c] \in Doings
      BY <1>11 DEF TakePending, TypeInv, ClientsOK, Sound
    <3>2. session[client[c].of] \notin {Unborn, Gone}
      BY <1>11, <2>1 DEF TakePending, SessionInv, Serializable
    <3>3. handed[client[c].of] = 0
      BY <3>1, <3>2 DEF SessionInv
    <3>4. [client[c] EXCEPT !.at = "exchanging"].at # "reading"
      BY <3>1 DEF Doings
    <3>5. \A d \in Clients : client'[d].at = "reading" => client'[d].spoilt
      BY <1>0, <1>11, <2>1, <3>4, AllSpoilt DEF TakePending
    <3>6. /\ session' = [session EXCEPT ![client[c].of] = Gone]
          /\ handed' = [handed EXCEPT ![client[c].of] = @ + 1]
      BY <1>11, <2>1 DEF TakePending
    <3>7. \A s \in Sessions : handed'[s] = 0 \/ (handed'[s] = 1 /\ session'[s] = Gone)
      BY <3>1, <3>3, <3>6 DEF SessionInv, TypeInv, SessionsOK
    <3> QED BY <3>5, <3>7 DEF SessionInv
  <2>2. CASE ~Serializable(c)
    BY <1>0, <1>11, <2>2, Elsewhere DEF TakePending
  <2> QED BY <2>1, <2>2
<1>12. ASSUME NEW c \in Clients, ExchangeCode(c) PROVE SessionInv'
  <2>1. client[c] \in Doings
    BY DEF TypeInv, ClientsOK
  <2>2. [client[c] EXCEPT !.at = "granted"].at # "reading"
    BY <2>1 DEF Doings
  <2> QED BY <1>0, <1>12, <2>2, Elsewhere DEF ExchangeCode
<1>13. ASSUME NEW c \in Clients, Abort(c) PROVE SessionInv'
  BY <1>0, <1>13, Elsewhere DEF Abort
<1>14. CASE KnowAccounts \/ Tick \/ UNCHANGED vars
  BY <1>14 DEF KnowAccounts, Tick, vars, SessionInv
<1>15. CASE SaveStates
  BY <1>0, <1>15, Elsewhere DEF SaveStates
<1>16. CASE Restart
  BY <1>0, <1>16 DEF Restart, SessionInv
<1> QED
  BY <1>1, <1>2, <1>3, <1>4, <1>5, <1>6, <1>7, <1>8, <1>9, <1>10, <1>11, <1>12, <1>13, <1>14,
     <1>15, <1>16 DEF Next

(* The verifier of a pending flow reaches one callback at most, because    *)
(* the DELETE of db_take_pending fails when anything was committed since   *)
(* its SELECT.                                                             *)
THEOREM VerifierOnce == Spec => []SessionUsedOnce
<1>1. TypeInv /\ SessionInv /\ [Next]_vars => (TypeInv /\ SessionInv)'
  BY NextType, NextSession
<1>2. Spec => [](TypeInv /\ SessionInv)
  BY InitType, InitSession, <1>1, PTL DEF Spec
<1> QED BY <1>2, Used, PTL

-----------------------------------------------------------------------------
(* Names that are alike *)

(* A check has seen no name like the one it is for, and holds until the    *)
(* row is inserted for the accounts whose names stay.                      *)
NameInv ==
  /\ NamesakesExplained
  /\ \A c \in Clients : client[c].at = "checked" =>
       \A j \in client[c].saw \intersect Present : ~Alike(row[j].name, client[c].name)

LEMMA InitName == Init => NameInv
BY DEF Init, NameInv, NamesakesExplained, Present, Idle

(* No row has a name it had not.                                           *)
LEMMA SameNames ==
  ASSUME NameInv, ClientsOK, NEW c, NEW f, f.at # "checked", NEW named,
         Goes(c, f) \/ Commits(c, f, named),
         Present' \subseteq Present, \A i \in Present' : row'[i].name = row[i].name,
         against' = against
  PROVE  NameInv'
<1>1. NamesakesExplained'
  BY DEF NameInv, NamesakesExplained, Alike
<1> SUFFICES ASSUME NEW d \in Clients, client'[d].at = "checked",
                    NEW j \in client'[d].saw \intersect Present'
             PROVE  ~Alike(row'[j].name, client'[d].name)
  BY <1>1 DEF NameInv, Alike
<1>2. d # c
  BY MovedTo
<1>3. client[d].at = "checked" /\ client'[d].name = client[d].name /\ j \in client[d].saw
  <2>1. CASE Goes(c, f)
    BY <1>2, <2>1, GoesOthers
  <2>2. CASE Commits(c, f, named)
    <3>1. /\ client'[d].at = client[d].at /\ client'[d].name = client[d].name
          /\ client'[d].saw = client[d].saw \ named
      BY <1>2, <2>2, CommitsOthers
    <3> QED BY <3>1
  <2> QED BY <2>1, <2>2
<1>4. ~Alike(row[j].name, client[d].name)
  BY <1>3 DEF NameInv
<1> QED BY <1>3, <1>4 DEF Alike

LEMMA SameRows ==
  ASSUME NameInv, ClientsOK, NEW c, NEW f, f.at # "checked", NEW named,
         Goes(c, f) \/ Commits(c, f, named), UNCHANGED <<row, against>>
  PROVE  NameInv'
<1>1. Present' = Present
  BY DEF Present
<1> QED BY <1>1, SameNames

(* A row gets a name that is not alike to those it was compared with.      *)
LEMMA NamedApart ==
  ASSUME NameInv, TypeInv, NEW c \in Clients, NEW i \in Ids, NEW r \in Accs, NEW others \in SUBSET Ids,
         row' = [row EXCEPT ![i] = r], Named(i, others), Commits(c, Idle, {i}),
         \A j \in (others \intersect Present) \ {i} : ~Alike(row[j].name, r.name)
  PROVE  NameInv'
<1>1. Present' = Present \union {i}
  BY RowsAreRows DEF Present, TypeInv, RowsOK
<1>2. \A j \in Present' : row'[j] = IF j = i THEN r ELSE row[j]
  BY <1>1 DEF TypeInv, RowsOK, Present
<1>3. \A j \in Present' : against'[j] = IF j = i THEN others ELSE against[j] \ {i}
  BY DEF Named, Present
<1>4. NamesakesExplained'
  <2> SUFFICES ASSUME NEW j \in Present', NEW k \in Present', j # k, k \in against'[j]
               PROVE  ~Alike(row'[j].name, row'[k].name)
    BY DEF NamesakesExplained, Alike
  <2>1. CASE j = i
    BY <1>1, <1>2, <1>3, <2>1 DEF Alike
  <2>2. CASE j # i
    <3>1. k # i /\ k \in against[j] /\ j \in Present /\ k \in Present
      BY <1>1, <1>3, <2>2
    <3> QED BY <1>2, <2>2, <3>1 DEF NameInv, NamesakesExplained, Alike
  <2> QED BY <2>1, <2>2
<1>5. \A j \in Present' \ {i} : j \in Present /\ row'[j].name = row[j].name
  BY <1>1, <1>2
<1>6. Idle.at # "checked"
  BY DEF Idle
<1> SUFFICES ASSUME NEW d \in Clients, client'[d].at = "checked",
                    NEW j \in client'[d].saw \intersect Present'
             PROVE  ~Alike(row'[j].name, client'[d].name)
  BY <1>4 DEF NameInv, Alike
<1>7. d # c /\ ClientsOK
  BY <1>6, MovedTo DEF TypeInv
<1>8. /\ client[d].at = "checked" /\ client'[d].name = client[d].name
      /\ j \in client[d].saw /\ j # i
  <2>1. /\ client'[d].at = client[d].at /\ client'[d].name = client[d].name
        /\ client'[d].saw = client[d].saw \ {i}
    BY <1>7, CommitsOthers
  <2> QED BY <2>1
<1>9. ~Alike(row[j].name, client[d].name)
  BY <1>5, <1>8 DEF NameInv
<1> QED BY <1>5, <1>8, <1>9 DEF Alike

(* An UPDATE that keeps the name.                                          *)
LEMMA UpdateKeepsNames ==
  ASSUME NameInv, TypeInv, NEW c \in Clients, NEW r, Update(c, r, {}), against' = against,
         client[c].id \in Present => r \in Accs /\ r.name = row[client[c].id].name
  PROVE  NameInv'
<1>1. CASE client[c].id \in Present
  <2>1. client[c].id \in Ids /\ row' = [row EXCEPT ![client[c].id] = r]
    BY <1>1 DEF Update, Present
  <2>2. Present' = Present
    BY <1>1, <2>1, RowsAreRows DEF Present, TypeInv, RowsOK
  <2>3. \A j \in Present' : row'[j].name = row[j].name
    BY <1>1, <2>1, <2>2 DEF TypeInv, RowsOK, Present
  <2>4. Commits(c, Idle, {})
    BY <1>1 DEF Update
  <2>5. Idle.at # "checked"
    BY DEF Idle
  <2> QED BY <2>2, <2>3, <2>4, <2>5, SameNames DEF TypeInv
<1>2. CASE client[c].id \notin Present
  BY <1>2, SameRows DEF Update, TypeInv, Idle
<1> QED BY <1>1, <1>2

LEMMA RemoveKeepsNames ==
  ASSUME NameInv, TypeInv, NEW c \in Clients, NEW i, Remove(c, i), UNCHANGED <<saved, cached, names>>
  PROVE  NameInv'
<1>0. Idle.at # "checked" /\ UNCHANGED <<enforced, against>>
  BY DEF Idle, names
<1>1. CASE i \in Present \ saved
  <2>1. row' = [row EXCEPT ![i] = Gone] /\ Commits(c, Idle, {})
    BY <1>1 DEF Remove
  <2>2. Present' = Present \ {i} /\ \A j \in Present' : row'[j] = row[j]
    BY <1>0, <1>1, <2>1, RowRemoved DEF TypeInv
  <2>3. Present' \subseteq Present /\ \A j \in Present' : row'[j].name = row[j].name
    BY <2>2
  <2> QED BY <1>0, <2>1, <2>3, SameNames DEF TypeInv
<1>2. CASE i \notin Present \ saved
  BY <1>0, <1>2, SameRows DEF Remove, TypeInv
<1> QED BY <1>1, <1>2

LEMMA NextName == TypeInv /\ NameInv /\ [Next]_vars => NameInv'
<1> SUFFICES ASSUME TypeInv, NameInv, [Next]_vars PROVE NameInv'
  OBVIOUS
<1> USE DEF names
<1>0. ClientsOK /\ RowsOK /\ Idle.at # "checked"
  BY DEF TypeInv, Idle
<1>1. ASSUME NEW c \in Clients, NEW op \in Edits, NEW i \in Ids, FindById(c, op, i) PROVE NameInv'
  <2>1. [Idle EXCEPT !.at = "found", !.op = op, !.id = i].at # "checked"
    BY DEF Idle
  <2> QED BY <1>0, <1>1, <2>1, SameRows DEF FindById
<1>2. ASSUME NEW c \in Clients, NEW op \in Edits, NEW n \in Names, FindByName(c, op, n)
      PROVE  NameInv'
  <2>1. PICK i : Goes(c, [Idle EXCEPT !.at = "found", !.op = op, !.id = i])
    BY <1>2 DEF FindByName
  <2>2. [Idle EXCEPT !.at = "found", !.op = op, !.id = i].at # "checked"
    BY DEF Idle
  <2> QED BY <1>0, <1>2, <2>1, <2>2, SameRows DEF FindByName
<1>3. ASSUME NEW c \in Clients, SetColumn(c) \/ PersistTokens(c) PROVE NameInv'
  <2>1. client[c].id \in Present => row[client[c].id] \in Accs
    BY <1>0, PresentRows
  <2> QED BY <1>3, <2>1, UpdateKeepsNames DEF SetColumn, PersistTokens
<1>4. ASSUME NEW c \in Clients, UpdatePriority(c) PROVE NameInv'
  <2>1. PICK p \in {0, 1} : Update(c, [row[client[c].id] EXCEPT !.priority = p], {})
    BY <1>4 DEF UpdatePriority
  <2>2. client[c].id \in Present => LET r == [row[client[c].id] EXCEPT !.priority = p] IN
          r \in Accs /\ r.name = row[client[c].id].name
    <3>1. client[c].id \in Present => row[client[c].id] \in Accs
      BY <1>0, PresentRows
    <3> QED BY <3>1 DEF Accs
  <2> QED BY <1>4, <2>1, <2>2, UpdateKeepsNames DEF UpdatePriority
<1>5. ASSUME NEW c \in Clients, RenameAccount(c) PROVE NameInv'
  <2>1. PICK n \in Names : Update(c, [row[client[c].id] EXCEPT !.name = n], {client[c].id})
    BY <1>5 DEF RenameAccount
  <2>2. CASE client[c].id \in Present
    <3> DEFINE r == [row[client[c].id] EXCEPT !.name = n]
    <3>1. client[c].id \in Ids /\ row[client[c].id] \in Accs
      BY <1>0, <2>2, PresentRows
    <3>2. r \in Accs
      BY <3>1 DEF Accs
    <3>3. row' = [row EXCEPT ![client[c].id] = r] /\ Commits(c, Idle, {client[c].id})
      BY <2>1, <2>2 DEF Update
    <3>4. Named(client[c].id, {})
      BY <1>5, <2>2 DEF RenameAccount
    <3> HIDE DEF r
    <3>5. {} \in SUBSET Ids /\ \A j \in ({} \intersect Present) \ {client[c].id} : FALSE
      OBVIOUS
    <3> QED BY <3>1, <3>2, <3>3, <3>4, <3>5, NamedApart
  <2>3. CASE client[c].id \notin Present
    <3>1. Goes(c, Idle) /\ row' = row
      BY <2>1, <2>3 DEF Update
    <3>2. against' = against
      BY <1>5, <2>3 DEF RenameAccount
    <3> QED BY <1>0, <3>1, <3>2, SameRows
  <2> QED BY <2>2, <2>3
<1>6. ASSUME NEW c \in Clients, NEW i \in Ids, DeleteAccount(c, i) PROVE NameInv'
  BY <1>6, RemoveKeepsNames DEF DeleteAccount
<1>7. ASSUME NEW c \in Clients, RemoveFound(c) PROVE NameInv'
  BY <1>7, RemoveKeepsNames DEF RemoveFound
<1>8. ASSUME NEW c \in Clients, NEW i \in Ids, NEW n \in Names, CheckName(c, i, n) PROVE NameInv'
  <2>1. PICK b \in {{}, Present} :
          /\ b = {} \/ NoneAlike(n)
          /\ Goes(c, [Idle EXCEPT !.at = "checked", !.id = i, !.name = n, !.saw = b])
    BY <1>8 DEF CheckName
  <2> DEFINE f == [Idle EXCEPT !.at = "checked", !.id = i, !.name = n, !.saw = b]
  <2>2. f.name = n /\ f.saw = b
    BY DEF Idle
  <2>3. client' = [client EXCEPT ![c] = f] /\ UNCHANGED <<row, against>>
    BY <1>8, <2>1 DEF CheckName, Goes
  <2> HIDE DEF f
  <2>4. \A d \in Clients : client'[d] = IF d = c THEN f ELSE client[d]
    BY <1>0, <2>3 DEF ClientsOK
  <2>5. Present' = Present
    BY <2>3 DEF Present
  <2>6. NamesakesExplained'
    BY <2>3, <2>5 DEF NameInv, NamesakesExplained, Alike
  <2>7. \A j \in b \intersect Present : ~Alike(row[j].name, n)
    BY <2>1 DEF NoneAlike, Namesakes
  <2>8. ASSUME NEW d \in Clients, client'[d].at = "checked",
               NEW j \in client'[d].saw \intersect Present
        PROVE  ~Alike(row[j].name, client'[d].name)
    BY <2>2, <2>4, <2>7, <2>8 DEF NameInv
  <2> QED BY <2>3, <2>5, <2>6, <2>8 DEF NameInv, Alike
<1>9. ASSUME NEW c \in Clients, CreateAccount(c) PROVE NameInv'
  <2> DEFINE n == client[c].name
             i == client[c].id
  <2>1. i \in Ids /\ n \in Names /\ client[c].saw \in SUBSET Ids /\ client[c].at = "checked"
    BY <1>9 DEF CreateAccount, TypeInv, ClientsOK, Sound, Doings
  <2>2. CASE Unique(n, i)
    <3>1. PICK p \in {0, 1} : row' = [row EXCEPT ![i] = [name |-> n, priority |-> p]]
      BY <1>9, <2>2 DEF CreateAccount
    <3> DEFINE r == [name |-> n, priority |-> p]
    <3>2. r \in Accs /\ r.name = n
      BY <2>1 DEF Accs
    <3>3. Commits(c, Idle, {i}) /\ Named(i, client[c].saw)
      BY <1>9, <2>2 DEF CreateAccount
    <3>4. \A j \in client[c].saw \intersect Present : ~Alike(row[j].name, n)
      BY <2>1 DEF NameInv
    <3> HIDE DEF r
    <3> QED BY <2>1, <3>1, <3>2, <3>3, <3>4, NamedApart DEF r
  <2>3. CASE ~Unique(n, i)
    BY <1>0, <1>9, <2>3, SameRows DEF CreateAccount
  <2> QED BY <2>2, <2>3
<1>10. ASSUME NEW c \in Clients, NEW i \in Ids, OpenFlow(c, i) PROVE NameInv'
  <2>1. [Idle EXCEPT !.at = "opening", !.id = i].at # "checked"
    BY DEF Idle
  <2> QED BY <1>0, <1>10, <2>1, SameRows DEF OpenFlow
<1>11. ASSUME NEW c \in Clients, NEW s \in Sessions, InsertPending(c, s) PROVE NameInv'
  <2>1. Goes(c, Idle) \/ Commits(c, Idle, {})
    BY <1>11 DEF InsertPending
  <2>2. UNCHANGED <<row, against>>
    BY <1>11 DEF InsertPending
  <2> QED BY <1>0, <2>1, <2>2, SameRows
<1>12. ASSUME NEW c \in Clients, NEW s \in Sessions, ReadPending(c, s) PROVE NameInv'
  <2>1. [Idle EXCEPT !.at = "reading", !.of = s, !.id = session[s].of].at # "checked"
    BY DEF Idle
  <2> QED BY <1>0, <1>12, <2>1, SameRows DEF ReadPending
<1>13. ASSUME NEW c \in Clients, TakePending(c) PROVE NameInv'
  <2>1. [client[c] EXCEPT !.at = "exchanging"].at # "checked"
    BY DEF TypeInv, ClientsOK, Doings
  <2>2. Goes(c, Idle) \/ Commits(c, [client[c] EXCEPT !.at = "exchanging"], {})
    BY <1>13 DEF TakePending
  <2>3. UNCHANGED <<row, against>>
    BY <1>13 DEF TakePending
  <2> QED BY <1>0, <2>1, <2>2, <2>3, SameRows
<1>14. ASSUME NEW c \in Clients, ExchangeCode(c) PROVE NameInv'
  <2>1. [client[c] EXCEPT !.at = "granted"].at # "checked"
    BY DEF TypeInv, ClientsOK, Doings
  <2> QED BY <1>0, <1>14, <2>1, SameRows DEF ExchangeCode
<1>15. ASSUME NEW c \in Clients, Abort(c) PROVE NameInv'
  BY <1>0, <1>15, SameRows DEF Abort
<1>16. CASE SaveStates
  BY <1>0, <1>16, SameRows DEF SaveStates
<1>17. CASE KnowAccounts \/ Tick \/ UNCHANGED vars
  BY <1>17 DEF KnowAccounts, Tick, vars, NameInv, NamesakesExplained, Alike, Present
<1>18. CASE Restart
  <2>1. Present' = Present /\ \A d \in Clients : client'[d].at # "checked"
    BY <1>0, <1>18 DEF Restart, Present
  <2> QED BY <1>18, <2>1 DEF Restart, NameInv, NamesakesExplained, Alike
<1> QED
  BY <1>1, <1>2, <1>3, <1>4, <1>5, <1>6, <1>7, <1>8, <1>9, <1>10, <1>11, <1>12, <1>13, <1>14,
     <1>15, <1>16, <1>17, <1>18 DEF Next

(* Names that were compared when one of them was given stay apart until    *)
(* one changes: accounts whose names are alike were there from the start,  *)
(* as on a database whose table came without UNIQUE, or one got its name   *)
(* by a rename, or by a creation that did not see the other.               *)
THEOREM NamesakesTraced == Spec => []NamesakesExplained
<1>1. TypeInv /\ NameInv /\ [Next]_vars => (TypeInv /\ NameInv)'
  BY NextType, NextName
<1>2. Spec => [](TypeInv /\ NameInv)
  BY InitType, InitName, <1>1, PTL DEF Spec
<1>3. NameInv => NamesakesExplained
  BY DEF NameInv
<1> QED BY <1>2, <1>3, PTL
=============================================================================
