------------------------------ MODULE Registry ------------------------------
(***************************************************************************)
(* The user registry of the POST server (http/http_conn.cpp): the global   *)
(* map `users' (name -> password), loaded from the user table by           *)
(* initmysql_result() at startup, and the two form routes of              *)
(* do_request() that use it, POST /2 (login) and POST /3 (register).       *)
(* Worker threads run do_request() concurrently.  The map is read without *)
(* a lock; the register path runs the INSERT and users.insert() under the *)
(* global mutex m_lock.                                                    *)
(*                                                                         *)
(* The user table is a sequence of rows in insertion order.  Whether its  *)
(* username column is a unique key, and whether an INSERT may fail for    *)
(* another reason (a lost connection, a quote in the name), are the       *)
(* constants DbUnique and DbMayFail: the schema in the repository says    *)
(* neither.                                                                *)
(***************************************************************************)
EXTENDS Integers, Sequences, SequencesExt

CONSTANTS Workers,       \* the pool's threads
          Names,         \* user names clients send
          Passwords,     \* passwords clients send
          NONE,          \* users.find(name) == users.end()
          InitialTable,  \* the user table when the server starts
          DbUnique,      \* username is a unique key of the table
          DbMayFail      \* an INSERT may fail on a name not in the table

ASSUME NONE \notin Passwords

Row == [user : Names, passwd : Passwords]

ASSUME InitialTable \in Seq(Row) /\ DbUnique \in BOOLEAN /\ DbMayFail \in BOOLEAN

(* A parsed form request: the route digit and user=<name>&password=<pwd>.  *)
Request == [op : {"login", "register"}, name : Names, pwd : Passwords]

VARIABLES users,   \* the global map<string,string> users
          db,      \* the user table
          lock,    \* holder of m_lock, or NONE
          pc,      \* where each worker is in do_request()
          req,     \* the request a worker is serving
          res,     \* mysql_query()'s result for the worker's INSERT
          page,    \* the page do_request() chose for the worker (m_url)
          granted  \* <<name, pwd>> pairs a register answered with /login.html

vars == <<users, db, lock, pc, req, res, page, granted>>

Pages == {"none", "/welcome.html", "/loginError.html", "/login.html",
          "/registerError.html"}

(* initmysql_result(): SELECT username,passwd FROM user, then             *)
(* users[row[0]] = row[1] for each row in turn, so a later row wins.       *)
LoadUsers(rows) ==
    FoldLeft(LAMBDA u, r : [u EXCEPT ![r.user] = r.passwd],
             [n \in Names |-> NONE], rows)

NameInDb(n) == \E i \in 1..Len(db) : db[i].user = n

(* mysql_query(mysql, sql_insert): 0 when the row went in.                *)
InsertResults(n) ==
    IF DbUnique /\ NameInDb(n) THEN {"fail"}
    ELSE {"ok"} \cup (IF DbMayFail THEN {"fail"} ELSE {})

(* sql_insert: INSERT INTO user(username, passwd) VALUES('name', 'pwd').   *)
SqlInsert(n, p) == [user |-> n, passwd |-> p]

UsersInsert(u, n, p) == IF u[n] = NONE THEN [u EXCEPT ![n] = p] ELSE u

Init ==
    /\ db = InitialTable
    /\ users = LoadUsers(InitialTable)
    /\ lock = NONE
    /\ pc = [w \in Workers |-> "idle"]
    /\ req = [w \in Workers |-> CHOOSE r \in Request : TRUE]
    /\ res = [w \in Workers |-> "ok"]
    /\ page = [w \in Workers |-> "none"]
    /\ granted = {}

(* process_read() has parsed a POST to /2 or /3 and calls do_request()     *)
(* with name and password taken from the body.                             *)
Receive(w, r) ==
    /\ pc[w] = "idle"
    /\ pc' = [pc EXCEPT ![w] = r.op]
    /\ req' = [req EXCEPT ![w] = r]
    /\ page' = [page EXCEPT ![w] = "none"]
    /\ UNCHANGED <<users, db, lock, res, granted>>

(* mutant: users[name] == password without the find() test, which inserts *)
(* an empty password for an unknown name                                   *)
LoginNoFind(w) ==
    /\ pc[w] = "login"
    /\ users' = IF users[req[w].name] = NONE
                THEN [users EXCEPT ![req[w].name] = ""] ELSE users
    /\ page' = [page EXCEPT ![w] = IF users[req[w].name] = req[w].pwd
                                   THEN "/welcome.html" ELSE "/loginError.html"]
    /\ pc' = [pc EXCEPT ![w] = "idle"]
    /\ UNCHANGED <<db, lock, req, res, granted>>

(* Login: users.find(name) != end() && users[name] == password, no lock.   *)
Login(w) ==
    /\ pc[w] = "login"
    /\ page' = [page EXCEPT ![w] = IF users[req[w].name] = req[w].pwd
                                   THEN "/welcome.html" ELSE "/loginError.html"]
    /\ pc' = [pc EXCEPT ![w] = "idle"]
    /\ UNCHANGED <<users, db, lock, req, res, granted>>

(* Register: users.find(name) == users.end(), tested without the lock; a  *)
(* known name gets /registerError.html at once.                            *)
RegisterFind(w) ==
    /\ pc[w] = "register"
    /\ IF users[req[w].name] = NONE
       THEN /\ pc' = [pc EXCEPT ![w] = "lock"]
            /\ UNCHANGED page
       ELSE /\ pc' = [pc EXCEPT ![w] = "idle"]
            /\ page' = [page EXCEPT ![w] = "/registerError.html"]
    /\ UNCHANGED <<users, db, lock, req, res, granted>>

(* mutant: m_lock.unlock() moved up before users.insert()                *)
QueryUnlocked(w) ==
    /\ pc[w] = "lock" /\ lock = NONE
    /\ \E r \in InsertResults(req[w].name) :
          /\ res' = [res EXCEPT ![w] = r]
          /\ db' = IF r = "ok" THEN Append(db, SqlInsert(req[w].name, req[w].pwd))
                   ELSE db
    /\ pc' = [pc EXCEPT ![w] = "insert"]
    /\ UNCHANGED <<users, lock, req, page, granted>>

(* m_lock.lock(); res = mysql_query(mysql, sql_insert).                    *)
RegisterQuery(w) ==
    /\ pc[w] = "lock" /\ lock = NONE
    /\ \E r \in InsertResults(req[w].name) :
          /\ res' = [res EXCEPT ![w] = r]
          /\ db' = IF r = "ok" THEN Append(db, SqlInsert(req[w].name, req[w].pwd))
                   ELSE db
    /\ lock' = w
    /\ pc' = [pc EXCEPT ![w] = "insert"]
    /\ UNCHANGED <<users, req, page, granted>>

(* users.insert(...) whatever res was; m_lock.unlock(); then /login.html  *)
(* if the INSERT succeeded, /registerError.html if not.                   *)
RegisterInsert(w) ==
    /\ pc[w] = "insert"
    /\ users' = UsersInsert(users, req[w].name, req[w].pwd)
    /\ lock' = NONE
    /\ page' = [page EXCEPT ![w] = IF res[w] = "ok" THEN "/login.html"
                                   ELSE "/registerError.html"]
    /\ granted' = IF res[w] = "ok" THEN granted \cup {<<req[w].name, req[w].pwd>>}
                  ELSE granted
    /\ pc' = [pc EXCEPT ![w] = "idle"]
    /\ UNCHANGED <<db, req, res>>

Next ==
    \E w \in Workers :
        \/ \E r \in Request : Receive(w, r)
        \/ Login(w) \/ RegisterFind(w) \/ RegisterQuery(w) \/ RegisterInsert(w)

Spec == Init /\ [][Next]_vars

-----------------------------------------------------------------------------
RegistryTypeOK ==
    /\ users \in [Names -> Passwords \cup {NONE}]
    /\ db \in Seq(Row)
    /\ lock \in Workers \cup {NONE}
    /\ pc \in [Workers -> {"idle", "login", "register", "lock", "insert"}]
    /\ req \in [Workers -> Request] /\ res \in [Workers -> {"ok", "fail"}]
    /\ page \in [Workers -> Pages]
    /\ granted \subseteq Names \X Passwords

(* The map and the table agree: a name the map knows has exactly the      *)
(* password of a row of the table, and every name of the table is in the *)
(* map, or is being inserted by the worker holding m_lock.  The register  *)
(* path must add to the map only what it added to the table (spec 4.6:    *)
(* "on success add to UserRecord").                                        *)
RegistryMatchesDb ==
    /\ \A n \in Names : users[n] # NONE =>
          \E i \in 1..Len(db) : db[i].user = n /\ db[i].passwd = users[n]
    /\ \A i \in 1..Len(db) :
          \/ users[db[i].user] # NONE
          \/ lock # NONE /\ req[lock].name = db[i].user

====
