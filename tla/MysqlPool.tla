----------------------------- MODULE MysqlPool ------------------------------
(***************************************************************************)
(* mysql_pool.c: idle MySQL connections by login.  A login's list is       *)
(* created, with one entry, the first time it is asked for; an entry is    *)
(* connected when it is first taken.  With the redirected client library   *)
(* mysql_helper_connect suspends the fiber that calls it, and others use   *)
(* the pool meanwhile.                                                     *)
(***************************************************************************)
EXTENDS Integers, Sequences, SequencesExt, FiniteSets

CONSTANTS Logins, Callers,
          MaxEntries   \* bound: entries that can be allocated

VARIABLES known,       \* logins with a list in ht_idle_connections
          idle,        \* that list, head first
          made,        \* entries allocated so far
          connected,   \* login the entry is connected with (is_connected), or none
          caller       \* where each caller is, with which login and which *mysql

vars == <<known, idle, made, connected, caller>>

Entries == 1..MaxEntries
Nobody == "nobody"

(* Outside the pool; in the connect of the entry of a new login ("first")  *)
(* or of the entry to be returned ("second"); or with that entry ("has").  *)
Out == [pc |-> "out", login |-> Nobody, entry |-> 0]

mysql_pool_init ==
    /\ known = {} /\ made = 0
    /\ connected = [e \in Entries |-> Nobody]
    /\ idle = [l \in Logins |-> <<>>]
    /\ caller = [c \in Callers |-> Out]

(* mysql_pool_get returns -1.                                              *)
Failed(c) == caller' = [caller EXCEPT ![c] = Out] /\ UNCHANGED <<idle, made>>

peek_free_entry(c, l, list, wait) ==
    /\ idle' = [idle EXCEPT ![l] = list]
    /\ caller' = [caller EXCEPT ![c] =
                    [pc |-> IF connected[Head(list)] = Nobody THEN wait ELSE "has",
                     login |-> l, entry |-> Head(list)]]

(* get_free_entry up to its end or to mysql_helper_connect.                *)
get_free_entry(c, l, list, wait) ==
    /\ idle' = [idle EXCEPT ![l] = Tail(list)]
    /\ caller' = [caller EXCEPT ![c] =
                    [pc |-> IF connected[Head(list)] = Nobody THEN wait ELSE "has",
                     login |-> l, entry |-> Head(list)]]

(* create_entry, which may fail, and get_free_entry.                       *)
create_entry(c, l, wait) ==
    \/ Failed(c)
    \/ /\ made < MaxEntries /\ made' = made + 1
       /\ get_free_entry(c, l, <<made'>> \o idle[l], wait)

(* mysql_pool_get from where a new and a known login meet.                 *)
get_from_list(c, l) ==
    \/ idle[l] = <<>> /\ create_entry(c, l, "second")
    \/ idle[l] # <<>> /\ get_free_entry(c, l, idle[l], "second") /\ UNCHANGED made

mysql_pool_get(c, l) ==
    /\ caller[c].pc = "out"
    /\ \/ l \in known /\ get_from_list(c, l) /\ UNCHANGED known
       \/ l \notin known /\ create_entry(c, l, "first") /\ known' = known \cup {l}
       \/ l \notin known /\ Failed(c) /\ UNCHANGED known      \* hashtable_insert failed
    /\ UNCHANGED connected

(* mysql_helper_connect returns to get_free_entry.  For a new login the    *)
(* code then goes on as for a known one, and *mysql is overwritten.        *)
connect_returns(c) ==
    LET e == caller[c].entry
        l == caller[c].login
    IN
    /\ caller[c].pc \in {"first", "second"}
    /\ \/ Failed(c) /\ UNCHANGED connected
       \/ /\ connected' = [connected EXCEPT ![e] = l]
          /\ \/ caller[c].pc = "first" /\ get_from_list(c, l)
             \/ /\ caller[c].pc = "second"
                /\ caller' = [caller EXCEPT ![c].pc = "has"]
                /\ UNCHANGED <<idle, made>>
    /\ UNCHANGED known

(* The caller gives the entry back with the login it asked for it with.    *)
mysql_pool_free(c) ==
    /\ caller[c].pc = "has"
    /\ idle' = [idle EXCEPT ![caller[c].login] = <<caller[c].entry>> \o @]
    /\ caller' = [caller EXCEPT ![c] = Out]
    /\ UNCHANGED <<known, made, connected>>

Init == mysql_pool_init

Next == \E c \in Callers : \/ \E l \in Logins : mysql_pool_get(c, l)
                           \/ connect_returns(c) \/ mysql_pool_free(c)

Spec == Init /\ [][Next]_vars
-----------------------------------------------------------------------------
Idle == UNION {ToSet(idle[l]) : l \in Logins}

Taken == {caller[c].entry : c \in {d \in Callers : caller[d].pc # "out"}}

(* A connection has one user, also while others wait for theirs to be      *)
(* connected: it is in one list, once, or with one caller, and it is       *)
(* connected with that user's login.                                       *)
OneUser ==
    /\ Taken \cap Idle = {}
    /\ \A c, d \in Callers : (c # d /\ caller[c].pc # "out") => caller[c].entry # caller[d].entry
    /\ \A c \in Callers : caller[c].pc = "has" => connected[caller[c].entry] = caller[c].login
    /\ \A l \in Logins : \A i \in 1..Len(idle[l]) :
         /\ connected[idle[l][i]] = l
         /\ \A j \in 1..Len(idle[l]) : idle[l][i] = idle[l][j] => i = j

(* The connections that are lost to the pool are those of first calls: at  *)
(* most one for each login, however often and by however many it is used   *)
(* later.                                                                  *)
LostPerLogin ==
    \A l \in Logins :
        Cardinality({e \in Entries \ (Taken \cup Idle) : connected[e] = l}) <= 1
=============================================================================
