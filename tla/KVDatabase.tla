----------------------------- MODULE KVDatabase -----------------------------
(***************************************************************************)
(* The in-memory database of one replica (kv-database.cc), as operators on *)
(* values.  Every member function of KeyValueDataBase runs under one of    *)
(* the two shared_mutexes, so one operator is one atomic step of the       *)
(* replica that calls it.                                                  *)
(*                                                                         *)
(*   rounds     the std::map<int, PaxosLog> of one key: a function from    *)
(*              the rounds present to their PaxosLog                       *)
(*   dataMap    data_map_: a function from keys to a value, or Nil where   *)
(*              the key is absent                                          *)
(***************************************************************************)
EXTENDS Naturals

CONSTANT Nil     \* the empty string, an absent entry

\* A protobuf PaxosLog as its default constructor leaves it.
NewPaxosLog == [promised_id |-> 0, accepted_id |-> 0,
                accepted_type |-> "NOT_SET", accepted_value |-> Nil]

\* paxos_logs_map_[key] of a key nothing was ever logged for.
NoRounds == [r \in {} |-> NewPaxosLog]

\* The log of a round; operator[] default-constructs a missing one.
GetPaxosLog(rounds, r) ==
    IF r \in DOMAIN rounds THEN rounds[r] ELSE NewPaxosLog

\* Mutant of AddRound: the round is looked up, not inserted.
AddRoundNothing(rounds, r) == rounds

\* AddPaxosLog(key, round), and the insertion that GetPaxosLog(key, round)
\* makes: the round exists afterwards, an existing log is left as it is.
AddRound(rounds, r) ==
    [x \in DOMAIN rounds \cup {r} |-> GetPaxosLog(rounds, x)]

\* AddPaxosLog(key, round, accepted_id, type, value): the acceptance is
\* overwritten, promised_id is left alone.
AddAccepted(rounds, r, id, prop) ==
    [x \in DOMAIN rounds \cup {r} |->
        IF x = r THEN [promised_id    |-> GetPaxosLog(rounds, r).promised_id,
                       accepted_id    |-> id,
                       accepted_type  |-> prop.type,
                       accepted_value |-> prop.value]
                 ELSE rounds[x]]

\* Mutant of AddRecovered: the rounds are counted from 0.
AddRecoveredFromZero(rounds, r, log) ==
    [x \in DOMAIN rounds \cup {r - 1} |-> IF x = r - 1 THEN log ELSE rounds[x]]

\* Mutant of AddRecovered: logs go into the round after their own.
AddRecoveredNextRound(rounds, r, log) ==
    [x \in DOMAIN rounds \cup {r + 1} |-> IF x = r + 1 THEN log ELSE rounds[x]]

\* AddPaxosLog(key, round, promised_id, accepted_id, type, value), with a log
\* from a recovery snapshot: the log is overwritten whole.
AddRecovered(rounds, r, log) ==
    [x \in DOMAIN rounds \cup {r} |-> IF x = r THEN log ELSE rounds[x]]

\* n is what GetLatestRound returns: the largest round logged, 0 for none.
IsLatestRound(rounds, n) ==
    /\ n \in DOMAIN rounds \cup {0}
    /\ \A r \in DOMAIN rounds : r <= n

\* round < GetLatestRound(key): a later round than r is logged.
HasLaterRound(rounds, r) == \E x \in DOMAIN rounds : x > r

\* SetValue and DeleteEntry on data_map_.
SetValue(dataMap, key, val) == [dataMap EXCEPT ![key] = val]
DeleteEntry(dataMap, key) == [dataMap EXCEPT ![key] = Nil]
=============================================================================
