--------------------------- MODULE MCStoreHealth ----------------------------
(* Small instances of StoreHealth for TLC. *)
EXTENDS StoreHealth, TLC

CONSTANTS a, b, h1, h2

TwoUrls   == {a, b}
TwoChecks == {h1, h2}

\* A configuration that is in memory but for the given contracts.
Conf(l, bs, us) ==
  [lang |-> l,
   backend |-> [k \in Contracts |-> IF k \in DOMAIN bs THEN bs[k] ELSE "memory"],
   url |-> [k \in Contracts |-> IF k \in DOMAIN us THEN us[k] ELSE Unset]]

\* Go: URLs that differ, that are shared and that are missing; other back ends;
\* one that nobody knows.
GoSetups ==
  { Conf("go", [kv |-> "redis", pubsub |-> "redis"], [kv |-> b, pubsub |-> a]),
    Conf("go", [kv |-> "redis", sorted_set |-> "redis"], [kv |-> b]),
    Conf("go", [sorted_set |-> "redis", pubsub |-> "redis"],
               [kv |-> b, sorted_set |-> b]),
    Conf("go", [relational |-> "postgres", blob |-> "local"], <<>>),
    Conf("go", [blob |-> "s3"], <<>>),
    Conf("go", [blob |-> "other"], <<>>) }

\* Rust: the URLs of the contracts that are on Redis agree.
RustSetups ==
  { Conf("rust", [kv |-> "redis", sorted_set |-> "redis"], [kv |-> b, sorted_set |-> b]),
    Conf("rust", [pubsub |-> "redis", relational |-> "postgres"], [pubsub |-> b]),
    Conf("rust", [blob |-> "local", relational |-> "postgres"], <<>>),
    Conf("rust", [kv |-> "redis"], <<>>),
    Conf("rust", [blob |-> "s3"], <<>>) }

AgreedSetups == GoSetups \cup RustSetups

\* Rust: they do not.
SplitSetups == { Conf("rust", [kv |-> "redis", pubsub |-> "redis"],
                              [kv |-> a, pubsub |-> b]) }

\* Where one contract has a server, that server changes twice.
OutOfMemory(s) == {k \in Contracts : s.backend[k] # "memory"}
Changes == [s \in AgreedSetups \cup SplitSetups |->
              IF Cardinality(OutOfMemory(s)) = 1 THEN 2 ELSE 1]

ASSUME SetupsAgree ==
  (\A s \in AgreedSetups : Agreed(s)) /\ (\A s \in SplitSetups : ~Agreed(s))
=============================================================================
