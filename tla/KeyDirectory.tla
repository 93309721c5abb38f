---------------------------- MODULE KeyDirectory ----------------------------
(***************************************************************************)
(* What the read routes of the API promise, without a table, a clock or a  *)
(* handler: a directory of the keys being served, each identity entering   *)
(* and leaving it once, and questions whose answer is the directory's      *)
(* content at one instant between the question and the answer.             *)
(***************************************************************************)
EXTENDS Naturals, FiniteSets

CONSTANTS
    KeyId,     \* identities a key may have
    Usage,     \* usages that may be asked about, configured or not
    Client,    \* those who ask, one question at a time
    BatchSize  \* the most keys a list shows

VARIABLES
    live,      \* usage -> the keys being served
    gone,      \* the keys that are served no more
    calls      \* client -> the state of its question

dirVars == <<live, gone, calls>>

Question == [op : {"get"}, of : KeyId] \cup [op : {"list", "sign"}, of : Usage]

Idle == [stage |-> "idle"]

Asked(q) == [stage |-> "asked", question |-> q]

Answered(q, ok, found) ==
    [stage |-> "answered", question |-> q, ok |-> ok, found |-> found]

Live == UNION {live[u] : u \in Usage}

\* What may be found now: the key of that identity, or none; the keys of the usage,
\* or as many as a list shows; a key to sign with.
Findings(q) ==
    CASE q.op = "get"  -> {Live \cap {q.of}}
      [] q.op = "list" -> {found \in SUBSET live[q.of] :
                              found = live[q.of] \/ Cardinality(found) = BatchSize}
      [] q.op = "sign" -> {{k} : k \in live[q.of]}

Init == /\ live \in [Usage -> SUBSET KeyId]
        /\ gone = {}
        /\ \A u, v \in Usage : u # v => live[u] \cap live[v] = {}
        /\ calls = [c \in Client |-> Idle]

\* Keys that never were in the directory enter it.
Publish ==
    /\ live' \in [Usage -> SUBSET KeyId]
    /\ \A u \in Usage : live[u] \subseteq live'[u]
    /\ \A u \in Usage : (live'[u] \ live[u]) \cap (Live \cup gone) = {}
    /\ \A u, v \in Usage : u # v => live'[u] \cap live'[v] = {}
    /\ UNCHANGED <<gone, calls>>

\* Keys leave it for good.
Withdraw ==
    /\ live' \in [Usage -> SUBSET KeyId]
    /\ \A u \in Usage : live'[u] \subseteq live[u]
    /\ gone' = gone \cup UNION {live[u] \ live'[u] : u \in Usage}
    /\ UNCHANGED calls

Ask(c) == /\ calls[c] = Idle
          /\ \E q \in Question : calls' = [calls EXCEPT ![c] = Asked(q)]
          /\ UNCHANGED <<live, gone>>

Find(c) ==
    /\ calls[c].stage = "asked"
    /\ \E found \in Findings(calls[c].question) :
          calls' = [calls EXCEPT ![c] = Answered(@.question, TRUE, found)]
    /\ UNCHANGED <<live, gone>>

Fail(c) ==
    /\ calls[c].stage = "asked"
    /\ calls' = [calls EXCEPT ![c] = Answered(@.question, FALSE, {})]
    /\ UNCHANGED <<live, gone>>

Return(c) == /\ calls[c].stage = "answered"
             /\ calls' = [calls EXCEPT ![c] = Idle]
             /\ UNCHANGED <<live, gone>>

Next == \/ Publish
        \/ Withdraw
        \/ \E c \in Client : Ask(c) \/ Find(c) \/ Fail(c) \/ Return(c)

Spec == Init /\ [][Next]_dirVars

-----------------------------------------------------------------------------
(* What follows from the promise. *)

\* The types of the variables.
DirectoryTypeOK ==
    /\ live \in [Usage -> SUBSET KeyId]
    /\ gone \in SUBSET KeyId
    /\ calls \in [Client ->
          {Idle} \cup [stage : {"asked"}, question : Question]
                 \cup [stage : {"answered"}, question : Question,
                       ok : BOOLEAN, found : SUBSET KeyId]]

\* No key is served under two usages, and none is served once it is gone.
ServedOnce == /\ \A u, v \in Usage : u # v => live[u] \cap live[v] = {}
              /\ Live \cap gone = {}

\* An answer never shows a key that had left the directory before: whoever was
\* told that a key is gone is not shown it again, by any route.
NeverShownAgain ==
    [][ \A c \in Client :
           calls[c].stage = "asked" /\ calls'[c].stage = "answered"
              => calls'[c].found \cap gone = {} ]_dirVars

=============================================================================
