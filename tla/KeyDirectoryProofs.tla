------------------------- MODULE KeyDirectoryProofs -------------------------
(***************************************************************************)
(* What the directory promises its callers, for every number of them.      *)
(***************************************************************************)
EXTENDS KeyDirectory, TLAPS

\* An answer shows keys.
LEMMA FindingsType ==
    ASSUME DirectoryTypeOK, NEW q \in Question, NEW found \in Findings(q)
    PROVE  found \in SUBSET Live /\ found \in SUBSET KeyId
<1>1. Live \subseteq KeyId
      BY DEF DirectoryTypeOK, Live
<1>2. CASE q.op = "get"
      BY <1>1, <1>2 DEF Findings
<1>3. CASE q.op = "list"
      <2>1. q.of \in Usage
            BY <1>3 DEF Question
      <2> QED BY <1>1, <1>3, <2>1 DEF Findings, Live
<1>4. CASE q.op = "sign"
      <2>1. q.of \in Usage
            BY <1>4 DEF Question
      <2> QED BY <1>1, <1>4, <2>1 DEF Findings, Live
<1> QED BY <1>2, <1>3, <1>4 DEF Question

LEMMA DirectoryInitType == Init => DirectoryTypeOK
BY DEF Init, DirectoryTypeOK

LEMMA DirectoryNextType == DirectoryTypeOK /\ [Next]_dirVars => DirectoryTypeOK'
<1> SUFFICES ASSUME DirectoryTypeOK, [Next]_dirVars
             PROVE  DirectoryTypeOK'
    OBVIOUS
<1>1. CASE Publish
      BY <1>1 DEF Publish, DirectoryTypeOK
<1>2. CASE Withdraw
      <2>1. UNION {live[u] \ live'[u] : u \in Usage} \subseteq KeyId
            BY DEF DirectoryTypeOK
      <2> QED BY <1>2, <2>1 DEF Withdraw, DirectoryTypeOK
<1>3. ASSUME NEW c \in Client, Ask(c)
      PROVE  DirectoryTypeOK'
      BY <1>3 DEF Ask, DirectoryTypeOK, Asked
<1>4. ASSUME NEW c \in Client, Find(c)
      PROVE  DirectoryTypeOK'
      <2>1. calls[c].question \in Question
            BY <1>4 DEF Find, DirectoryTypeOK, Idle
      <2>2. PICK found \in Findings(calls[c].question) :
               calls' = [calls EXCEPT ![c] = Answered(@.question, TRUE, found)]
            BY <1>4 DEF Find
      <2>3. found \in SUBSET KeyId
            BY <2>1, FindingsType
      <2> QED BY <1>4, <2>1, <2>2, <2>3 DEF Find, DirectoryTypeOK, Answered
<1>5. ASSUME NEW c \in Client, Fail(c)
      PROVE  DirectoryTypeOK'
      <2>1. calls[c].question \in Question
            BY <1>5 DEF Fail, DirectoryTypeOK, Idle
      <2> QED BY <1>5, <2>1 DEF Fail, DirectoryTypeOK, Answered
<1>6. ASSUME NEW c \in Client, Return(c)
      PROVE  DirectoryTypeOK'
      BY <1>6 DEF Return, DirectoryTypeOK
<1>7. CASE UNCHANGED dirVars
      BY <1>7 DEF dirVars, DirectoryTypeOK
<1> QED BY <1>1, <1>2, <1>3, <1>4, <1>5, <1>6, <1>7 DEF Next

\* The types of the directory's variables.
THEOREM DirectoryType == Spec => []DirectoryTypeOK
BY DirectoryInitType, DirectoryNextType, PTL DEF Spec

LEMMA NextServedOnce == DirectoryTypeOK /\ ServedOnce /\ [Next]_dirVars => ServedOnce'
<1> SUFFICES ASSUME DirectoryTypeOK, ServedOnce, [Next]_dirVars
             PROVE  ServedOnce'
    OBVIOUS
<1>1. CASE Publish
      <2>1. ASSUME NEW u \in Usage
            PROVE  live'[u] \cap gone = {}
            <3>1. (live'[u] \ live[u]) \cap (Live \cup gone) = {}
                  BY <1>1 DEF Publish
            <3>2. live[u] \subseteq Live
                  BY DEF Live
            <3> QED BY <3>1, <3>2 DEF ServedOnce
      <2> QED BY <1>1, <2>1 DEF Publish, ServedOnce, Live
<1>2. CASE Withdraw
      <2>1. ASSUME NEW u \in Usage, NEW v \in Usage
            PROVE  live'[u] \cap (live[v] \ live'[v]) = {}
            BY <1>2 DEF Withdraw, ServedOnce
      <2>2. ASSUME NEW u \in Usage
            PROVE  live'[u] \cap gone' = {}
            <3>1. live'[u] \cap gone = {}
                  BY <1>2 DEF Withdraw, ServedOnce, Live
            <3> QED BY <1>2, <2>1, <3>1 DEF Withdraw
      <2>3. \A u, v \in Usage : u # v => live'[u] \cap live'[v] = {}
            BY <1>2 DEF Withdraw, ServedOnce
      <2> QED BY <2>2, <2>3 DEF ServedOnce, Live
<1>3. CASE UNCHANGED <<live, gone>>
      BY <1>3 DEF ServedOnce, Live
<1> QED BY <1>1, <1>2, <1>3 DEF Next, Ask, Find, Fail, Return, dirVars

\* No key is served under two usages, or served once it is gone.
THEOREM DirectoryServesOnce == Spec => []ServedOnce
<1>1. Init => ServedOnce
      BY DEF Init, ServedOnce
<1> QED BY <1>1, NextServedOnce, DirectoryType, PTL DEF Spec

\* What is gone is not shown, by whatever question.
THEOREM GoneIsNotShown == Spec => NeverShownAgain
<1>1. DirectoryTypeOK /\ ServedOnce /\ [Next]_dirVars =>
          [ \A c \in Client :
               calls[c].stage = "asked" /\ calls'[c].stage = "answered"
                  => calls'[c].found \cap gone = {} ]_dirVars
      <2> SUFFICES ASSUME DirectoryTypeOK, ServedOnce, Next, NEW c \in Client,
                          calls[c].stage = "asked", calls'[c].stage = "answered"
                   PROVE  calls'[c].found \cap gone = {}
          OBVIOUS
      <2>1. c \in DOMAIN calls
            BY DEF DirectoryTypeOK
      <2>2. calls' # calls
            BY <2>1
      <2>3. PICK d \in Client : Ask(d) \/ Find(d) \/ Fail(d) \/ Return(d)
            BY <2>2 DEF Next, Publish, Withdraw
      <2>4. d = c
            <3>1. \A e \in Client : e # d => calls'[e] = calls[e]
                  BY <2>3 DEF Ask, Find, Fail, Return, DirectoryTypeOK
            <3> QED BY <3>1
      <2>5. CASE Find(c)
            <3>1. calls[c].question \in Question
                  BY DEF DirectoryTypeOK, Idle
            <3>2. PICK found \in Findings(calls[c].question) :
                     calls' = [calls EXCEPT ![c] = Answered(@.question, TRUE, found)]
                  BY <2>5 DEF Find
            <3>3. found \subseteq Live
                  BY <3>1, FindingsType
            <3>4. calls'[c].found = found
                  BY <2>1, <3>2 DEF Answered
            <3> QED BY <3>3, <3>4 DEF ServedOnce
      <2>6. CASE Fail(c)
            BY <2>1, <2>6 DEF Fail, Answered
      <2>7. CASE Ask(c)
            BY <2>1, <2>7 DEF Ask, Asked, Idle
      <2>8. CASE Return(c)
            BY <2>1, <2>8 DEF Return, Idle
      <2> QED BY <2>3, <2>4, <2>5, <2>6, <2>7, <2>8
<1> QED BY <1>1, DirectoryType, DirectoryServesOnce, PTL DEF Spec, NeverShownAgain

=============================================================================
