-------------------------- MODULE LanPairing_proofs --------------------------
(***************************************************************************)
(* Proofs about enrolling, by token (Enrollment) and by code (LanPairing): *)
(* the types, what each phase of a request knows of both ends, and from    *)
(* these the safety invariants and the refinement of Handover, for any     *)
(* requests, machines, names, tokens and sessions.                         *)
(***************************************************************************)
EXTENDS LanPairing, TLAPS

PcType == {"idle", "posted", "read", "named", "enrolled", "pairing", "completing",
           "paired", "refused", "failed", "broken", "lost"}

CallType == {"none", "pair", "pair_yes", "pair_no", "error",
             "complete", "complete_yes", "complete_no"}

PhaseType == {"unborn", "open", "closing", "over", "dead"}

Alive(s) == phase[s] \in {"open", "closing", "over"}

\* What the hub's phase and the call of a request say of the request, of the
\* nodes table and of the machine.
PhaseOK(r) ==
    /\ path[r] = "none" <=> pc[r] = "idle"
    /\ path[r] = "code" => r \notin listening /\ tok[r] = NoToken
    /\ r \in listening => r \notin saved
    /\ nodes[r] # NoName <=> pc[r] \in {"enrolled", "paired"}
    /\ pc[r] = "idle" => /\ tok[r] = NoToken /\ at[r] = NoSession /\ call[r] = "none"
                         /\ r \notin listening
    /\ pc[r] \in {"posted", "read", "named", "enrolled"} =>
          path[r] = "token" /\ tok[r] \in Tokens /\ name[r] \in Names /\ call[r] = "none"
    /\ pc[r] \in {"pairing", "completing", "paired", "broken"} =>
          path[r] = "code" /\ name[r] \in Names
    /\ pc[r] \in {"idle", "posted", "read", "named", "pairing", "refused"} => r \notin saved
    /\ pc[r] = "paired" => r \in saved /\ call[r] = "none"
    /\ call[r] # "none" => at[r] \in Sessions /\ path[r] = "code"
    /\ call[r] = "pair" => pc[r] \in {"pairing", "refused", "lost"}
    /\ call[r] \in {"pair_yes", "pair_no"} => pc[r] = "pairing"
    /\ call[r] = "complete" => pc[r] \in {"completing", "broken", "lost"} /\ r \notin saved
    /\ call[r] = "complete_no" => pc[r] = "completing" /\ r \notin saved
    /\ call[r] = "complete_yes" => pc[r] = "completing" /\ r \in saved

TypeInv ==
    /\ PairingTypeOK
    /\ \A s \in Sessions : Alive(s) => code[s] > 0
    /\ \A r \in Requests : PhaseOK(r)

LEMMA TypeFacts ==
    ASSUME TypeInv
    PROVE  /\ pc \in [Requests -> PcType] /\ call \in [Requests -> CallType]
           /\ phase \in [Sessions -> PhaseType]
           /\ code \in [Sessions -> 0..MaxCode]
           /\ attempts \in [Sessions -> 0..MaxAttempts]
           /\ nodes \in [Requests -> Names \cup {NoName}]
           /\ path \in [Requests -> {"none", "token", "code"}]
           /\ tok \in [Requests -> Tokens \cup {NoToken}]
           /\ name \in [Requests -> Names \cup {NoName}]
           /\ at \in [Requests -> Sessions \cup {NoSession}]
           /\ typed \in [Requests -> 0..MaxCode]
           /\ usedBy \in [Tokens -> Requests \cup {NoNode}]
           /\ MaxCode \in Nat /\ MaxAttempts \in Nat
           /\ NoToken \notin Tokens /\ NoName \notin Names /\ NoSession \notin Sessions
  BY PairingAssumption, NoneAssumption
     DEF TypeInv, PairingTypeOK, EnrollTypeOK, PcType, CallType, PhaseType

LEMMA InitTypes == PairingInit => TypeInv
<1> SUFFICES ASSUME PairingInit PROVE TypeInv
  OBVIOUS
<1>1. PairingTypeOK
  BY PairingAssumption DEF PairingInit, EnrollInit, PairingTypeOK, EnrollTypeOK
<1>2. \A r \in Requests : PhaseOK(r)
  BY DEF PairingInit, EnrollInit, PhaseOK
<1>3. \A s \in Sessions : ~Alive(s)
  BY DEF PairingInit, Alive
<1> QED
  BY <1>1, <1>2, <1>3 DEF TypeInv

\* What is the same of a request before and after.
Still(r) ==
    /\ pc'[r] = pc[r] /\ path'[r] = path[r] /\ tok'[r] = tok[r] /\ name'[r] = name[r]
    /\ at'[r] = at[r] /\ call'[r] = call[r] /\ nodes'[r] = nodes[r]
    /\ r \in listening' <=> r \in listening
    /\ r \in saved' <=> r \in saved

LEMMA StillOK ==
    ASSUME NEW r \in Requests, PhaseOK(r), Still(r)
    PROVE  PhaseOK(r)'
  BY DEF Still, PhaseOK

\* A step of Enrollment: what it leaves to LanPairing's variables.
LEMMA EnrollTypes ==
    ASSUME TypeInv, UNCHANGED <<phase, sessionVars, at, typed, call, lanVars>>,
           pc' \in [Requests -> PcType], EnrollTypeOK',
           \A r \in Requests : PhaseOK(r)'
    PROVE  TypeInv'
  BY DEF TypeInv, PairingTypeOK, PcType, Alive, sessionVars, lanVars

\* A step of the hub's about one pairing request.
LEMMA PairTypes ==
    ASSUME TypeInv,
           UNCHANGED <<minted, usedBy, contested, tok, listening, config, saved, phase,
                       sessionVars, lanVars>>,
           pc' \in [Requests -> PcType], call' \in [Requests -> CallType],
           path' \in [Requests -> {"none", "token", "code"}],
           at' \in [Requests -> Sessions \cup {NoSession}],
           typed' \in [Requests -> 0..MaxCode],
           name' \in [Requests -> Names \cup {NoName}],
           nodes' \in [Requests -> Names \cup {NoName}],
           \A r \in Requests : PhaseOK(r)'
    PROVE  TypeInv'
  BY DEF TypeInv, PairingTypeOK, EnrollTypeOK, PcType, CallType, Alive, sessionVars,
     lanVars

\* What a session counts.
LEMMA SessionFacts ==
    ASSUME TypeInv
    PROVE  /\ expired \subseteq Sessions /\ verified \subseteq Sessions
           /\ \A s \in verified : code[s] > 0
           /\ \A s \in Sessions : Alive(s) => code[s] > 0
  BY DEF TypeInv, PairingTypeOK

\* A session shows a new code.
LEMMA RegenerateTypes ==
    ASSUME TypeInv, NEW s \in Sessions, RegenerateCode(s)
    PROVE  /\ code' \in [Sessions -> 0..MaxCode] /\ code'[s] > 0
           /\ \A z \in Sessions : z # s => code'[z] = code[z]
           /\ attempts' \in [Sessions -> 0..MaxAttempts]
           /\ expired' \subseteq Sessions /\ verified' = verified \ {s}
<1>0. /\ MaxCode \in Nat /\ MaxAttempts \in Nat
      /\ code \in [Sessions -> 0..MaxCode]
      /\ attempts \in [Sessions -> 0..MaxAttempts] /\ expired \subseteq Sessions
  BY TypeFacts, SessionFacts
<1>1. code[s] + 1 \in 0..MaxCode /\ code[s] + 1 > 0
  <2>1. code[s] \in 0..MaxCode /\ code[s] < MaxCode
    BY <1>0 DEF RegenerateCode
  <2> QED
    BY <1>0, <2>1
<1>2. 0 \in 0..MaxAttempts
  BY <1>0
<1>3. code' = [code EXCEPT ![s] = code[s] + 1] /\ attempts' = [attempts EXCEPT ![s] = 0]
  BY DEF RegenerateCode
<1>4. expired' \subseteq Sessions /\ verified' = verified \ {s}
  BY <1>0 DEF RegenerateCode
<1> DEFINE c == code[s] + 1
<1>5. c \in 0..MaxCode /\ c > 0 /\ code' = [code EXCEPT ![s] = c]
  BY <1>1, <1>3
<1> HIDE DEF c
<1>6. code' \in [Sessions -> 0..MaxCode] /\ code'[s] = c
  BY <1>0, <1>5
<1>7. \A z \in Sessions : z # s => code'[z] = code[z]
  BY <1>0, <1>5
<1>8. attempts' \in [Sessions -> 0..MaxAttempts]
  BY <1>0, <1>2, <1>3
<1> QED
  BY <1>4, <1>5, <1>6, <1>7, <1>8

LEMMA StepTypes == TypeInv /\ [PairingNext]_pairingVars => TypeInv'
<1> SUFFICES ASSUME TypeInv, [PairingNext]_pairingVars PROVE TypeInv'
  OBVIOUS
<1>0. /\ pc \in [Requests -> PcType] /\ call \in [Requests -> CallType]
      /\ phase \in [Sessions -> PhaseType]
      /\ code \in [Sessions -> 0..MaxCode]
      /\ attempts \in [Sessions -> 0..MaxAttempts]
      /\ nodes \in [Requests -> Names \cup {NoName}]
      /\ path \in [Requests -> {"none", "token", "code"}]
      /\ tok \in [Requests -> Tokens \cup {NoToken}]
      /\ name \in [Requests -> Names \cup {NoName}]
      /\ at \in [Requests -> Sessions \cup {NoSession}]
      /\ typed \in [Requests -> 0..MaxCode]
      /\ usedBy \in [Tokens -> Requests \cup {NoNode}]
      /\ MaxCode \in Nat /\ MaxAttempts \in Nat
      /\ NoToken \notin Tokens /\ NoName \notin Names /\ NoSession \notin Sessions
  BY TypeFacts
<1>p. \A r \in Requests : PhaseOK(r)
  BY DEF TypeInv
<1>e. EnrollTypeOK
  BY DEF TypeInv, PairingTypeOK
<1> DEFINE Rest == UNCHANGED <<phase, sessionVars, at, typed, call, lanVars>>
<1>1. ASSUME NEW t \in Tokens, Mint(t), Rest PROVE TypeInv'
  <2>1. \A r \in Requests : PhaseOK(r)'
    BY <1>1, <1>p DEF Mint, PhaseOK
  <2>2. EnrollTypeOK' /\ pc' = pc
    BY <1>1, <1>e DEF Mint, EnrollTypeOK
  <2> QED
    BY <1>0, <1>1, <2>1, <2>2, EnrollTypes
<1>2. ASSUME NEW r \in Requests, NEW t \in Tokens, NEW n \in Names,
             EnrollCommand(r, t, n), Rest
      PROVE  TypeInv'
  <2>1. pc' \in [Requests -> PcType] /\ EnrollTypeOK'
    BY <1>0, <1>2, <1>e DEF EnrollCommand, Goto, PcType, EnrollTypeOK
  <2>2. \A j \in Requests : j # r => Still(j)
    BY <1>0, <1>2 DEF EnrollCommand, Goto, Still
  <2>3. PhaseOK(r)'
    BY <1>0, <1>2, <1>p DEF EnrollCommand, Goto, PhaseOK
  <2> QED
    BY <1>2, <1>p, <2>1, <2>2, <2>3, StillOK, EnrollTypes
<1>3. ASSUME NEW r \in Requests, ReadToken(r), Rest PROVE TypeInv'
  <2>1. pc' \in [Requests -> PcType] /\ EnrollTypeOK'
    BY <1>0, <1>3, <1>e, <1>p DEF ReadToken, Goto, PcType, EnrollTypeOK, PhaseOK
  <2>2. \A j \in Requests : j # r => Still(j)
    BY <1>0, <1>3 DEF ReadToken, Goto, Still
  <2>3. PhaseOK(r)'
    BY <1>0, <1>3, <1>p DEF ReadToken, Goto, PhaseOK
  <2> QED
    BY <1>3, <1>p, <2>1, <2>2, <2>3, StillOK, EnrollTypes
<1>4. ASSUME NEW r \in Requests, CheckName(r), Rest PROVE TypeInv'
  <2>1. pc' \in [Requests -> PcType] /\ EnrollTypeOK'
    BY <1>0, <1>4, <1>e DEF CheckName, Goto, PcType, EnrollTypeOK, tokenVars
  <2>2. \A j \in Requests : j # r => Still(j)
    BY <1>0, <1>4 DEF CheckName, Goto, Still, tokenVars
  <2>3. PhaseOK(r)'
    BY <1>0, <1>4, <1>p DEF CheckName, Goto, PhaseOK, tokenVars
  <2> QED
    BY <1>4, <1>p, <2>1, <2>2, <2>3, StillOK, EnrollTypes
<1>5. ASSUME NEW r \in Requests, CommitEnroll(r), Rest PROVE TypeInv'
  <2>1. /\ pc' \in [Requests -> PcType]
        /\ nodes' \in [Requests -> Names \cup {NoName}]
        /\ usedBy' \in [Tokens -> Requests \cup {NoNode}]
    BY <1>0, <1>5 DEF CommitEnroll, NewNode, Goto, PcType
  <2>2. EnrollTypeOK'
    BY <1>5, <1>e, <2>1 DEF CommitEnroll, EnrollTypeOK
  <2>3. \A j \in Requests : j # r => Still(j)
    BY <1>0, <1>5 DEF CommitEnroll, NewNode, Goto, Still
  <2>4. PhaseOK(r)'
    <3>1. /\ pc[r] = "named" /\ r \notin saved /\ nodes[r] = NoName /\ PhaseOK(r)
          /\ UNCHANGED <<path, tok, name, at, call, listening, saved>>
          /\ \/ pc'[r] = "failed" /\ nodes' = nodes
             \/ pc'[r] = "enrolled" /\ nodes'[r] = name[r]
      BY <1>0, <1>5, <1>p DEF CommitEnroll, NewNode, Goto, PhaseOK
    <3>2. CASE pc'[r] = "failed" /\ nodes' = nodes
      BY <1>0, <3>1, <3>2 DEF PhaseOK
    <3>3. CASE pc'[r] = "enrolled" /\ nodes'[r] = name[r]
      BY <1>0, <3>1, <3>3 DEF PhaseOK
    <3> QED
      BY <3>1, <3>2, <3>3
  <2> QED
    BY <1>5, <1>p, <2>1, <2>2, <2>3, <2>4, StillOK, EnrollTypes
<1>6. ASSUME NEW r \in Requests, SaveConfig(r) \/ GivesUp(r), Rest PROVE TypeInv'
  <2>1. pc' = pc /\ EnrollTypeOK'
    BY <1>0, <1>6, <1>e DEF SaveConfig, GivesUp, EnrollTypeOK
  <2>2. \A j \in Requests : j # r => Still(j)
    BY <1>0, <1>6 DEF SaveConfig, GivesUp, Still
  <2>3. PhaseOK(r)'
    BY <1>0, <1>6, <1>p DEF SaveConfig, GivesUp, PhaseOK
  <2> QED
    BY <1>0, <1>6, <1>p, <2>1, <2>2, <2>3, StillOK, EnrollTypes
<1>7. ASSUME NEW r \in Requests, NEW s \in Sessions, NEW n \in Names, NEW c \in 0..code[s],
             Dial(r, s, c, n)
      PROVE  TypeInv'
  <2>1. c \in 0..MaxCode
    BY <1>0
  <2>2. /\ pc' \in [Requests -> PcType] /\ call' \in [Requests -> CallType]
        /\ path' \in [Requests -> {"none", "token", "code"}]
        /\ at' \in [Requests -> Sessions \cup {NoSession}]
        /\ typed' \in [Requests -> 0..MaxCode]
        /\ name' \in [Requests -> Names \cup {NoName}]
        /\ nodes' = nodes
    BY <1>0, <1>7, <2>1 DEF Dial, Asked, Send, Goto, PcType, CallType, hubTables
  <2>3. \A j \in Requests : j # r => Still(j)
    BY <1>0, <1>7 DEF Dial, Asked, Send, Goto, Still, hubTables
  <2>4. PhaseOK(r)'
    BY <1>0, <1>7, <1>p DEF Dial, Asked, Send, Goto, PhaseOK, hubTables
  <2> QED
    BY <1>0, <1>7, <1>p, <2>2, <2>3, <2>4, StillOK, PairTypes DEF Dial, hubTables
<1>8. ASSUME NEW r \in Requests, Accepted(r) \/ Rejected(r) \/ HttpFails(r)
      PROVE  TypeInv'
  <2>1. /\ pc' \in [Requests -> PcType] /\ call' \in [Requests -> CallType]
        /\ UNCHANGED <<hubTables, requestVars, config, saved, phase, sessionVars, lanVars>>
        /\ \E l \in PcType : pc' = [pc EXCEPT ![r] = l]
        /\ \E a \in CallType : call' = [call EXCEPT ![r] = a]
    <3>1. CASE Accepted(r)
      BY <1>0, <3>1 DEF Accepted, Send, Goto, PcType, CallType
    <3>2. CASE Rejected(r)
      BY <1>0, <3>2 DEF Rejected, Goto, PcType, CallType
    <3>3. CASE HttpFails(r)
      BY <1>0, <3>3 DEF HttpFails, UnderWay, Goto, PcType, CallType
    <3> QED
      BY <1>8, <3>1, <3>2, <3>3
  <2>2. \A j \in Requests : j # r => Still(j)
    BY <1>0, <2>1 DEF Still, hubTables, requestVars
  <2>3. PhaseOK(r)'
    <3>1. CASE Accepted(r)
      <4>1. /\ pc[r] = "pairing" /\ call[r] = "pair_yes"
            /\ UNCHANGED <<path, tok, name, at, nodes, listening, saved>>
            /\ \/ pc'[r] = "refused" /\ call'[r] = "none"
               \/ pc'[r] = "completing" /\ call'[r] \in {"complete", "error"}
        BY <1>0, <3>1 DEF Accepted, Send, Goto, hubTables, requestVars
      <4> QED
        BY <1>p, <4>1 DEF PhaseOK
    <3>2. CASE Rejected(r)
      BY <1>0, <1>p, <3>2 DEF Rejected, Goto, PhaseOK, hubTables, requestVars
    <3>3. CASE HttpFails(r)
      BY <1>0, <1>p, <3>3 DEF HttpFails, UnderWay, Goto, PhaseOK, hubTables, requestVars,
         CallType
    <3> QED
      BY <1>8, <3>1, <3>2, <3>3
  <2>4. UNCHANGED <<minted, usedBy, contested, tok, listening, config, saved, phase,
                    sessionVars, lanVars, path, at, typed, name, nodes>>
    BY <2>1 DEF hubTables, requestVars
  <2> QED
    BY <1>0, <1>p, <2>1, <2>2, <2>3, <2>4, StillOK, PairTypes
<1>9. ASSUME NEW r \in Requests, CommitPairing(r) PROVE TypeInv'
  <2>1. /\ pc' \in [Requests -> PcType] /\ call' \in [Requests -> CallType]
        /\ nodes' \in [Requests -> Names \cup {NoName}]
        /\ UNCHANGED <<minted, usedBy, contested, tok, listening, config, saved, phase,
                       sessionVars, lanVars, path, at, typed, name>>
    BY <1>0, <1>9 DEF CommitPairing, NewNode, Goto, PcType, CallType, requestVars
  <2>2. \A j \in Requests : j # r => Still(j)
    BY <1>0, <1>9, <2>1 DEF CommitPairing, NewNode, Goto, Still
  <2>3. PhaseOK(r)'
    <3>1. /\ pc[r] = "completing" /\ call[r] = "complete_yes"
          /\ call'[r] = "none" /\ PhaseOK(r)
          /\ \/ pc'[r] = "failed" /\ nodes' = nodes
             \/ pc'[r] = "paired" /\ nodes'[r] = name[r]
      BY <1>0, <1>9, <1>p DEF CommitPairing, NewNode, Goto
    <3>2. CASE pc'[r] = "failed" /\ nodes' = nodes
      BY <1>0, <2>1, <3>1, <3>2 DEF PhaseOK
    <3>3. CASE pc'[r] = "paired" /\ nodes'[r] = name[r]
      BY <1>0, <2>1, <3>1, <3>3 DEF PhaseOK
    <3> QED
      BY <3>1, <3>2, <3>3
  <2> QED
    BY <1>0, <1>p, <2>1, <2>2, <2>3, StillOK, PairTypes
<1>10. ASSUME NEW r \in Requests, Verify(r) PROVE TypeInv'
  <2>1. /\ call[r] = "pair" /\ Alive(at[r]) /\ at[r] \in Sessions
        /\ call' \in [Requests -> CallType]
        /\ \A j \in Requests : j # r => call'[j] = call[j]
        /\ call'[r] = "none" \/ (pc[r] = "pairing" /\ call'[r] \in {"pair_yes", "pair_no"})
        /\ UNCHANGED <<enrollVars, phase, at, typed, lanVars>>
    <3>1. call[r] = "pair" /\ Alive(at[r]) /\ at[r] \in Sessions
      BY <1>10, <1>p DEF Verify, CanHandle, Alive, PhaseOK
    <3>2. /\ \E a \in {"pair_yes", "pair_no"} : Handled(r, a)
          /\ UNCHANGED <<enrollVars, phase, at, typed, lanVars>>
      BY <1>10 DEF Verify
    <3>3. pc[r] \in {"pairing", "refused", "lost"}
      BY <1>p, <3>1 DEF PhaseOK
    <3> QED
      BY <1>0, <3>1, <3>2, <3>3 DEF Handled, CallType
  <2>2. \A j \in Requests : PhaseOK(j)'
    <3>1. \A j \in Requests : j # r => Still(j)
      BY <2>1 DEF Still, enrollVars, tokenVars
    <3>2. PhaseOK(r)'
      BY <1>p, <2>1 DEF PhaseOK, enrollVars, tokenVars
    <3> QED
      BY <1>p, <3>1, <3>2, StillOK
  <2>s. /\ expired \subseteq Sessions /\ verified \subseteq Sessions
        /\ \A s \in verified : code[s] > 0
        /\ \A s \in Sessions : Alive(s) => code[s] > 0
    BY SessionFacts
  <2>3. /\ code' \in [Sessions -> 0..MaxCode]
        /\ attempts' \in [Sessions -> 0..MaxAttempts]
        /\ expired' \subseteq Sessions /\ verified' \subseteq verified \cup {at[r]}
        /\ \A s \in Sessions : code[s] > 0 => code'[s] > 0
    <3>1. CASE RegenerateCode(at[r])
      <4>1. /\ code' \in [Sessions -> 0..MaxCode] /\ code'[at[r]] > 0
            /\ \A z \in Sessions : z # at[r] => code'[z] = code[z]
            /\ attempts' \in [Sessions -> 0..MaxAttempts]
            /\ expired' \subseteq Sessions /\ verified' = verified \ {at[r]}
        BY <2>1, <3>1, RegenerateTypes
      <4> QED
        BY <4>1
    <3>2. CASE UNCHANGED <<code, attempts, expired>> /\ verified' = verified \cup {at[r]}
      BY <1>0, <2>s, <3>2
    <3>3. CASE /\ UNCHANGED <<code, expired, verified>> /\ ~(attempts[at[r]] >= MaxAttempts)
               /\ attempts' = [attempts EXCEPT ![at[r]] = @ + 1]
      <4> DEFINE k == attempts[at[r]] + 1
      <4>1. attempts[at[r]] \in 0..MaxAttempts
        BY <1>0, <2>1
      <4>2. k \in 0..MaxAttempts
        BY <1>0, <3>3, <4>1
      <4>3. attempts' = [attempts EXCEPT ![at[r]] = k]
        BY <3>3
      <4> HIDE DEF k
      <4>4. attempts' \in [Sessions -> 0..MaxAttempts]
        BY <1>0, <2>1, <4>2, <4>3
      <4> QED
        BY <1>0, <2>s, <3>3, <4>4
    <3> QED
      BY <1>10, <3>1, <3>2, <3>3 DEF Verify
  <2>4. \A s \in Sessions : Alive(s)' => code'[s] > 0
    <3>1. \A s \in Sessions : Alive(s)' => Alive(s)
      BY <2>1 DEF Alive
    <3> QED
      BY <2>3, <2>s, <3>1
  <2>5. verified' \subseteq {s \in Sessions : code'[s] > 0}
    BY <2>1, <2>3, <2>s
  <2>6. PairingTypeOK'
    BY <2>1, <2>3, <2>5 DEF TypeInv, PairingTypeOK, EnrollTypeOK, CallType, enrollVars,
       tokenVars, lanVars
  <2> QED
    BY <2>2, <2>4, <2>6 DEF TypeInv
<1>11. ASSUME NEW r \in Requests, Complete(r) PROVE TypeInv'
  <2>1. /\ call[r] = "complete" /\ Alive(at[r]) /\ at[r] \in Sessions
        /\ pc[r] \in {"completing", "broken", "lost"} /\ r \notin saved
        /\ path[r] = "code" /\ r \notin listening
    BY <1>11, <1>p DEF Complete, CanHandle, Alive, PhaseOK
  <2>2. /\ call' \in [Requests -> CallType]
        /\ \A j \in Requests : j # r => call'[j] = call[j]
        /\ \A j \in Requests : j # r => (j \in saved' <=> j \in saved)
        /\ \/ call'[r] \in {"none", "complete_no"} /\ r \notin saved'
           \/ call'[r] \in {"none", "complete_yes"} /\ r \in saved'
        /\ saved' \subseteq saved \cup {r}
        /\ call'[r] # "none" => pc[r] = "completing"
    BY <1>0, <1>11, <2>1 DEF Complete, Handled, CallType
  <2>3. /\ UNCHANGED <<minted, usedBy, contested, nodes, tok, listening, path, name, at,
                       typed, pc>>
        /\ UNCHANGED sessionVars /\ UNCHANGED lanVars
    BY <1>11 DEF Complete, hubTables, requestVars
  <2>4. \A j \in Requests : PhaseOK(j)'
    <3>1. \A j \in Requests : j # r => Still(j)
      BY <2>2, <2>3 DEF Still
    <3>2. /\ pc'[r] = pc[r] /\ path'[r] = path[r] /\ tok'[r] = tok[r]
          /\ name'[r] = name[r] /\ at'[r] = at[r] /\ nodes'[r] = nodes[r]
          /\ r \notin listening' /\ PhaseOK(r)
          /\ call'[r] # "none" => pc[r] = "completing"
      BY <1>p, <2>1, <2>2, <2>3
    <3>3. ASSUME call'[r] \in {"none", "complete_no"} /\ r \notin saved' PROVE PhaseOK(r)'
      BY <2>1, <3>2, <3>3 DEF PhaseOK
    <3>4. ASSUME call'[r] \in {"none", "complete_yes"} /\ r \in saved' PROVE PhaseOK(r)'
      BY <2>1, <3>2, <3>4 DEF PhaseOK
    <3>5. PhaseOK(r)'
      BY <2>2, <3>3, <3>4
    <3> QED
      BY <1>p, <3>1, <3>5, StillOK
  <2>5. phase' \in [Sessions -> PhaseType] /\ \A s \in Sessions : Alive(s)' => Alive(s)
    <3>1. \/ phase' = phase
          \/ \E l \in {phase[at[r]], "closing"} : phase' = [phase EXCEPT ![at[r]] = l]
      BY <1>11 DEF Complete
    <3> QED
      BY <1>0, <2>1, <3>1 DEF Alive, PhaseType
  <2>6. config' \in [Machines -> Requests \cup {NoNode}] /\ saved' \subseteq Requests
    <3>1. config' = config \/ \E m \in {On[at[r]]} : config' = [config EXCEPT ![m] = r]
      BY <1>11 DEF Complete
    <3>2. config \in [Machines -> Requests \cup {NoNode}] /\ saved \subseteq Requests
      BY <1>e DEF EnrollTypeOK
    <3> QED
      BY <2>2, <3>1, <3>2
  <2>7. PairingTypeOK'
    BY <2>2, <2>3, <2>5, <2>6 DEF TypeInv, PairingTypeOK, EnrollTypeOK, CallType,
       PhaseType, sessionVars, lanVars
  <2>8. \A s \in Sessions : Alive(s)' => code'[s] > 0
    BY <2>3, <2>5 DEF TypeInv, sessionVars
  <2> QED
    BY <2>4, <2>7, <2>8 DEF TypeInv
<1>12. ASSUME HubCrash PROVE TypeInv'
  <2>1. /\ pc' \in [Requests -> PcType] /\ call' \in [Requests -> CallType]
        /\ \A r \in Requests :
              /\ \/ pc'[r] = "lost"
                    /\ pc[r] \in {"posted", "read", "named", "pairing", "completing"}
                 \/ pc'[r] = pc[r]
                    /\ pc[r] \notin {"posted", "read", "named", "pairing", "completing"}
              /\ \/ call'[r] = call[r] /\ call[r] \in {"pair", "complete"}
                 \/ call'[r] = "none"
    BY <1>0, <1>12 DEF HubCrash, UnderWay, PcType, CallType
  <2>2. UNCHANGED <<minted, usedBy, contested, nodes, tok, listening, path, name, at,
                    typed, config, saved, phase, sessionVars>>
    BY <1>12 DEF HubCrash, hubTables, requestVars
  <2>3. ASSUME NEW r \in Requests PROVE PhaseOK(r)'
    <3>1. /\ path'[r] = path[r] /\ tok'[r] = tok[r] /\ name'[r] = name[r]
          /\ at'[r] = at[r] /\ nodes'[r] = nodes[r]
          /\ r \in listening' <=> r \in listening
          /\ r \in saved' <=> r \in saved
      BY <2>2
    <3>2. PhaseOK(r)
      BY <1>p
    <3>3. CASE pc'[r] = "lost"
               /\ pc[r] \in {"posted", "read", "named", "pairing", "completing"}
      BY <2>1, <3>1, <3>2, <3>3 DEF PhaseOK
    <3>4. CASE pc'[r] = pc[r]
               /\ pc[r] \notin {"posted", "read", "named", "pairing", "completing"}
      BY <2>1, <3>1, <3>2, <3>4 DEF PhaseOK
    <3> QED
      BY <2>1, <3>3, <3>4
  <2>4. PairingTypeOK'
    BY <1>12, <2>1, <2>2 DEF HubCrash, TypeInv, PairingTypeOK, EnrollTypeOK, PcType,
       CallType, sessionVars
  <2> QED
    BY <2>2, <2>3, <2>4 DEF TypeInv, Alive, sessionVars
<1>13. ASSUME NEW s \in Sessions,
              StartsPairing(s) \/ StopsPairing(s) \/ NodeDies(s) \/ Expires(s)
       PROVE  TypeInv'
  <2>1. UNCHANGED <<enrollVars, at, typed, call, lanVars>>
    BY <1>13 DEF StartsPairing, StopsPairing, NodeDies, Expires
  <2>2. \A r \in Requests : PhaseOK(r)'
    BY <1>p, <2>1 DEF PhaseOK, enrollVars, tokenVars
  <2>3. /\ phase' \in [Sessions -> PhaseType]
        /\ code' \in [Sessions -> 0..MaxCode]
        /\ attempts' \in [Sessions -> 0..MaxAttempts]
        /\ expired' \subseteq Sessions
        /\ verified' \subseteq {z \in Sessions : code'[z] > 0}
        /\ \A z \in Sessions : Alive(z)' => code'[z] > 0
    <3>0. /\ expired \subseteq Sessions /\ verified \subseteq Sessions
          /\ \A z \in verified : code[z] > 0
          /\ \A z \in Sessions : Alive(z) => code[z] > 0
      BY SessionFacts
    <3>1. CASE StartsPairing(s)
      <4>1. RegenerateCode(s) /\ phase' = [phase EXCEPT ![s] = "open"]
        BY <3>1 DEF StartsPairing
      <4>2. /\ code' \in [Sessions -> 0..MaxCode] /\ code'[s] > 0
            /\ \A z \in Sessions : z # s => code'[z] = code[z]
            /\ attempts' \in [Sessions -> 0..MaxAttempts]
            /\ expired' \subseteq Sessions /\ verified' = verified \ {s}
        BY <4>1, RegenerateTypes
      <4>3. /\ phase' \in [Sessions -> PhaseType]
            /\ \A z \in Sessions : Alive(z)' => z = s \/ Alive(z)
        BY <1>0, <4>1 DEF Alive, PhaseType
      <4> QED
        BY <3>0, <4>2, <4>3
    <3>2. CASE StopsPairing(s)
      BY <1>0, <3>0, <3>2 DEF StopsPairing, TypeInv, PairingTypeOK, Alive, PhaseType, sessionVars
    <3>3. CASE NodeDies(s)
      <4>1. /\ phase' = [phase EXCEPT ![s] = "dead"] /\ code' = [code EXCEPT ![s] = 0]
            /\ attempts' = [attempts EXCEPT ![s] = 0]
            /\ expired' = expired \ {s} /\ verified' = verified \ {s}
        BY <3>3 DEF NodeDies
      <4>2. 0 \in 0..MaxCode /\ 0 \in 0..MaxAttempts
        BY <1>0
      <4>3. /\ code' \in [Sessions -> 0..MaxCode]
            /\ attempts' \in [Sessions -> 0..MaxAttempts]
            /\ \A z \in Sessions : z # s => code'[z] = code[z]
        BY <1>0, <4>1, <4>2
      <4>4. /\ phase' \in [Sessions -> PhaseType]
            /\ \A z \in Sessions : Alive(z)' => z # s /\ Alive(z)
        BY <1>0, <4>1 DEF Alive, PhaseType
      <4> QED
        BY <3>0, <4>1, <4>3, <4>4
    <3>4. CASE Expires(s)
      BY <1>0, <3>4 DEF Expires, TypeInv, PairingTypeOK, Alive, PhaseType
    <3> QED
      BY <1>13, <3>1, <3>2, <3>3, <3>4
  <2>4. PairingTypeOK'
    BY <2>1, <2>3 DEF TypeInv, PairingTypeOK, EnrollTypeOK, PhaseType, enrollVars,
       tokenVars, lanVars
  <2> QED
    BY <2>2, <2>3, <2>4 DEF TypeInv
<1>14. ASSUME NEW s \in Sessions, Appears(s) \/ Resolved(s) \/ Disappears(s)
       PROVE  TypeInv'
  <2>1. UNCHANGED <<enrollVars, phase, sessionVars, at, typed, call>>
    BY <1>14 DEF Appears, Resolved, Disappears
  <2>2. \A r \in Requests : PhaseOK(r)'
    BY <1>p, <2>1 DEF PhaseOK, enrollVars, tokenVars
  <2>3. /\ listed' \cup lookups' \cup overtaken' \subseteq Sessions
        /\ news' \in [Sessions -> {"none", "added", "removed"}]
    BY <1>14 DEF Appears, Resolved, Disappears, TypeInv, PairingTypeOK
  <2>4. PairingTypeOK'
    BY <2>1, <2>3 DEF TypeInv, PairingTypeOK, EnrollTypeOK, enrollVars, tokenVars,
       sessionVars
  <2> QED
    BY <2>1, <2>2, <2>4 DEF TypeInv, Alive, sessionVars
<1>15. CASE UNCHANGED pairingVars
  <2>1. UNCHANGED <<enrollVars, phase, sessionVars, at, typed, call, lanVars>>
    BY <1>15 DEF pairingVars
  <2>2. \A r \in Requests : PhaseOK(r)'
    BY <1>p, <2>1 DEF PhaseOK, enrollVars, tokenVars
  <2>3. PairingTypeOK'
    BY <2>1 DEF TypeInv, PairingTypeOK, EnrollTypeOK, enrollVars, tokenVars,
       sessionVars, lanVars
  <2> QED
    BY <2>1, <2>2, <2>3 DEF TypeInv, Alive, sessionVars
<1> QED
  BY <1>1, <1>2, <1>3, <1>4, <1>5, <1>6, <1>7, <1>8, <1>9, <1>10, <1>11, <1>12,
     <1>13, <1>14, <1>15 DEF PairingNext, EnrollStep

\* Types.
THEOREM PairingTypeCorrect == PairingSpec => []PairingTypeOK
<1>1. TypeInv => PairingTypeOK
  BY DEF TypeInv
<1> QED
  BY <1>1, InitTypes, StepTypes, PTL DEF PairingSpec

-----------------------------------------------------------------------------
(***************************************************************************)
(* One token, one node: two requests that got past a token's check had     *)
(* both read its row unused, because the first one's commit marks it.      *)
(***************************************************************************)
Claims(r) == pc[r] \in {"read", "named", "enrolled"}

TokenInv ==
    /\ \A q, r \in Requests :
          q # r /\ Claims(q) /\ Claims(r) /\ tok[q] = tok[r] => tok[r] \in contested
    /\ \A r \in Requests : pc[r] = "enrolled" => ~Unused(tok[r])
    /\ \A t \in Tokens : usedBy[t] # NoNode => nodes[usedBy[t]] # NoName

LEMMA TokenCalm ==
    ASSUME TypeInv, TokenInv, contested' = contested, usedBy' = usedBy,
           \A r \in Requests : Claims(r)' => /\ Claims(r) /\ tok'[r] = tok[r]
                                             /\ pc'[r] = "enrolled" => pc[r] = "enrolled",
           \A r \in Requests : nodes[r] # NoName => nodes'[r] # NoName
    PROVE  TokenInv'
<1>1. \A t \in Tokens : usedBy[t] # NoNode => usedBy[t] \in Requests
  BY DEF TypeInv, PairingTypeOK, EnrollTypeOK
<1>2. \A r \in Requests : pc'[r] = "enrolled" => usedBy'[tok'[r]] # NoNode
  BY DEF TokenInv, Claims, Unused
<1>3. \A t \in Tokens : usedBy'[t] # NoNode => nodes'[usedBy'[t]] # NoName
  BY <1>1 DEF TokenInv
<1>4. \A q, r \in Requests :
         q # r /\ Claims(q)' /\ Claims(r)' /\ tok'[q] = tok'[r] => tok'[r] \in contested'
  BY DEF TokenInv
<1> QED
  BY <1>2, <1>3, <1>4 DEF TokenInv, Unused

LEMMA StepToken == TypeInv /\ TokenInv /\ [PairingNext]_pairingVars => TokenInv'
<1> SUFFICES ASSUME TypeInv, TokenInv, [PairingNext]_pairingVars PROVE TokenInv'
  OBVIOUS
<1>0. /\ pc \in [Requests -> PcType] /\ tok \in [Requests -> Tokens \cup {NoToken}]
      /\ nodes \in [Requests -> Names \cup {NoName}]
      /\ name \in [Requests -> Names \cup {NoName}]
      /\ usedBy \in [Tokens -> Requests \cup {NoNode}]
      /\ NoName \notin Names /\ NoNode \notin Requests
  BY TypeFacts, NoneAssumption
<1>p. \A r \in Requests : PhaseOK(r)
  BY DEF TypeInv
<1>1. ASSUME NEW t \in Tokens, Mint(t) PROVE TokenInv'
  BY <1>1, TokenCalm DEF Mint, Claims
<1>2. ASSUME NEW r \in Requests, NEW t \in Tokens, NEW n \in Names, EnrollCommand(r, t, n)
      PROVE  TokenInv'
  <2>1. \A j \in Requests : Claims(j)' => /\ Claims(j) /\ tok'[j] = tok[j]
                                          /\ pc'[j] = "enrolled" => pc[j] = "enrolled"
    BY <1>0, <1>2 DEF EnrollCommand, Goto, Claims
  <2> QED
    BY <1>2, <2>1, TokenCalm DEF EnrollCommand
<1>3. ASSUME NEW r \in Requests, ReadToken(r) PROVE TokenInv'
  <2>1. /\ pc[r] = "posted" /\ UNCHANGED <<usedBy, tok, nodes>>
        /\ contested \subseteq contested'
        /\ \A j \in Requests : j # r => pc'[j] = pc[j]
        /\ pc'[r] \in {"read", "refused"}
    BY <1>0, <1>3 DEF ReadToken, Goto
  <2>2. pc'[r] = "read" => /\ Unused(tok[r])
                           /\ Holding(tok[r]) # {} => tok[r] \in contested'
    BY <1>0, <1>3 DEF ReadToken, Goto
  <2>3. ASSUME NEW q \in Requests, q # r, Claims(q), tok[q] = tok[r], pc'[r] = "read"
        PROVE  tok[r] \in contested'
    <3>1. pc[q] # "enrolled"
      BY <2>2, <2>3 DEF TokenInv
    <3>2. q \in Holding(tok[r])
      BY <2>3, <3>1 DEF Claims, Holding
    <3> QED
      BY <2>2, <2>3, <3>2
  <2>4. /\ \A j \in Requests : j # r /\ Claims(j)' => Claims(j)
        /\ Claims(r)' => pc'[r] = "read"
        /\ ~Claims(r)
    BY <2>1 DEF Claims
  <2>5. ASSUME NEW q \in Requests, NEW j \in Requests,
               q # j, Claims(q)', Claims(j)', tok'[q] = tok'[j]
        PROVE  tok'[j] \in contested'
    <3>1. tok'[q] = tok[q] /\ tok'[j] = tok[j]
      BY <2>1
    <3>2. ASSUME q = r PROVE tok'[j] \in contested'
      BY <2>3, <2>4, <2>5, <3>1, <3>2
    <3>3. ASSUME j = r PROVE tok'[j] \in contested'
      BY <2>3, <2>4, <2>5, <3>1, <3>3
    <3>4. ASSUME q # r, j # r PROVE tok'[j] \in contested'
      BY <2>1, <2>4, <2>5, <3>1, <3>4 DEF TokenInv
    <3> QED
      BY <3>2, <3>3, <3>4
  <2>6. \A j \in Requests : pc'[j] = "enrolled" => usedBy'[tok'[j]] # NoNode
    BY <2>1 DEF TokenInv, Unused
  <2>7. \A t \in Tokens : usedBy'[t] # NoNode => nodes'[usedBy'[t]] # NoName
    BY <2>1 DEF TokenInv
  <2> QED
    BY <2>5, <2>6, <2>7 DEF TokenInv, Unused
<1>4. ASSUME NEW r \in Requests, CheckName(r) PROVE TokenInv'
  <2>1. \A j \in Requests : Claims(j)' => /\ Claims(j) /\ tok'[j] = tok[j]
                                          /\ pc'[j] = "enrolled" => pc[j] = "enrolled"
    BY <1>0, <1>4 DEF CheckName, Goto, Claims, tokenVars
  <2> QED
    BY <1>4, <2>1, TokenCalm DEF CheckName, tokenVars
<1>5. ASSUME NEW r \in Requests, CommitEnroll(r) PROVE TokenInv'
  <2>1. CASE Taken(name[r])
    <3>1. UNCHANGED <<usedBy, nodes, contested, tok>> /\ pc' = [pc EXCEPT ![r] = "failed"]
      BY <1>5, <2>1 DEF CommitEnroll, Goto
    <3>2. \A j \in Requests : Claims(j)' => /\ Claims(j) /\ tok'[j] = tok[j]
                                            /\ pc'[j] = "enrolled" => pc[j] = "enrolled"
      BY <1>0, <3>1 DEF Claims
    <3> QED
      BY <3>1, <3>2, TokenCalm
  <2>2. CASE ~Taken(name[r])
    <3>1. /\ pc[r] = "named" /\ UNCHANGED <<contested, tok>>
          /\ pc' = [pc EXCEPT ![r] = "enrolled"]
          /\ usedBy' = [usedBy EXCEPT ![tok[r]] = r]
          /\ nodes' = [nodes EXCEPT ![r] = name[r]]
      BY <1>5, <2>2 DEF CommitEnroll, NewNode, Goto
    <3>2. tok[r] \in Tokens /\ name[r] # NoName
      BY <1>0, <1>p, <3>1 DEF PhaseOK
    <3>3. /\ \A j \in Requests : Claims(j)' => Claims(j)
          /\ \A j \in Requests : j # r => pc'[j] = pc[j]
      BY <1>0, <3>1 DEF Claims
    <3>4. \A q, j \in Requests :
             q # j /\ Claims(q)' /\ Claims(j)' /\ tok'[q] = tok'[j] => tok'[j] \in contested'
      BY <3>1, <3>3 DEF TokenInv
    <3>5. /\ usedBy'[tok[r]] = r
          /\ \A t \in Tokens : t # tok[r] => usedBy'[t] = usedBy[t]
      BY <1>0, <3>1, <3>2
    <3>6. /\ nodes'[r] # NoName
          /\ \A j \in Requests : nodes[j] # NoName => nodes'[j] # NoName
      BY <1>0, <3>1, <3>2
    <3>7. ASSUME NEW j \in Requests, pc'[j] = "enrolled" PROVE usedBy'[tok'[j]] # NoNode
      <4>1. j # r => usedBy[tok[j]] # NoNode /\ tok[j] \in Tokens
        BY <1>p, <3>3, <3>7 DEF TokenInv, Unused, PhaseOK
      <4> QED
        BY <1>0, <3>1, <3>5, <4>1
    <3>8. \A t \in Tokens : usedBy'[t] # NoNode => nodes'[usedBy'[t]] # NoName
      <4>1. \A t \in Tokens : usedBy[t] # NoNode => usedBy[t] \in Requests
                                                     /\ nodes[usedBy[t]] # NoName
        BY <1>0 DEF TokenInv
      <4> QED
        BY <3>5, <3>6, <4>1
    <3> QED
      BY <3>4, <3>7, <3>8 DEF TokenInv, Unused
  <2> QED
    BY <2>1, <2>2
<1>6. ASSUME NEW r \in Requests, SaveConfig(r) \/ GivesUp(r) PROVE TokenInv'
  BY <1>6, TokenCalm DEF SaveConfig, GivesUp, Claims
<1>7. ASSUME NEW r \in Requests, NEW s \in Sessions, NEW n \in Names, NEW c \in 0..code[s],
             Dial(r, s, c, n)
      PROVE  TokenInv'
  <2>1. /\ \E l \in {"refused", "pairing"} : pc' = [pc EXCEPT ![r] = l]
        /\ UNCHANGED <<contested, usedBy, tok, nodes>>
    BY <1>7 DEF Dial, Goto, hubTables
  <2>2. \A j \in Requests : Claims(j)' => /\ Claims(j) /\ tok'[j] = tok[j]
                                          /\ pc'[j] = "enrolled" => pc[j] = "enrolled"
    BY <1>0, <2>1 DEF Claims
  <2> QED
    BY <2>1, <2>2, TokenCalm
<1>8. ASSUME NEW r \in Requests,
             Accepted(r) \/ Rejected(r) \/ HttpFails(r) \/ CommitPairing(r)
      PROVE  TokenInv'
  <2>1. /\ \E l \in {"refused", "completing", "broken", "failed", "paired"} :
              pc' = [pc EXCEPT ![r] = l]
        /\ UNCHANGED <<contested, usedBy, tok>>
        /\ nodes' = nodes \/ (CommitPairing(r) /\ nodes' = [nodes EXCEPT ![r] = name[r]])
    BY <1>8 DEF Accepted, Rejected, HttpFails, CommitPairing, NewNode, Goto, hubTables,
       requestVars
  <2>2. \A j \in Requests : Claims(j)' => /\ Claims(j) /\ tok'[j] = tok[j]
                                          /\ pc'[j] = "enrolled" => pc[j] = "enrolled"
    BY <1>0, <2>1 DEF Claims
  <2>3. CommitPairing(r) => name[r] # NoName
    BY <1>0, <1>p DEF CommitPairing, PhaseOK
  <2>4. \A j \in Requests : nodes[j] # NoName => nodes'[j] # NoName
    BY <1>0, <2>1, <2>3
  <2> QED
    BY <2>1, <2>2, <2>4, TokenCalm
<1>9. ASSUME NEW r \in Requests, Verify(r) \/ Complete(r) PROVE TokenInv'
  <2>1. UNCHANGED <<contested, usedBy, tok, nodes, pc>>
    BY <1>9 DEF Verify, Complete, enrollVars, tokenVars, hubTables, requestVars
  <2> QED
    BY <2>1, TokenCalm DEF Claims
<1>10. ASSUME HubCrash PROVE TokenInv'
  <2>1. /\ \A j \in Requests : Claims(j)' => pc'[j] = pc[j]
        /\ UNCHANGED <<contested, usedBy, tok, nodes>>
    BY <1>0, <1>10 DEF HubCrash, Claims, hubTables, requestVars
  <2>2. \A j \in Requests : Claims(j)' => /\ Claims(j) /\ tok'[j] = tok[j]
                                          /\ pc'[j] = "enrolled" => pc[j] = "enrolled"
    BY <2>1 DEF Claims
  <2> QED
    BY <2>1, <2>2, TokenCalm
<1>11. ASSUME NEW s \in Sessions,
              \/ StartsPairing(s) \/ StopsPairing(s) \/ NodeDies(s) \/ Expires(s)
              \/ Appears(s) \/ Resolved(s) \/ Disappears(s)
       PROVE  TokenInv'
  <2>1. UNCHANGED <<contested, usedBy, tok, nodes, pc>>
    BY <1>11 DEF StartsPairing, StopsPairing, NodeDies, Expires, Appears, Resolved,
       Disappears, enrollVars, tokenVars
  <2> QED
    BY <2>1, TokenCalm DEF Claims
<1>12. CASE UNCHANGED pairingVars
  <2>1. UNCHANGED <<contested, usedBy, tok, nodes, pc>>
    BY <1>12 DEF pairingVars, enrollVars, tokenVars
  <2> QED
    BY <2>1, TokenCalm DEF Claims
<1> QED
  BY <1>1, <1>2, <1>3, <1>4, <1>5, <1>6, <1>7, <1>8, <1>9, <1>10, <1>11, <1>12
     DEF PairingNext, EnrollStep

\* Two nodes enrolled with one token had both read its row before either
\* marked it, and a marked token names a node with a row.
THEOREM PairingTokenMakesOneNode == PairingSpec => []TokenMakesOneNode
<1>1. PairingInit => TokenInv
  BY DEF PairingInit, EnrollInit, TokenInv, Claims
<1>2. TypeInv /\ TokenInv => TokenMakesOneNode
  <2> SUFFICES ASSUME TypeInv, TokenInv PROVE TokenMakesOneNode
    OBVIOUS
  <2>1. \A r \in Requests : nodes[r] # NoName /\ tok[r] \in Tokens => Claims(r)
    BY TypeFacts DEF TypeInv, PhaseOK, Claims
  <2> QED
    BY <2>1 DEF TokenInv, TokenMakesOneNode
<1> QED
  BY <1>1, <1>2, InitTypes, StepTypes, StepToken, PTL DEF PairingSpec

-----------------------------------------------------------------------------
(***************************************************************************)
(* A session's verification, and the hub's list of sessions.               *)
(***************************************************************************)
\* A verification lasts while the session's code does: the request that
\* brought it never asks another session or with another code.
LEMMA VerifiedLasts ==
    ASSUME TypeInv, VerifiedByCurrentCode,
           \A s \in verified' : s \in verified /\ code'[s] = code[s],
           \A r \in Requests : at[r] \in Sessions => at'[r] = at[r] /\ typed'[r] = typed[r]
    PROVE  VerifiedByCurrentCode'
<1>1. \A s \in verified' : \E r \in Requests : at[r] = s /\ typed[r] = code'[s]
  BY DEF VerifiedByCurrentCode
<1>2. \A s \in verified' : s \in Sessions
  BY SessionFacts
<1> QED
  BY <1>1, <1>2 DEF VerifiedByCurrentCode

LEMMA StepVerified ==
    TypeInv /\ VerifiedByCurrentCode /\ [PairingNext]_pairingVars => VerifiedByCurrentCode'
<1> SUFFICES ASSUME TypeInv, VerifiedByCurrentCode, [PairingNext]_pairingVars
             PROVE  VerifiedByCurrentCode'
  OBVIOUS
<1>0. /\ code \in [Sessions -> 0..MaxCode]
      /\ at \in [Requests -> Sessions \cup {NoSession}]
      /\ typed \in [Requests -> 0..MaxCode]
      /\ verified \subseteq Sessions /\ NoSession \notin Sessions
  BY TypeFacts, SessionFacts
<1>1. ASSUME NEW s \in Sessions, RegenerateCode(s), UNCHANGED <<at, typed>>
      PROVE  VerifiedByCurrentCode'
  <2>1. \A z \in verified' : z \in verified /\ code'[z] = code[z]
    BY <1>0, <1>1 DEF RegenerateCode
  <2> QED
    BY <1>1, <2>1, VerifiedLasts
<1>2. ASSUME UNCHANGED <<code, verified, at, typed>> PROVE VerifiedByCurrentCode'
  BY <1>2, VerifiedLasts
<1>3. ASSUME NEW r \in Requests, Verify(r) PROVE VerifiedByCurrentCode'
  <2>1. at[r] \in Sessions /\ UNCHANGED <<at, typed>>
    BY <1>3 DEF Verify, CanHandle, TypeInv, PhaseOK
  <2>2. CASE RegenerateCode(at[r])
    BY <1>1, <2>1, <2>2
  <2>3. CASE typed[r] = code[at[r]] /\ verified' = verified \cup {at[r]} /\ code' = code
    BY <2>1, <2>3 DEF VerifiedByCurrentCode
  <2>4. CASE UNCHANGED <<code, verified>>
    BY <1>2, <2>1, <2>4
  <2> QED
    BY <1>3, <2>2, <2>3, <2>4 DEF Verify
<1>4. ASSUME NEW r \in Requests, NEW s \in Sessions, NEW n \in Names, NEW c \in 0..code[s],
             Dial(r, s, c, n)
      PROVE  VerifiedByCurrentCode'
  <2>1. /\ at[r] = NoSession
        /\ at' = [at EXCEPT ![r] = s] /\ typed' = [typed EXCEPT ![r] = c]
        /\ code' = code /\ verified' = verified
    BY <1>4 DEF Dial, Asked, sessionVars, TypeInv, PhaseOK
  <2>2. \A j \in Requests : at[j] \in Sessions => at'[j] = at[j] /\ typed'[j] = typed[j]
    BY <1>0, <2>1
  <2> QED
    BY <2>1, <2>2, VerifiedLasts
<1>5. ASSUME NEW s \in Sessions,
             \/ StartsPairing(s) \/ StopsPairing(s) \/ NodeDies(s) \/ Expires(s)
             \/ Appears(s) \/ Resolved(s) \/ Disappears(s)
      PROVE  VerifiedByCurrentCode'
  <2>1. CASE StartsPairing(s)
    BY <1>1, <2>1 DEF StartsPairing
  <2>2. CASE NodeDies(s)
    <3>1. \A z \in verified' : z \in verified /\ code'[z] = code[z]
      BY <1>0, <2>2 DEF NodeDies
    <3> QED
      BY <2>2, <3>1, VerifiedLasts DEF NodeDies
  <2>3. CASE StopsPairing(s) \/ Expires(s) \/ Appears(s) \/ Resolved(s) \/ Disappears(s)
    BY <1>2, <2>3 DEF StopsPairing, Expires, Appears, Resolved, Disappears, sessionVars
  <2> QED
    BY <1>5, <2>1, <2>2, <2>3
<1>6. CASE HubCrash \/ UNCHANGED pairingVars
  BY <1>2, <1>6 DEF HubCrash, requestVars, pairingVars, sessionVars
<1>7. ASSUME NEW r \in Requests,
             Complete(r) \/ Accepted(r) \/ Rejected(r) \/ CommitPairing(r) \/ HttpFails(r)
      PROVE  VerifiedByCurrentCode'
  BY <1>2, <1>7 DEF Complete, Accepted, Rejected, CommitPairing, HttpFails, requestVars,
     sessionVars
<1>8. CASE UNCHANGED <<phase, sessionVars, at, typed, call, lanVars>>
  BY <1>2, <1>8 DEF sessionVars
<1> QED
  BY <1>3, <1>4, <1>5, <1>6, <1>7, <1>8 DEF PairingNext

\* A session that takes credentials was verified with the code it now shows.
THEOREM PairingVerifiedByCurrentCode == PairingSpec => []VerifiedByCurrentCode
<1>1. PairingInit => VerifiedByCurrentCode
  BY DEF PairingInit, VerifiedByCurrentCode
<1> QED
  BY <1>1, InitTypes, StepTypes, StepVerified, PTL DEF PairingSpec

\* What the list claims, a lookup under way will claim of its session.
ListInv ==
    /\ \A s \in listed : news[s] = "added" \/ s \in overtaken
    /\ \A s \in lookups : news[s] = "added" \/ s \in overtaken

LEMMA StepList == TypeInv /\ ListInv /\ [PairingNext]_pairingVars => ListInv'
<1> SUFFICES ASSUME TypeInv, ListInv, [PairingNext]_pairingVars PROVE ListInv'
  OBVIOUS
<1>0. news \in [Sessions -> {"none", "added", "removed"}] /\ listed \subseteq Sessions
      /\ lookups \subseteq Sessions
  BY DEF TypeInv, PairingTypeOK
<1>1. ASSUME UNCHANGED lanVars PROVE ListInv'
  BY <1>1 DEF ListInv, lanVars
<1>2. ASSUME NEW s \in Sessions, Appears(s) PROVE ListInv'
  BY <1>0, <1>2 DEF Appears, ListInv
<1>3. ASSUME NEW s \in Sessions, Resolved(s) PROVE ListInv'
  BY <1>3 DEF Resolved, ListInv
<1>4. ASSUME NEW s \in Sessions, Disappears(s) PROVE ListInv'
  BY <1>0, <1>4 DEF Disappears, ListInv
<1>5. CASE HubCrash
  BY <1>5 DEF HubCrash, ListInv
<1>6. ASSUME NEW s \in Sessions,
             StartsPairing(s) \/ StopsPairing(s) \/ NodeDies(s) \/ Expires(s)
      PROVE  ListInv'
  BY <1>1, <1>6 DEF StartsPairing, StopsPairing, NodeDies, Expires
<1>7. ASSUME NEW r \in Requests,
             \/ Verify(r) \/ Complete(r) \/ Accepted(r) \/ Rejected(r)
             \/ CommitPairing(r) \/ HttpFails(r)
      PROVE  ListInv'
  BY <1>1, <1>7 DEF Verify, Complete, Accepted, Rejected, CommitPairing, HttpFails
<1>8. ASSUME NEW r \in Requests, NEW s \in Sessions, NEW n \in Names, NEW c \in 0..code[s],
             Dial(r, s, c, n)
      PROVE  ListInv'
  BY <1>1, <1>8 DEF Dial
<1>9. CASE UNCHANGED pairingVars \/ UNCHANGED <<phase, sessionVars, at, typed, call, lanVars>>
  BY <1>1, <1>9 DEF pairingVars
<1> QED
  BY <1>2, <1>3, <1>4, <1>5, <1>6, <1>7, <1>8, <1>9 DEF PairingNext

\* A session in the hub's list is one whose last news was good, unless its
\* goodbye overtook the details of an earlier Added.
THEOREM PairingListedIsThere == PairingSpec => []ListedIsThere
<1>1. PairingInit => ListInv
  BY DEF PairingInit, ListInv
<1>2. ListInv => ListedIsThere
  BY DEF ListInv, ListedIsThere
<1> QED
  BY <1>1, <1>2, InitTypes, StepTypes, StepList, PTL DEF PairingSpec

-----------------------------------------------------------------------------
(***************************************************************************)
(* The refinement.  A step of either way to enroll is about one request:   *)
(* it begins it, makes the hub know its id, makes the machine save it,     *)
(* ends it, or is none of Handover's business.                             *)
(***************************************************************************)
\* What the hub and the machines keep of the other requests is left alone.
OnlyAbout(r) ==
    \A j \in Requests : j # r => /\ pc'[j] = pc[j] /\ nodes'[j] = nodes[j]
                                 /\ j \in saved' <=> j \in saved

\* An enrollment answered plainly is known at both ends or at neither.
LEMMA EndsAgree ==
    ASSUME TypeInv, NEW r \in Requests, r \in Ended
    PROVE  r \in Known <=> r \in saved
  BY DEF TypeInv, PhaseOK, Ended, Known

LEMMA MayEndStep ==
    ASSUME TypeInv', NEW r \in Requests, OnlyAbout(r), r \in Ended => r \in Ended'
    PROVE  Promise!MayEnd(r)
<1>1. Ended' = Ended \/ Ended' = Ended \cup {r}
  BY DEF OnlyAbout, Ended
<1>2. r \in Ended' => (r \in Known' <=> r \in saved')
  BY EndsAgree DEF TypeInv, PhaseOK, Ended, Known
<1> QED
  BY <1>1, <1>2 DEF Promise!MayEnd

LEMMA BeginStep ==
    ASSUME TypeInv', NEW r \in Requests, OnlyAbout(r), r \in Ended => r \in Ended',
           path[r] = "none", NEW p \in {"token", "code"}, path' = [path EXCEPT ![r] = p],
           saved' = saved, nodes' = nodes
    PROVE  Promise!HandoverNext
<1>1. Promise!Begin(r)
  BY MayEndStep DEF Promise!Begin, Known
<1> QED
  BY <1>1 DEF Promise!HandoverNext

LEMMA EndStep ==
    ASSUME TypeInv', NEW r \in Requests, OnlyAbout(r), r \notin Ended,
           path' = path, saved' = saved, nodes' = nodes
    PROVE  Promise!HandoverNext
<1>1. Promise!End(r)
  BY MayEndStep DEF Promise!End, Known
<1> QED
  BY <1>1 DEF Promise!HandoverNext

LEMMA KnowStep ==
    ASSUME TypeInv', NEW r \in Requests, OnlyAbout(r), r \notin Ended,
           path[r] = "token" \/ (path[r] = "code" /\ r \in saved),
           path' = path, saved' = saved, nodes'[r] # NoName
    PROVE  Promise!HandoverNext
<1>1. Known' = Known \cup {r}
  BY DEF OnlyAbout, Known
<1>2. Promise!Know(r)
  BY <1>1, MayEndStep DEF Promise!Know
<1> QED
  BY <1>2 DEF Promise!HandoverNext

LEMMA SaveStep ==
    ASSUME TypeInv', NEW r \in Requests, OnlyAbout(r), r \notin Ended,
           path[r] = "code" \/ (path[r] = "token" /\ nodes[r] # NoName),
           path' = path, saved' = saved \cup {r}, nodes' = nodes
    PROVE  Promise!HandoverNext
<1>1. path[r] = "token" => r \in Known
  BY DEF Known
<1>2. Promise!Save(r)
  BY <1>1, MayEndStep DEF Promise!Save, Known
<1> QED
  BY <1>2 DEF Promise!HandoverNext

LEMMA Stutter ==
    ASSUME UNCHANGED <<path, saved, nodes, pc>>
    PROVE  UNCHANGED Promise!handoverVars
  BY DEF Promise!handoverVars, Known, Ended

LEMMA StepHandover ==
    TypeInv /\ TypeInv' /\ [PairingNext]_pairingVars
        => [Promise!HandoverNext]_(Promise!handoverVars)
<1> SUFFICES ASSUME TypeInv, TypeInv', [PairingNext]_pairingVars
             PROVE  [Promise!HandoverNext]_(Promise!handoverVars)
  OBVIOUS
<1>0. /\ pc \in [Requests -> PcType] /\ nodes \in [Requests -> Names \cup {NoName}]
      /\ NoName \notin Names
  BY TypeFacts
<1>p. \A r \in Requests : PhaseOK(r)
  BY DEF TypeInv
<1>1. CASE UNCHANGED <<path, saved, nodes, pc>>
  BY <1>1, Stutter
<1>2. ASSUME NEW r \in Requests, NEW t \in Tokens, NEW n \in Names, EnrollCommand(r, t, n)
      PROVE  Promise!HandoverNext
  <2>1. /\ pc[r] = "idle" /\ OnlyAbout(r) /\ path' = [path EXCEPT ![r] = "token"]
        /\ saved' = saved /\ nodes' = nodes
    BY <1>0, <1>2 DEF EnrollCommand, Goto, OnlyAbout
  <2>2. path[r] = "none" /\ r \notin Ended
    BY <1>p, <2>1 DEF PhaseOK, Ended
  <2> QED
    BY <2>1, <2>2, BeginStep
<1>3. ASSUME NEW r \in Requests, ReadToken(r) \/ CheckName(r) PROVE Promise!HandoverNext
  <2>1. /\ pc[r] \in {"posted", "read"} /\ OnlyAbout(r)
        /\ path' = path /\ saved' = saved /\ nodes' = nodes
    BY <1>0, <1>3 DEF ReadToken, CheckName, Goto, OnlyAbout
  <2>2. r \notin Ended
    BY <2>1 DEF Ended
  <2> QED
    BY <2>1, <2>2, EndStep
<1>4. ASSUME NEW r \in Requests, CommitEnroll(r) PROVE Promise!HandoverNext
  <2>1. /\ pc[r] = "named" /\ OnlyAbout(r) /\ path' = path /\ saved' = saved
        /\ nodes' = nodes \/ nodes'[r] = name[r]
    BY <1>0, <1>4 DEF CommitEnroll, NewNode, Goto, OnlyAbout
  <2>2. r \notin Ended /\ path[r] = "token" /\ name[r] # NoName
    BY <1>0, <1>p, <2>1 DEF PhaseOK, Ended
  <2> QED
    BY <2>1, <2>2, EndStep, KnowStep
<1>5. ASSUME NEW r \in Requests, SaveConfig(r) PROVE Promise!HandoverNext
  <2>1. /\ pc[r] = "enrolled" /\ r \in listening /\ OnlyAbout(r)
        /\ path' = path /\ saved' = saved \cup {r} /\ nodes' = nodes
    BY <1>5 DEF SaveConfig, OnlyAbout
  <2>2. r \notin Ended /\ path[r] = "token" /\ nodes[r] # NoName
    BY <1>p, <2>1 DEF PhaseOK, Ended
  <2> QED
    BY <2>1, <2>2, SaveStep
<1>6. ASSUME NEW r \in Requests, NEW s \in Sessions, NEW n \in Names, NEW c \in 0..code[s],
             Dial(r, s, c, n)
      PROVE  Promise!HandoverNext
  <2>1. /\ pc[r] = "idle" /\ OnlyAbout(r) /\ path' = [path EXCEPT ![r] = "code"]
        /\ saved' = saved /\ nodes' = nodes
    BY <1>0, <1>6 DEF Dial, Asked, Goto, OnlyAbout, hubTables
  <2>2. path[r] = "none" /\ r \notin Ended
    BY <1>p, <2>1 DEF PhaseOK, Ended
  <2> QED
    BY <2>1, <2>2, BeginStep
<1>7. ASSUME NEW r \in Requests, Accepted(r) \/ Rejected(r) \/ HttpFails(r)
      PROVE  Promise!HandoverNext
  <2>1. /\ pc[r] \in {"pairing", "completing"} /\ OnlyAbout(r)
        /\ path' = path /\ saved' = saved /\ nodes' = nodes
    BY <1>0, <1>7 DEF Accepted, Rejected, HttpFails, Goto, OnlyAbout, hubTables, requestVars
  <2>2. r \notin Ended
    BY <2>1 DEF Ended
  <2> QED
    BY <2>1, <2>2, EndStep
<1>8. ASSUME NEW r \in Requests, CommitPairing(r) PROVE Promise!HandoverNext
  <2>1. /\ pc[r] = "completing" /\ call[r] = "complete_yes" /\ OnlyAbout(r)
        /\ path' = path /\ saved' = saved
        /\ nodes' = nodes \/ nodes'[r] = name[r]
    BY <1>0, <1>8 DEF CommitPairing, NewNode, Goto, OnlyAbout, requestVars
  <2>2. r \notin Ended /\ path[r] = "code" /\ r \in saved /\ name[r] # NoName
    BY <1>0, <1>p, <2>1 DEF PhaseOK, Ended
  <2> QED
    BY <2>1, <2>2, EndStep, KnowStep
<1>9. ASSUME NEW r \in Requests, Complete(r)
      PROVE  [Promise!HandoverNext]_(Promise!handoverVars)
  <2>1. /\ call[r] = "complete" /\ UNCHANGED <<path, nodes, pc>>
        /\ saved' = saved \/ saved' = saved \cup {r}
    BY <1>9 DEF Complete, CanHandle, hubTables, requestVars
  <2>2. r \notin Ended /\ path[r] = "code"
    BY <1>p, <2>1 DEF PhaseOK, Ended
  <2>3. CASE saved' = saved
    BY <2>1, <2>3, Stutter
  <2>4. CASE saved' = saved \cup {r}
    <3>1. OnlyAbout(r)
      BY <2>1, <2>4 DEF OnlyAbout
    <3> QED
      BY <2>1, <2>2, <2>4, <3>1, SaveStep
  <2> QED
    BY <2>1, <2>3, <2>4
<1>10. ASSUME HubCrash PROVE UNCHANGED Promise!handoverVars
  <2>1. /\ UNCHANGED <<path, saved, nodes>>
        /\ \A r \in Requests :
              \/ pc'[r] = pc[r]
              \/ pc'[r] = "lost" /\ pc[r] \notin {"refused", "paired", "enrolled"}
    BY <1>0, <1>10 DEF HubCrash, hubTables, requestVars
  <2>2. ASSUME NEW r \in Requests PROVE r \in Ended' <=> r \in Ended
    <3>1. saved' = saved
      BY <2>1
    <3>2. pc'[r] = pc[r] \/ (pc'[r] = "lost" /\ pc[r] \notin {"refused", "paired", "enrolled"})
      BY <2>1
    <3> QED
      BY <3>1, <3>2 DEF Ended
  <2>3. Ended \subseteq Requests /\ Ended' \subseteq Requests
    BY DEF Ended
  <2>4. Ended' = Ended
    BY <2>2, <2>3
  <2> QED
    BY <2>1, <2>4 DEF Promise!handoverVars, Known
<1>11. ASSUME NEW r \in Requests, Verify(r) \/ GivesUp(r)
       PROVE  UNCHANGED <<path, saved, nodes, pc>>
  BY <1>11 DEF Verify, GivesUp, enrollVars, tokenVars
<1>12. ASSUME NEW s \in Sessions,
              \/ StartsPairing(s) \/ StopsPairing(s) \/ NodeDies(s) \/ Expires(s)
              \/ Appears(s) \/ Resolved(s) \/ Disappears(s)
       PROVE  UNCHANGED <<path, saved, nodes, pc>>
  BY <1>12 DEF StartsPairing, StopsPairing, NodeDies, Expires, Appears, Resolved,
     Disappears, enrollVars, tokenVars
<1>13. ASSUME NEW t \in Tokens, Mint(t) PROVE UNCHANGED <<path, saved, nodes, pc>>
  BY <1>13 DEF Mint
<1>14. CASE UNCHANGED pairingVars
  BY <1>1, <1>14 DEF pairingVars, enrollVars, tokenVars
<1> QED
  BY <1>1, <1>2, <1>3, <1>4, <1>5, <1>6, <1>7, <1>8, <1>9, <1>10, <1>11, <1>12, <1>13,
     <1>14 DEF PairingNext, EnrollStep

\* Enrolling by token and by code keeps what Handover promises.
THEOREM PairingImplementsHandover == PairingSpec => ImplementsHandover
<1>1. PairingInit => Promise!HandoverInit
  BY DEF PairingInit, EnrollInit, Promise!HandoverInit, Known, Ended
<1>2. TypeInv /\ TypeInv' /\ [PairingNext]_pairingVars
        => [Promise!HandoverNext]_(Promise!handoverVars)
  BY StepHandover
<1> QED
  BY <1>1, <1>2, InitTypes, StepTypes, PTL
  DEF PairingSpec, ImplementsHandover, Promise!HandoverSpec

-----------------------------------------------------------------------------
(***************************************************************************)
(* What the refinement brings.                                             *)
(***************************************************************************)
\* By token a machine saves an id only after the hub knows it, by code the hub
\* knows an id only after the machine has saved it, and nothing is known of an
\* enrollment that has not begun.
HandoverInOrder ==
    \A r \in Requests :
        /\ path[r] = "none" => r \notin Known /\ r \notin saved
        /\ path[r] = "token" /\ r \in saved => r \in Known
        /\ path[r] = "code" /\ r \in Known => r \in saved

\* An enrollment that ended with a plain answer is at both ends or at neither.
EndsTogether == \A r \in Requests : r \in Ended => (r \in Known <=> r \in saved)

\* Neither end forgets an id, and an ended enrollment stays as it ended.
HandoverStays ==
    \A r \in Requests :
        /\ r \in Known => r \in Known'
        /\ r \in saved => r \in saved'
        /\ r \in Ended => /\ r \in Ended'
                          /\ r \in Known' <=> r \in Known
                          /\ r \in saved' <=> r \in saved

PromiseInv ==
    /\ path \in [Requests -> {"none", "token", "code"}]
    /\ HandoverInOrder
    /\ EndsTogether

LEMMA PromiseInit == Promise!HandoverInit => PromiseInv
  BY DEF Promise!HandoverInit, PromiseInv, HandoverInOrder, EndsTogether

LEMMA PromiseStep ==
    PromiseInv /\ [Promise!HandoverNext]_(Promise!handoverVars)
        => PromiseInv' /\ HandoverStays
<1> USE DEF PromiseInv, HandoverInOrder, EndsTogether, HandoverStays
<1> SUFFICES ASSUME PromiseInv, [Promise!HandoverNext]_(Promise!handoverVars)
             PROVE  PromiseInv' /\ HandoverStays
  OBVIOUS
<1>1. ASSUME NEW r \in Requests, Promise!Begin(r)
      PROVE  PromiseInv' /\ HandoverStays
  BY <1>1 DEF Promise!Begin, Promise!MayEnd
<1>2. ASSUME NEW r \in Requests, Promise!Know(r)
      PROVE  PromiseInv' /\ HandoverStays
  BY <1>2 DEF Promise!Know, Promise!MayEnd
<1>3. ASSUME NEW r \in Requests, Promise!Save(r)
      PROVE  PromiseInv' /\ HandoverStays
  BY <1>3 DEF Promise!Save, Promise!MayEnd
<1>4. ASSUME NEW r \in Requests, Promise!End(r)
      PROVE  PromiseInv' /\ HandoverStays
  BY <1>4 DEF Promise!End, Promise!MayEnd
<1>5. CASE UNCHANGED Promise!handoverVars
  BY <1>5 DEF Promise!handoverVars
<1> QED
  BY <1>1, <1>2, <1>3, <1>4, <1>5 DEF Promise!HandoverNext

\* The order in which an id is handed over, whatever is lost or retried: no
\* machine is enrolled by token with an id the hub does not know, and no node
\* is paired by code that the machine has not saved.
THEOREM PairingInOrder == PairingSpec => [](HandoverInOrder /\ EndsTogether)
<1>1. Promise!HandoverSpec => []PromiseInv
  BY PromiseInit, PromiseStep, PTL DEF Promise!HandoverSpec
<1>2. PromiseInv => HandoverInOrder /\ EndsTogether
  BY DEF PromiseInv
<1> QED
  BY <1>1, <1>2, PairingImplementsHandover, PTL DEF ImplementsHandover

\* An enrollment that was answered plainly stays settled: no late step of
\* /pair-complete or of the hub's commit changes either end afterwards.
THEOREM PairingStaysSettled ==
    PairingSpec => [][HandoverStays]_(Promise!handoverVars)
<1>1. Promise!HandoverSpec => [][HandoverStays]_(Promise!handoverVars)
  BY PromiseInit, PromiseStep, PTL DEF Promise!HandoverSpec
<1> QED
  BY <1>1, PairingImplementsHandover, PTL DEF ImplementsHandover
=============================================================================
