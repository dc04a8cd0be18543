---------------------------- MODULE BridgeProofs ----------------------------
(***************************************************************************)
(* What the bridge keeps true for any number of commands, entries, topics  *)
(* and inputs, whatever device and broker do: acks are true, no write      *)
(* outlives the link it was made for, and the broker retains what the      *)
(* channels believe it does.                                               *)
(***************************************************************************)
EXTENDS Bridge, FiniteSetTheorems, SequenceTheorems, TLAPS

Fates == {"none", "waiting", "ok", "error"}
Verdicts == {"none", "ok", "error", "dropped", "twice"}
Letter == [cmd : Commands, topic : Topics]

TypeOK ==
  /\ modbus \in BOOLEAN /\ mqtt \in BOOLEAN /\ alive \in BOOLEAN /\ calm \in BOOLEAN
  /\ nextReq \in Nat
  /\ waiting \subseteq Request
  /\ inbox \in Seq(Letter)
  /\ issued \in 0..MaxCmd
  /\ fate \in [Commands -> [Targets -> Fates]]
  /\ ack \in [Commands -> [Targets -> Verdicts]]
  /\ chan \in [Inputs -> [published : BOOLEAN, value : Values, at : {0}]]
  /\ due \subseteq Once
  /\ device \in [Inputs -> Values]
  /\ held \in [Inputs -> Values \cup {NotAvailable}]

-----------------------------------------------------------------------------
(***************************************************************************)
(* Request numbers: the entries of a topic take consecutive ones.          *)
(***************************************************************************)
Rank(es, e) == Cardinality({d \in es : d < e})

LEMMA RankProperties ==
  ASSUME NEW es, es \subseteq Nat, IsFiniteSet(es)
  PROVE  /\ Cardinality(es) \in Nat
         /\ \A e \in es : Rank(es, e) \in Nat /\ Rank(es, e) < Cardinality(es)
         /\ \A d, e \in es : d < e => Rank(es, d) < Rank(es, e)
<1> DEFINE below(e) == {d \in es : d < e}
<1>1. ASSUME NEW T \in SUBSET es, NEW U \in SUBSET T, U # T
      PROVE  Cardinality(U) \in Nat /\ Cardinality(T) \in Nat /\ Cardinality(U) < Cardinality(T)
  <2>1. IsFiniteSet(T)
    BY FS_Subset
  <2>2. /\ IsFiniteSet(U)
        /\ Cardinality(U) <= Cardinality(T)
        /\ Cardinality(T) = Cardinality(U) => T = U
    BY <2>1, FS_Subset
  <2> QED BY <1>1, <2>1, <2>2, FS_CardinalityType
<1>2. Cardinality(es) \in Nat
  BY FS_CardinalityType
<1>3. ASSUME NEW e \in es
      PROVE  Rank(es, e) \in Nat /\ Rank(es, e) < Cardinality(es)
  <2>1. below(e) \in SUBSET es /\ e \notin below(e)
    OBVIOUS
  <2> HIDE DEF below
  <2>2. Cardinality(below(e)) \in Nat /\ Cardinality(below(e)) < Cardinality(es)
    BY <2>1, <1>1
  <2> QED BY <2>2 DEF Rank, below
<1>4. ASSUME NEW d \in es, NEW e \in es, d < e
      PROVE  Rank(es, d) < Rank(es, e)
  <2>1. /\ below(e) \in SUBSET es /\ below(d) \in SUBSET below(e)
        /\ d \in below(e) /\ d \notin below(d)
    <3>1. \A x \in es : x < d => x < e
      BY <1>4
    <3>2. d \in Nat /\ ~(d < d)
      OBVIOUS
    <3> QED BY <1>4, <3>1, <3>2
  <2> HIDE DEF below
  <2>2. Cardinality(below(d)) < Cardinality(below(e))
    BY <2>1, <1>1
  <2> QED BY <2>2 DEF Rank, below
<1> QED BY <1>2, <1>3, <1>4

LEMMA EntriesFacts ==
  ASSUME NEW es \in SUBSET Entries
  PROVE  es \subseteq Nat /\ IsFiniteSet(es) /\ Raw \notin es /\ es \subseteq Targets
<1>1. Entries \subseteq Nat \ {Raw} /\ IsFiniteSet(Entries)
  BY BridgeAssumption
<1>2. IsFiniteSet(es)
  BY <1>1, FS_Subset
<1> QED BY <1>1, <1>2 DEF Targets

\* One request for each entry, and as many numbers are used up.
LEMMA PostedProperties ==
  ASSUME NEW es \in SUBSET Entries, NEW c \in Commands, nextReq \in Nat
  PROVE  /\ Posted(c, es) \subseteq Request
         /\ nextReq + Cardinality(Posted(c, es)) \in Nat
         /\ nextReq <= nextReq + Cardinality(Posted(c, es))
         /\ \A r \in Posted(c, es) :
              /\ r.cmd = c /\ r.target \in es
              /\ nextReq <= r.req /\ r.req < nextReq + Cardinality(Posted(c, es))
         /\ \A r, s \in Posted(c, es) : r.req = s.req \/ r.target = s.target => r = s
<1> DEFINE made(e) == [req |-> nextReq + Rank(es, e), cmd |-> c, target |-> e]
<1>1. es \subseteq Nat /\ IsFiniteSet(es) /\ es \subseteq Targets
  BY EntriesFacts
<1>2. /\ Cardinality(es) \in Nat
      /\ \A e \in es : Rank(es, e) \in Nat /\ Rank(es, e) < Cardinality(es)
      /\ \A d, e \in es : d < e => Rank(es, d) < Rank(es, e)
  BY <1>1, RankProperties
<1>3. Posted(c, es) = {made(e) : e \in es}
  BY DEF Posted, Rank
<1> DEFINE ps == Posted(c, es)
<1> HIDE DEF ps
<1>4. \A r \in ps : \E e \in es : r = made(e)
  BY <1>3 DEF ps
<1>5. \A e \in es : made(e) \in ps
  BY <1>3 DEF ps
<1>6. \A e \in es : made(e).target = e /\ made(e).cmd = c /\ made(e).req = nextReq + Rank(es, e)
  OBVIOUS
<1>7. \A e \in es : made(e) \in Request
  BY <1>1, <1>2 DEF Request
<1>8. Cardinality(ps) = Cardinality(es)
  <2> DEFINE f == [e \in es |-> made(e)]
  <2>1. f \in Surjection(es, ps)
    BY <1>4, <1>5 DEF Surjection
  <2>2. f \in Injection(es, ps)
    BY <1>5, <1>6 DEF Injection, IsInjective
  <2> HIDE DEF f
  <2> QED BY <2>1, <2>2, <1>1, FS_Surjection
<1> HIDE DEF made
<1>9. ASSUME NEW r \in ps
      PROVE  /\ r \in Request /\ r.cmd = c /\ r.target \in es
             /\ nextReq <= r.req /\ r.req < nextReq + Cardinality(ps)
  <2>1. PICK e \in es : r = made(e)
    BY <1>4
  <2>2. r.req = nextReq + Rank(es, e) /\ Rank(es, e) \in Nat /\ Rank(es, e) < Cardinality(es)
    BY <2>1, <1>2, <1>6
  <2>3. nextReq <= r.req /\ r.req < nextReq + Cardinality(es)
    BY <2>2, <1>2
  <2> QED BY <2>1, <2>3, <1>6, <1>7, <1>8
<1>10. ASSUME NEW r \in ps, NEW s \in ps, r.req = s.req \/ r.target = s.target
       PROVE  r = s
  <2>1. PICK d \in es : r = made(d)
    BY <1>4
  <2>2. PICK e \in es : s = made(e)
    BY <1>4
  <2>3. d = e
    <3>1. CASE r.target = s.target
      BY <2>1, <2>2, <3>1, <1>6
    <3>2. CASE r.req = s.req
      <4>1. nextReq + Rank(es, d) = nextReq + Rank(es, e)
        BY <2>1, <2>2, <3>2, <1>6
      <4>2. ~(d < e) /\ ~(e < d)
        BY <4>1, <1>2
      <4> QED BY <4>2, <1>1
    <3> QED BY <1>10, <3>1, <3>2
  <2> QED BY <2>1, <2>2, <2>3
<1> QED BY <1>2, <1>8, <1>9, <1>10 DEF ps

-----------------------------------------------------------------------------
(***************************************************************************)
(* The invariant: waiting requests have numbers of their own, below the    *)
(* next one, and nobody was told about them; a command is taken from the   *)
(* inbox once, so that no entry sees it twice.                             *)
(***************************************************************************)
Wants(t) == t \in Entries /\ Ack[t]

Numbered ==
  /\ \A r \in waiting : r.req < nextReq
  /\ \A r, s \in waiting : r.req = s.req => r = s

Waits ==
  /\ \A r \in waiting : fate[r.cmd][r.target] = "waiting" /\ ack[r.cmd][r.target] = "none"
  /\ \A r, s \in waiting : r.cmd = s.cmd /\ r.target = s.target => r = s

Fresh(c) == \A t \in Targets : fate[c][t] = "none" /\ ack[c][t] = "none"

InboxFresh ==
  /\ \A c \in Commands : c > issued => Fresh(c)
  /\ \A k \in 1..Len(inbox) : inbox[k].cmd <= issued /\ Fresh(inbox[k].cmd)
  /\ \A j, k \in 1..Len(inbox) : j < k => inbox[j].cmd < inbox[k].cmd

Tracked == Numbered /\ Waits /\ InboxFresh
BridgeInv == TypeOK /\ Tracked /\ AckTrue /\ PendingMatches /\ NoStaleWrite

-----------------------------------------------------------------------------
(***************************************************************************)
(* What the broker is told.                                                *)
(***************************************************************************)
LEMMA SpokenType ==
  ASSUME mqtt \in BOOLEAN, NEW ms, Spoken(ms)
  PROVE  mqtt' \in BOOLEAN /\ (alive => mqtt' = mqtt)
BY DEF Spoken

\* Messages of one kind: who they are about hears of it, nobody else.
LEMMA TellSays ==
  ASSUME TypeOK, NEW ms, NEW status \in Results, \A m \in ms : m.status = status, Tell(ms)
  PROVE  /\ ack' \in [Commands -> [Targets -> Verdicts]]
         /\ mqtt' \in BOOLEAN /\ (alive => mqtt' = mqtt)
         /\ \A c \in Commands, t \in Targets :
              ack'[c][t] = IF \E m \in ms : m.cmd = c /\ m.target = t
                           THEN Answer(ack[c][t], status) ELSE ack[c][t]
<1> DEFINE told(c, t) == \E m \in ms : m.cmd = c /\ m.target = t
           pick(c, t) == CHOOSE m \in ms : m.cmd = c /\ m.target = t
<1>1. mqtt' \in BOOLEAN /\ (alive => mqtt' = mqtt)
  BY SpokenType DEF Tell, TypeOK
<1>2. ASSUME NEW c \in Commands, NEW t \in Targets, told(c, t)
      PROVE  pick(c, t).status = status
  <2>1. pick(c, t) \in ms
    BY <1>2
  <2> QED BY <2>1
<1>3. ack' = [c \in Commands |-> [t \in Targets |->
                IF told(c, t) THEN Answer(ack[c][t], pick(c, t).status) ELSE ack[c][t]]]
  BY DEF Tell
<1> HIDE DEF told, pick
<1>4. ASSUME NEW c \in Commands, NEW t \in Targets
      PROVE  ack'[c][t] = IF told(c, t) THEN Answer(ack[c][t], status) ELSE ack[c][t]
  BY <1>2, <1>3
<1>5. ASSUME NEW c \in Commands, NEW t \in Targets
      PROVE  ack[c][t] \in Verdicts /\ Answer(ack[c][t], status) \in Verdicts
  BY DEF TypeOK, Answer, Verdicts, Results
<1>6. ack' \in [Commands -> [Targets -> Verdicts]]
  BY <1>2, <1>3, <1>5
<1> QED BY <1>1, <1>4, <1>6 DEF told

\* A req_id finds the write it was given to, and no other.
LEMMA AcksForOf ==
  ASSUME TypeOK, Numbered, PendingMatches, NEW rs \in SUBSET waiting, NEW status
  PROVE  /\ \A m \in AcksFor(rs, status) : m.status = status
         /\ \A c, t : (\E m \in AcksFor(rs, status) : m.cmd = c /\ m.target = t)
                       <=> \E r \in rs : r.cmd = c /\ r.target = t /\ (t = Raw \/ Wants(t))
<1> DEFINE ps == {q \in pending : \E r \in rs : r.req = q.req}
           raws == {q \in rs : q.target = Raw}
<1>1. AcksFor(rs, status) = {Told(p.cmd, p.target, status) : p \in ps} \cup
                            {Told(r.cmd, r.target, status) : r \in raws}
  BY DEF AcksFor
<1>2. ps = {r \in rs : Wants(r.target)}
  <2>1. pending = {r \in waiting : Wants(r.target)}
    BY DEF PendingMatches, Wants
  <2> QED BY <2>1 DEF Numbered
<1> HIDE DEF ps, raws
<1>3. \A p : Told(p.cmd, p.target, status).status = status
             /\ Told(p.cmd, p.target, status).cmd = p.cmd
             /\ Told(p.cmd, p.target, status).target = p.target
  BY DEF Told
<1>4. \A m \in AcksFor(rs, status) : \E p \in ps \cup raws :
        m = Told(p.cmd, p.target, status)
  BY <1>1
<1>5. \A p \in ps \cup raws : Told(p.cmd, p.target, status) \in AcksFor(rs, status)
  BY <1>1
<1>6. \A p : p \in ps \cup raws <=> p \in rs /\ (p.target = Raw \/ Wants(p.target))
  BY <1>2 DEF raws
<1>7. \A m \in AcksFor(rs, status) : m.status = status
  BY <1>3, <1>4
<1>8. ASSUME NEW c, NEW t
      PROVE  (\E m \in AcksFor(rs, status) : m.cmd = c /\ m.target = t)
              <=> \E r \in rs : r.cmd = c /\ r.target = t /\ (t = Raw \/ Wants(t))
  <2>1. ASSUME NEW m \in AcksFor(rs, status), m.cmd = c, m.target = t
        PROVE  \E r \in rs : r.cmd = c /\ r.target = t /\ (t = Raw \/ Wants(t))
    <3>1. PICK p \in ps \cup raws : m = Told(p.cmd, p.target, status)
      BY <1>4
    <3>2. p \in rs /\ p.cmd = c /\ p.target = t /\ (t = Raw \/ Wants(t))
      BY <2>1, <3>1, <1>3, <1>6
    <3> QED BY <3>2
  <2>2. ASSUME NEW r \in rs, r.cmd = c, r.target = t, t = Raw \/ Wants(t)
        PROVE  \E m \in AcksFor(rs, status) : m.cmd = c /\ m.target = t
    <3>1. Told(r.cmd, r.target, status) \in AcksFor(rs, status)
      BY <2>2, <1>5, <1>6
    <3> QED BY <2>2, <3>1, <1>3
  <2> QED BY <2>1, <2>2
<1> QED BY <1>7, <1>8

-----------------------------------------------------------------------------
(***************************************************************************)
(* Requests that are reported.                                             *)
(***************************************************************************)
LEMMA ReportedSays ==
  ASSUME BridgeInv, NEW rs \in SUBSET waiting, NEW status \in Results, Reported(rs, status)
  PROVE  /\ waiting' = waiting \ rs
         /\ fate' \in [Commands -> [Targets -> Fates]]
         /\ ack' \in [Commands -> [Targets -> Verdicts]]
         /\ mqtt' \in BOOLEAN /\ (alive => mqtt' = mqtt)
         /\ PendingMatches'
         /\ \A c \in Commands, t \in Targets :
              IF \E r \in rs : r.cmd = c /\ r.target = t
              THEN /\ fate[c][t] = "waiting" /\ fate'[c][t] = status
                   /\ ack'[c][t] \in {"none", status, "dropped"}
                   /\ t \in Entries => ack'[c][t] = "none" \/ Ack[t]
              ELSE fate'[c][t] = fate[c][t] /\ ack'[c][t] = ack[c][t]
<1> USE DEF BridgeInv, Tracked
<1>1. /\ waiting' = waiting \ rs
      /\ pending' = {p \in pending : \A r \in rs : r.req # p.req}
      /\ fate' = Fated(rs, status)
      /\ Tell(AcksFor(rs, status))
  BY DEF Reported, Taken
<1> DEFINE ms == AcksFor(rs, status)
           told(c, t) == \E m \in ms : m.cmd = c /\ m.target = t
<1>2. /\ \A m \in ms : m.status = status
      /\ \A c, t : told(c, t)
                    <=> \E r \in rs : r.cmd = c /\ r.target = t /\ (t = Raw \/ Wants(t))
  BY AcksForOf
<1> HIDE DEF ms
<1>3. /\ ack' \in [Commands -> [Targets -> Verdicts]]
      /\ mqtt' \in BOOLEAN /\ (alive => mqtt' = mqtt)
      /\ \A c \in Commands, t \in Targets :
           ack'[c][t] = IF told(c, t) THEN Answer(ack[c][t], status) ELSE ack[c][t]
  BY <1>1, <1>2, TellSays DEF ms
<1> HIDE DEF told
<1>4. /\ fate' \in [Commands -> [Targets -> Fates]]
      /\ \A c \in Commands, t \in Targets :
           fate'[c][t] = IF \E r \in rs : r.cmd = c /\ r.target = t THEN status ELSE fate[c][t]
  <2>1. status \in Fates /\ fate \in [Commands -> [Targets -> Fates]]
    BY DEF Results, Fates, TypeOK
  <2> QED BY <2>1, <1>1 DEF Fated
<1>5. PendingMatches'
  <2>1. pending = {r \in waiting : r.target \in Entries /\ Ack[r.target]}
    BY DEF PendingMatches
  <2>2. \A p \in waiting : (\A r \in rs : r.req # p.req) <=> p \notin rs
    BY DEF Numbered
  <2>3. pending' = {r \in waiting' : r.target \in Entries /\ Ack[r.target]}
    BY <2>1, <2>2, <1>1
  <2> QED BY <2>3 DEF PendingMatches
<1>6. ASSUME NEW c \in Commands, NEW t \in Targets, NEW r \in rs, r.cmd = c, r.target = t
      PROVE  /\ fate[c][t] = "waiting"
             /\ ack'[c][t] \in {"none", status, "dropped"}
             /\ t \in Entries => ack'[c][t] = "none" \/ Ack[t]
  <2>1. fate[c][t] = "waiting" /\ ack[c][t] = "none"
    BY <1>6 DEF Waits
  <2>2. CASE t = Raw \/ Wants(t)
    <3>1. ack'[c][t] = Answer("none", status)
      BY <1>2, <1>3, <1>6, <2>1, <2>2
    <3>2. t \in Entries => Ack[t]
      BY <2>2, EntriesFacts DEF Wants
    <3> QED BY <2>1, <3>1, <3>2 DEF Answer
  <2>3. CASE ~(t = Raw \/ Wants(t))
    BY <1>2, <1>3, <2>1, <2>3
  <2> QED BY <2>2, <2>3
<1>7. ASSUME NEW c \in Commands, NEW t \in Targets, ~\E r \in rs : r.cmd = c /\ r.target = t
      PROVE  ack'[c][t] = ack[c][t]
  BY <1>2, <1>3, <1>7
<1> QED BY <1>1, <1>3, <1>4, <1>5, <1>6, <1>7

LEMMA ReportedTracked ==
  ASSUME BridgeInv, NEW rs \in SUBSET waiting, NEW status \in Results, Reported(rs, status),
         UNCHANGED <<nextReq, inbox, issued>>
  PROVE  Tracked' /\ AckTrue'
<1> USE DEF BridgeInv, Tracked
<1> DEFINE told(c, t) == \E r \in rs : r.cmd = c /\ r.target = t
<1>1. /\ waiting' = waiting \ rs
      /\ \A c \in Commands, t \in Targets :
           IF told(c, t)
           THEN /\ fate[c][t] = "waiting" /\ fate'[c][t] = status
                /\ ack'[c][t] \in {"none", status, "dropped"}
                /\ t \in Entries => ack'[c][t] = "none" \/ Ack[t]
           ELSE fate'[c][t] = fate[c][t] /\ ack'[c][t] = ack[c][t]
  BY ReportedSays
<1>2. Numbered'
  BY <1>1 DEF Numbered
<1>3. Waits'
  <2>1. ASSUME NEW r \in waiting' PROVE r \in waiting /\ ~told(r.cmd, r.target)
    BY <1>1 DEF Waits
  <2>2. ASSUME NEW r \in waiting' PROVE r.cmd \in Commands /\ r.target \in Targets
    BY <2>1 DEF TypeOK, Request
  <2> HIDE DEF told
  <2>3. ASSUME NEW r \in waiting'
        PROVE  fate'[r.cmd][r.target] = "waiting" /\ ack'[r.cmd][r.target] = "none"
    BY <2>1, <2>2, <1>1 DEF Waits
  <2>4. \A r, s \in waiting' : r.cmd = s.cmd /\ r.target = s.target => r = s
    BY <1>1 DEF Waits
  <2> QED BY <2>3, <2>4 DEF Waits
<1> HIDE DEF told
<1>4. ASSUME NEW c \in Commands, Fresh(c) PROVE Fresh(c)'
  <2>1. ASSUME NEW t \in Targets PROVE fate[c][t] = "none" /\ ack[c][t] = "none"
    BY <1>4 DEF Fresh
  <2>2. ASSUME NEW t \in Targets PROVE fate'[c][t] = "none" /\ ack'[c][t] = "none"
    BY <1>1, <2>1
  <2> QED BY <2>2 DEF Fresh
<1>5. \A k \in 1..Len(inbox) : inbox[k].cmd \in Commands
  <2>1. \A k \in 1..Len(inbox) : inbox[k] \in Letter
    BY DEF TypeOK
  <2> QED BY <2>1 DEF Letter
<1>6. InboxFresh'
  <2>1. \A c \in Commands : c > issued' => Fresh(c)'
    BY <1>4 DEF InboxFresh
  <2>2. \A k \in 1..Len(inbox') : inbox'[k].cmd <= issued' /\ Fresh(inbox[k].cmd)'
    BY <1>4, <1>5 DEF InboxFresh
  <2>3. \A j, k \in 1..Len(inbox') : j < k => inbox'[j].cmd < inbox'[k].cmd
    BY DEF InboxFresh
  <2> QED BY <2>1, <2>2, <2>3 DEF InboxFresh
<1>7. AckTrue'
  <2> SUFFICES ASSUME NEW c \in Commands, NEW t \in Targets
               PROVE  /\ ack'[c][t] # "twice"
                      /\ ack'[c][t] \in Results => fate'[c][t] = ack'[c][t]
                      /\ t \in Entries => ack'[c][t] = "none" \/ Ack[t]
    BY DEF AckTrue
  <2>1. CASE told(c, t)
    BY <2>1, <1>1 DEF Results
  <2>2. CASE ~told(c, t)
    BY <2>2, <1>1 DEF AckTrue
  <2> QED BY <2>1, <2>2
<1> QED BY <1>2, <1>3, <1>6, <1>7

-----------------------------------------------------------------------------
(***************************************************************************)
(* Commands that are taken from the inbox.                                 *)
(***************************************************************************)
LEMMA HeadFresh ==
  ASSUME TypeOK, Tracked, inbox # <<>>
  PROVE  /\ Head(inbox) \in Letter
         /\ Fresh(Head(inbox).cmd)
         /\ \A r \in waiting : r.cmd # Head(inbox).cmd
         /\ Tail(inbox) \in Seq(Letter)
         /\ \A k \in 1..Len(Tail(inbox)) :
              k + 1 \in 1..Len(inbox) /\ Tail(inbox)[k] = inbox[k + 1]
              /\ Tail(inbox)[k].cmd # Head(inbox).cmd
<1> USE DEF Tracked
<1> DEFINE m == Head(inbox)
           p == Tail(inbox)
<1>1. inbox \in Seq(Letter)
  BY DEF TypeOK
<1>2. /\ m = inbox[1] /\ p \in Seq(Letter) /\ Len(p) = Len(inbox) - 1
      /\ \A k \in 1..Len(p) : p[k] = inbox[k + 1]
      /\ Len(inbox) \in Nat /\ Len(inbox) > 0
  BY <1>1, HeadTailProperties
<1> HIDE DEF m, p
<1>3. 1 \in 1..Len(inbox) /\ \A k \in 1..Len(p) : k + 1 \in 1..Len(inbox) /\ 1 < k + 1
  BY <1>2
<1>4. m \in Letter /\ Fresh(m.cmd)
  BY <1>1, <1>2, <1>3 DEF InboxFresh
<1>5. ASSUME NEW r \in waiting PROVE r.cmd # m.cmd
  <2>1. fate[r.cmd][r.target] = "waiting" /\ r.target \in Targets
    BY DEF Waits, TypeOK, Request
  <2> QED BY <2>1, <1>4 DEF Fresh
<1>6. ASSUME NEW k \in 1..Len(p) PROVE p[k].cmd # m.cmd
  <2>1. inbox[1].cmd < inbox[k + 1].cmd
    BY <1>3 DEF InboxFresh
  <2>2. inbox[1].cmd \in Commands
    BY <1>2, <1>4 DEF Letter
  <2>3. m.cmd < p[k].cmd /\ m.cmd \in Int
    BY <2>1, <2>2, <1>2, BridgeAssumption DEF Commands
  <2> QED BY <2>3
<1> QED BY <1>2, <1>3, <1>4, <1>5, <1>6 DEF m, p

\* A command reached its entries: some got a request each, the others were
\* refused or do not listen; nothing else changed.
TakenAs(c, new) ==
  /\ new \subseteq Request
  /\ waiting' = waiting \cup new
  /\ pending' = pending \cup {r \in new : Wants(r.target)}
  /\ nextReq' \in Nat /\ nextReq <= nextReq'
  /\ fate' \in [Commands -> [Targets -> Fates]]
  /\ ack' \in [Commands -> [Targets -> Verdicts]]
  /\ mqtt' \in BOOLEAN /\ (alive => mqtt' = mqtt)
  /\ \A r \in new :
       /\ r.cmd = c /\ nextReq <= r.req /\ r.req < nextReq'
       /\ fate'[c][r.target] = "waiting" /\ ack'[c][r.target] = "none"
       /\ modbus \/ r.target = Raw
  /\ \A r, s \in new : r.req = s.req \/ r.target = s.target => r = s
  /\ \A d \in Commands, t \in Targets :
       d # c => fate'[d][t] = fate[d][t] /\ ack'[d][t] = ack[d][t]
  /\ \A t \in Targets :
       \/ ack'[c][t] = "none"
       \/ /\ ack'[c][t] \in {"error", "dropped"} /\ fate'[c][t] = "error"
          /\ t \in Entries => Ack[t]

LEMMA TakenTracked ==
  ASSUME BridgeInv, inbox # <<>>, NEW new, TakenAs(Head(inbox).cmd, new),
         inbox' = Tail(inbox), UNCHANGED <<modbus, issued>>
  PROVE  Tracked' /\ AckTrue' /\ PendingMatches' /\ NoStaleWrite'
<1> USE DEF BridgeInv, Tracked
<1> DEFINE c == Head(inbox).cmd
<1>1. /\ c \in Commands /\ Fresh(c)
      /\ \A r \in waiting : r.cmd # c
      /\ \A k \in 1..Len(inbox') : k + 1 \in 1..Len(inbox) /\ inbox'[k] = inbox[k + 1]
                                   /\ inbox'[k].cmd # c /\ inbox'[k].cmd \in Commands
  <2>1. /\ Head(inbox) \in Letter /\ Fresh(Head(inbox).cmd)
        /\ \A r \in waiting : r.cmd # Head(inbox).cmd
        /\ Tail(inbox) \in Seq(Letter)
        /\ \A k \in 1..Len(Tail(inbox)) :
              k + 1 \in 1..Len(inbox) /\ Tail(inbox)[k] = inbox[k + 1]
              /\ Tail(inbox)[k].cmd # Head(inbox).cmd
    BY HeadFresh
  <2>2. \A k \in 1..Len(Tail(inbox)) : Tail(inbox)[k] \in Letter
    BY <2>1
  <2> QED BY <2>1, <2>2 DEF Letter
<1>2. TakenAs(c, new)
  OBVIOUS
<1> HIDE DEF c
<1>3. \A r \in waiting : r.cmd \in Commands /\ r.target \in Targets /\ r.req \in Nat /\ r.req < nextReq
  BY DEF TypeOK, Request, Numbered
<1>4. \A r \in new : r.cmd \in Commands /\ r.target \in Targets /\ r.req \in Nat
  BY <1>2 DEF TakenAs, Request
<1>5. Numbered'
  <2>0. nextReq \in Nat /\ nextReq' \in Nat /\ nextReq <= nextReq' /\ waiting' = waiting \cup new
    BY <1>2 DEF TakenAs, TypeOK
  <2>1. \A r \in waiting' : r.req < nextReq'
    BY <2>0, <1>2, <1>3 DEF TakenAs
  <2>2. \A r \in waiting, s \in new : r.req # s.req
    BY <2>0, <1>2, <1>3, <1>4 DEF TakenAs
  <2>3. \A r, s \in waiting' : r.req = s.req => r = s
    BY <2>0, <2>2, <1>2 DEF TakenAs, Numbered
  <2> QED BY <2>1, <2>3 DEF Numbered
<1>6. Waits'
  <2>1. ASSUME NEW r \in waiting
        PROVE  fate'[r.cmd][r.target] = "waiting" /\ ack'[r.cmd][r.target] = "none"
    BY <1>1, <1>2, <1>3 DEF TakenAs, Waits
  <2>2. ASSUME NEW r \in new
        PROVE  fate'[r.cmd][r.target] = "waiting" /\ ack'[r.cmd][r.target] = "none"
    BY <1>2 DEF TakenAs
  <2>3. \A r, s \in waiting' : r.cmd = s.cmd /\ r.target = s.target => r = s
    BY <1>1, <1>2 DEF TakenAs, Waits
  <2>4. waiting' = waiting \cup new
    BY <1>2 DEF TakenAs
  <2> QED BY <2>1, <2>2, <2>3, <2>4 DEF Waits
<1>7. ASSUME NEW d \in Commands, d # c, Fresh(d) PROVE Fresh(d)'
  BY <1>2, <1>7 DEF TakenAs, Fresh
<1>8. InboxFresh'
  <2>1. ASSUME NEW d \in Commands, d > issued' PROVE Fresh(d)'
    <3>1. c <= issued /\ issued \in Int /\ c \in Int
      <4>1. 1 \in 1..Len(inbox) /\ Head(inbox) = inbox[1]
        <5>1. inbox \in Seq(Letter)
          BY DEF TypeOK
        <5> QED BY <5>1
      <4> QED BY <4>1, <1>1, BridgeAssumption DEF InboxFresh, TypeOK, Commands, c
    <3>2. d # c /\ Fresh(d)
      BY <2>1, <3>1 DEF InboxFresh, Commands
    <3> QED BY <3>2, <1>7
  <2>2. ASSUME NEW k \in 1..Len(inbox') PROVE (inbox[k].cmd <= issued /\ Fresh(inbox[k].cmd))'
    <3>1. inbox[k + 1].cmd <= issued /\ Fresh(inbox[k + 1].cmd)
      BY <1>1 DEF InboxFresh
    <3>2. inbox'[k].cmd = inbox[k + 1].cmd /\ inbox[k + 1].cmd # c /\ inbox[k + 1].cmd \in Commands
      BY <1>1
    <3>3. \A t \in Targets : fate'[inbox[k + 1].cmd][t] = "none" /\ ack'[inbox[k + 1].cmd][t] = "none"
      BY <3>1, <3>2, <1>2 DEF TakenAs, Fresh
    <3> QED BY <3>1, <3>2, <3>3 DEF Fresh
  <2>3. ASSUME NEW j \in 1..Len(inbox'), NEW k \in 1..Len(inbox'), j < k
        PROVE  inbox'[j].cmd < inbox'[k].cmd
    <3>1. j + 1 < k + 1
      BY <2>3
    <3> QED BY <3>1, <1>1 DEF InboxFresh
  <2> QED BY <2>1, <2>2, <2>3 DEF InboxFresh
<1>9. AckTrue'
  <2> SUFFICES ASSUME NEW d \in Commands, NEW t \in Targets
               PROVE  /\ ack'[d][t] # "twice"
                      /\ ack'[d][t] \in Results => fate'[d][t] = ack'[d][t]
                      /\ t \in Entries => ack'[d][t] = "none" \/ Ack[t]
    BY DEF AckTrue
  <2>1. CASE d = c
    BY <2>1, <1>2 DEF TakenAs, Results
  <2>2. CASE d # c
    BY <2>2, <1>2 DEF TakenAs, AckTrue
  <2> QED BY <2>1, <2>2
<1>10. PendingMatches'
  BY <1>2 DEF TakenAs, PendingMatches, Wants
<1>11. NoStaleWrite'
  BY <1>2 DEF TakenAs, NoStaleWrite
<1> QED BY <1>5, <1>6, <1>8, <1>9, <1>10, <1>11

\* A write command: the entries that can use it, if the device is there.
LEMMA WriteTaken ==
  ASSUME BridgeInv, inbox # <<>>, TakeWrite(Head(inbox))
  PROVE  \E new : TakenAs(Head(inbox).cmd, new)
<1> USE DEF BridgeInv
<1> DEFINE m == Head(inbox)
           c == m.cmd
<1>1. c \in Commands /\ Fresh(c)
  BY HeadFresh DEF Letter
<1>2. PICK usable \in SUBSET Matching(m) :
        LET posted == Posted(m.cmd, Postable(usable))
            refused == Matching(m) \ Postable(usable)
        IN /\ waiting' = waiting \cup posted
           /\ nextReq' = nextReq + Cardinality(posted)
           /\ pending' = pending \cup {r \in posted : Ack[r.target]}
           /\ fate' = [fate EXCEPT ![m.cmd] = [t \in Targets |->
                         IF t \in refused THEN "error"
                         ELSE IF t \in Matching(m) THEN "waiting" ELSE @[t]]]
           /\ Tell(Wanted({Told(m.cmd, e, "error") : e \in refused}))
  BY DEF TakeWrite
<1> DEFINE es == Postable(usable)
           refused == Matching(m) \ es
           posted == Posted(c, es)
           ms == Wanted({Told(c, e, "error") : e \in refused})
           told(d, t) == \E x \in ms : x.cmd = d /\ x.target = t
<1>3. /\ es \in SUBSET Matching(m) /\ es \in SUBSET Entries
      /\ refused \in SUBSET Entries /\ Matching(m) = es \cup refused
      /\ es \cap refused = {} /\ (es = {} \/ modbus)
  BY DEF Postable, Matching
<1>4. /\ waiting' = waiting \cup posted
      /\ nextReq' = nextReq + Cardinality(posted)
      /\ pending' = pending \cup {r \in posted : Ack[r.target]}
      /\ fate' = [fate EXCEPT ![c] = [t \in Targets |->
                    IF t \in refused THEN "error"
                    ELSE IF t \in es THEN "waiting" ELSE @[t]]]
      /\ Tell(ms)
  BY <1>2, <1>3
<1>5. /\ posted \subseteq Request
      /\ nextReq' \in Nat /\ nextReq <= nextReq'
      /\ \A r \in posted : r.cmd = c /\ r.target \in es /\ nextReq <= r.req /\ r.req < nextReq'
      /\ \A r, s \in posted : r.req = s.req \/ r.target = s.target => r = s
  BY <1>1, <1>3, <1>4, PostedProperties DEF TypeOK
<1>6. /\ \A x \in ms : x.status = "error"
      /\ \A d, t : told(d, t) <=> d = c /\ t \in refused /\ Ack[t]
  <2>1. \A e \in refused : e \in Entries /\ e # Raw
    BY <1>3, EntriesFacts
  <2> HIDE DEF refused, c
  <2>2. \A x \in ms : \E e \in refused : x = Told(c, e, "error") /\ Ack[e]
    BY <2>1 DEF Wanted, Told
  <2>3. \A e \in refused : Ack[e] => Told(c, e, "error") \in ms
    BY <2>1 DEF Wanted, Told
  <2> HIDE DEF ms
  <2>4. \A e : Told(c, e, "error").cmd = c /\ Told(c, e, "error").target = e
               /\ Told(c, e, "error").status = "error"
    BY DEF Told
  <2>5. \A x \in ms : x.status = "error" /\ x.cmd = c /\ x.target \in refused /\ Ack[x.target]
    BY <2>2, <2>4
  <2>6. \A t : t \in refused /\ Ack[t] => told(c, t)
    BY <2>3, <2>4
  <2> QED BY <2>5, <2>6
<1> HIDE DEF m, c, es, refused, posted, ms, told
<1>7. /\ ack' \in [Commands -> [Targets -> Verdicts]]
      /\ mqtt' \in BOOLEAN /\ (alive => mqtt' = mqtt)
      /\ \A d \in Commands, t \in Targets :
           ack'[d][t] = IF told(d, t) THEN Answer(ack[d][t], "error") ELSE ack[d][t]
  BY <1>4, <1>6, TellSays DEF Results, told
<1>8. /\ fate' \in [Commands -> [Targets -> Fates]]
      /\ \A t \in Targets : fate'[c][t] = IF t \in refused THEN "error"
                                          ELSE IF t \in es THEN "waiting" ELSE fate[c][t]
      /\ \A d \in Commands : d # c => fate'[d] = fate[d]
  BY <1>1, <1>4 DEF TypeOK, Fates
<1>9. \A t \in Targets : fate[c][t] = "none" /\ ack[c][t] = "none"
  BY <1>1 DEF Fresh
<1>10. es \subseteq Targets
  BY <1>3, EntriesFacts
<1>11. ASSUME NEW r \in posted
       PROVE  /\ r.cmd = c /\ nextReq <= r.req /\ r.req < nextReq'
              /\ fate'[c][r.target] = "waiting" /\ ack'[c][r.target] = "none"
              /\ modbus \/ r.target = Raw
  <2>1. r.target \in es /\ r.target \in Targets /\ r.target \notin refused
    BY <1>3, <1>5, <1>10
  <2>2. fate'[c][r.target] = "waiting"
    BY <2>1, <1>8
  <2>3. ack'[c][r.target] = "none"
    BY <2>1, <1>1, <1>6, <1>7, <1>9
  <2>4. modbus \/ r.target = Raw
    BY <2>1, <1>3
  <2> QED BY <2>2, <2>3, <2>4, <1>5
<1>12. ASSUME NEW t \in Targets
       PROVE  \/ ack'[c][t] = "none"
              \/ /\ ack'[c][t] \in {"error", "dropped"} /\ fate'[c][t] = "error"
                 /\ t \in Entries => Ack[t]
  BY <1>1, <1>6, <1>7, <1>8, <1>9 DEF Answer
<1>13. ASSUME NEW d \in Commands, NEW t \in Targets, d # c
       PROVE  fate'[d][t] = fate[d][t] /\ ack'[d][t] = ack[d][t]
  BY <1>6, <1>7, <1>8, <1>13
<1>14. pending' = pending \cup {r \in posted : Wants(r.target)}
  BY <1>3, <1>4, <1>5 DEF Wants
<1>15. TakenAs(c, posted)
  BY <1>4, <1>5, <1>7, <1>8, <1>11, <1>12, <1>13, <1>14 DEF TakenAs
<1> QED BY <1>15 DEF c, m

\* A raw request: at most one is out.
LEMMA RawTaken ==
  ASSUME BridgeInv, inbox # <<>>, TakeRaw(Head(inbox))
  PROVE  \E new : TakenAs(Head(inbox).cmd, new)
<1> USE DEF BridgeInv
<1> DEFINE m == Head(inbox)
           c == m.cmd
<1>1. c \in Commands /\ Fresh(c)
  BY HeadFresh DEF Letter
<1>2. Raw \in Targets /\ Raw \notin Entries
  BY EntriesFacts DEF Targets
<1>3. pending' = pending
  BY DEF TakeRaw
<1>4. CASE /\ waiting' = waiting \cup {[req |-> nextReq, cmd |-> m.cmd, target |-> Raw]}
           /\ nextReq' = nextReq + 1
           /\ fate' = [fate EXCEPT ![m.cmd][Raw] = "waiting"]
           /\ UNCHANGED <<ack, mqtt>>
  <2> DEFINE r == [req |-> nextReq, cmd |-> c, target |-> Raw]
  <2>1. r \in Request
    BY <1>1, <1>2 DEF Request, TypeOK
  <2>2. nextReq' \in Nat /\ nextReq <= nextReq /\ nextReq <= nextReq' /\ nextReq < nextReq'
    BY <1>4 DEF TypeOK
  <2>3. r.req = nextReq /\ r.cmd = c /\ r.target = Raw
    OBVIOUS
  <2> HIDE DEF r, c
  <2>4. /\ fate' \in [Commands -> [Targets -> Fates]]
        /\ fate'[c][Raw] = "waiting"
        /\ \A d \in Commands, t \in Targets : d # c => fate'[d][t] = fate[d][t]
    BY <1>1, <1>2, <1>4 DEF TypeOK, Fates, c
  <2>5. ack' = ack /\ mqtt' = mqtt /\ ack \in [Commands -> [Targets -> Verdicts]] /\ mqtt \in BOOLEAN
    BY <1>4 DEF TypeOK
  <2>6. \A t \in Targets : ack'[c][t] = "none"
    BY <1>1, <2>5 DEF Fresh
  <2>7. waiting' = waiting \cup {r} /\ pending' = pending \cup {q \in {r} : Wants(q.target)}
    BY <1>2, <1>3, <1>4, <2>3 DEF r, c, Wants
  <2>8. /\ {r} \subseteq Request
        /\ \A q \in {r} :
             /\ q.cmd = c /\ nextReq <= q.req /\ q.req < nextReq'
             /\ fate'[c][q.target] = "waiting" /\ ack'[c][q.target] = "none"
             /\ modbus \/ q.target = Raw
        /\ \A q, s \in {r} : q.req = s.req \/ q.target = s.target => q = s
    BY <1>2, <2>1, <2>2, <2>3, <2>4, <2>6
  <2>9. /\ ack' \in [Commands -> [Targets -> Verdicts]]
        /\ mqtt' \in BOOLEAN /\ (alive => mqtt' = mqtt)
        /\ \A d \in Commands, t \in Targets :
             d # c => fate'[d][t] = fate[d][t] /\ ack'[d][t] = ack[d][t]
    BY <2>4, <2>5
  <2> HIDE DEF r
  <2>10. TakenAs(c, {r})
    BY <2>2, <2>4, <2>6, <2>7, <2>8, <2>9 DEF TakenAs
  <2> QED BY <2>10 DEF c
<1>5. CASE /\ fate' = [fate EXCEPT ![m.cmd][Raw] = "error"]
           /\ Tell({Told(m.cmd, Raw, "error")})
           /\ UNCHANGED <<waiting, nextReq>>
  <2> DEFINE ms == {Told(c, Raw, "error")}
             told(d, t) == \E x \in ms : x.cmd = d /\ x.target = t
  <2>1. /\ \A x \in ms : x.status = "error"
        /\ \A d, t : told(d, t) <=> d = c /\ t = Raw
    BY DEF Told
  <2>2. Tell(ms)
    BY <1>5
  <2> HIDE DEF ms, told, c
  <2>3. /\ ack' \in [Commands -> [Targets -> Verdicts]]
        /\ mqtt' \in BOOLEAN /\ (alive => mqtt' = mqtt)
        /\ \A d \in Commands, t \in Targets :
             ack'[d][t] = IF told(d, t) THEN Answer(ack[d][t], "error") ELSE ack[d][t]
    BY <2>1, <2>2, TellSays DEF Results, told
  <2>4. /\ fate' \in [Commands -> [Targets -> Fates]]
        /\ fate'[c][Raw] = "error"
        /\ \A d \in Commands, t \in Targets : d # c => fate'[d][t] = fate[d][t]
    BY <1>1, <1>2, <1>5 DEF TypeOK, Fates, c
  <2>5. ASSUME NEW t \in Targets
        PROVE  \/ ack'[c][t] = "none"
               \/ /\ ack'[c][t] \in {"error", "dropped"} /\ fate'[c][t] = "error"
                  /\ t \in Entries => Ack[t]
    <3>1. ack[c][t] = "none"
      BY <1>1 DEF Fresh
    <3> QED BY <1>1, <1>2, <2>1, <2>3, <2>4, <3>1 DEF Answer
  <2>6. \A d \in Commands, t \in Targets : d # c => ack'[d][t] = ack[d][t]
    BY <2>1, <2>3
  <2>7. /\ waiting' = waiting \cup {} /\ nextReq' = nextReq /\ nextReq \in Nat
        /\ pending' = pending \cup {q \in {} : Wants(q.target)}
    BY <1>3, <1>5 DEF TypeOK
  <2>8. TakenAs(c, {})
    BY <2>3, <2>4, <2>5, <2>6, <2>7 DEF TakenAs
  <2> QED BY <2>8 DEF c
<1> QED BY <1>4, <1>5 DEF TakeRaw

LEMMA LongTaken ==
  ASSUME BridgeInv, inbox # <<>>, IgnoreLong
  PROVE  \E new : TakenAs(Head(inbox).cmd, new)
<1> USE DEF BridgeInv
<1> DEFINE c == Head(inbox).cmd
<1>1. c \in Commands /\ Fresh(c)
  BY HeadFresh DEF Letter
<1> HIDE DEF c
<1>2. \A t \in Targets : ack[c][t] = "none"
  BY <1>1 DEF Fresh
<1>3. TakenAs(c, {})
  BY <1>2 DEF TakenAs, IgnoreLong, TypeOK
<1> QED BY <1>3 DEF c

-----------------------------------------------------------------------------
(***************************************************************************)
(* The invariant holds at the start, and every action keeps it.            *)
(***************************************************************************)
LEMMA InitHolds == Init => BridgeInv
<1> SUFFICES ASSUME Init PROVE BridgeInv
  OBVIOUS
<1> USE DEF Init
<1>1. /\ fate \in [Commands -> [Targets -> Fates]] /\ ack \in [Commands -> [Targets -> Verdicts]]
      /\ \A c \in Commands, t \in Targets : fate[c][t] = "none" /\ ack[c][t] = "none"
  BY DEF Fates, Verdicts
<1>2. issued \in 0..MaxCmd
  BY BridgeAssumption
<1>3. chan \in [Inputs -> [published : BOOLEAN, value : Values, at : {0}]]
  BY DEF Unpublished, Values
<1>4. device \in [Inputs -> Values] /\ held \in [Inputs -> Values \cup {NotAvailable}]
  BY DEF Values
<1>5. inbox \in Seq(Letter) /\ Len(inbox) = 0
  OBVIOUS
<1>6. TypeOK
  BY <1>1, <1>2, <1>3, <1>4, <1>5 DEF TypeOK
<1>7. Tracked
  <2>1. \A c \in Commands : Fresh(c)
    BY <1>1 DEF Fresh
  <2>2. 1..Len(inbox) = {}
    BY <1>5
  <2> QED BY <2>1, <2>2 DEF Tracked, Numbered, Waits, InboxFresh
<1>8. AckTrue
  BY <1>1 DEF AckTrue, Results
<1>9. PendingMatches /\ NoStaleWrite
  BY DEF PendingMatches, NoStaleWrite
<1> QED BY <1>6, <1>7, <1>8, <1>9 DEF BridgeInv

\* What hangs on the requests and on what was told about them.
books == <<waiting, nextReq, pending, fate, ack>>

LEMMA BooksKept ==
  ASSUME BridgeInv, UNCHANGED books
  PROVE  Numbered' /\ Waits' /\ AckTrue' /\ PendingMatches' /\ (\A c : Fresh(c)' = Fresh(c))
BY DEF BridgeInv, Tracked, books, Numbered, Waits, AckTrue, PendingMatches, Fresh

LEMMA InboxKept ==
  ASSUME BridgeInv, UNCHANGED <<books, inbox, issued>>
  PROVE  Tracked' /\ AckTrue' /\ PendingMatches'
<1>1. Numbered' /\ Waits' /\ AckTrue' /\ PendingMatches'
  BY BooksKept
<1>2. InboxFresh'
  BY DEF BridgeInv, Tracked, books, InboxFresh, Fresh
<1> QED BY <1>1, <1>2 DEF Tracked

\* The inbox is cut short: a lost session, or a new one.
LEMMA InboxCut ==
  ASSUME BridgeInv, UNCHANGED <<books, issued>>,
         NEW n \in 0..Len(inbox), inbox' = SubSeq(inbox, 1, n)
  PROVE  inbox' \in Seq(Letter) /\ Tracked' /\ AckTrue' /\ PendingMatches'
<1> USE DEF BridgeInv, Tracked
<1>1. inbox \in Seq(Letter) /\ Len(inbox) \in Nat /\ \A k \in 1..Len(inbox) : inbox[k] \in Letter
  BY DEF TypeOK
<1>2. n \in Int /\ \A k \in 1..n : k \in 1..Len(inbox)
  BY <1>1
<1>3. /\ inbox' \in Seq(Letter) /\ Len(inbox') = n
      /\ \A k \in 1..n : inbox'[k] = inbox[k]
  <2>1. /\ SubSeq(inbox, 1, n) \in Seq(Letter)
        /\ Len(SubSeq(inbox, 1, n)) = IF 1 <= n THEN n - 1 + 1 ELSE 0
        /\ \A k \in 1..n - 1 + 1 : SubSeq(inbox, 1, n)[k] = inbox[1 + k - 1]
    BY <1>1, <1>2, SubSeqProperties
  <2> QED BY <1>2, <2>1
<1>4. Numbered' /\ Waits' /\ AckTrue' /\ PendingMatches' /\ (\A c : Fresh(c)' = Fresh(c))
  BY BooksKept
<1>5. InboxFresh'
  <2>1. ASSUME NEW k \in 1..Len(inbox') PROVE (inbox[k].cmd <= issued /\ Fresh(inbox[k].cmd))'
    <3>1. k \in 1..Len(inbox) /\ inbox'[k] = inbox[k]
      BY <1>2, <1>3
    <3>2. inbox[k].cmd <= issued /\ Fresh(inbox[k].cmd)
      BY <3>1 DEF InboxFresh
    <3> QED BY <3>1, <3>2 DEF books, Fresh
  <2>2. ASSUME NEW j \in 1..Len(inbox'), NEW k \in 1..Len(inbox'), j < k
        PROVE  inbox'[j].cmd < inbox'[k].cmd
    BY <2>2, <1>2, <1>3 DEF InboxFresh
  <2>3. \A c \in Commands : c > issued' => Fresh(c)'
    BY <1>4 DEF InboxFresh
  <2> QED BY <2>1, <2>2, <2>3 DEF InboxFresh
<1> QED BY <1>3, <1>4, <1>5

\* A command goes to the end of the inbox, the last one published.
LEMMA InboxGrown ==
  ASSUME BridgeInv, UNCHANGED books, NEW topic \in Topics, issued < MaxCmd,
         issued' = issued + 1, inbox' = Append(inbox, [cmd |-> issued + 1, topic |-> topic])
  PROVE  /\ inbox' \in Seq(Letter) /\ issued' \in 0..MaxCmd
         /\ Tracked' /\ AckTrue' /\ PendingMatches'
<1> USE DEF BridgeInv, Tracked
<1> DEFINE m == [cmd |-> issued + 1, topic |-> topic]
<1>1. issued + 1 \in Commands /\ issued' \in 0..MaxCmd /\ issued \in Nat /\ MaxCmd \in Nat
  BY BridgeAssumption DEF TypeOK, Commands
<1>2. m \in Letter /\ m.cmd = issued + 1
  BY <1>1 DEF Letter
<1> HIDE DEF m
<1>3. inbox \in Seq(Letter) /\ Len(inbox) \in Nat /\ \A k \in 1..Len(inbox) : inbox[k] \in Letter
  BY DEF TypeOK
<1>4. /\ inbox' \in Seq(Letter) /\ Len(inbox') = Len(inbox) + 1
      /\ \A k \in 1..Len(inbox) : inbox'[k] = inbox[k]
      /\ inbox'[Len(inbox) + 1] = m
  <2>1. inbox' = Append(inbox, m)
    BY DEF m
  <2> QED BY <1>2, <1>3, <2>1, AppendProperties
<1>5. Numbered' /\ Waits' /\ AckTrue' /\ PendingMatches' /\ (\A c : Fresh(c)' = Fresh(c))
  BY BooksKept
<1>6. Fresh(issued + 1)
  BY <1>1 DEF InboxFresh
<1>7. \A k \in 1..Len(inbox') : k \in 1..Len(inbox) \/ k = Len(inbox) + 1
  BY <1>3, <1>4
<1>8. \A k \in 1..Len(inbox) : inbox[k].cmd \in Int /\ inbox[k].cmd <= issued
  BY <1>3 DEF InboxFresh, Letter, Commands
<1>9. InboxFresh'
  <2>1. ASSUME NEW k \in 1..Len(inbox') PROVE (inbox[k].cmd <= issued /\ Fresh(inbox[k].cmd))'
    <3>1. CASE k \in 1..Len(inbox)
      <4>1. inbox'[k].cmd = inbox[k].cmd /\ Fresh(inbox[k].cmd)
        BY <3>1, <1>4 DEF InboxFresh
      <4>2. inbox[k].cmd <= issued'
        BY <3>1, <1>1, <1>8
      <4> QED BY <4>1, <4>2 DEF books, Fresh
    <3>2. CASE k = Len(inbox) + 1
      <4>1. inbox'[k].cmd = issued + 1 /\ issued + 1 <= issued'
        BY <3>2, <1>1, <1>2, <1>4
      <4> QED BY <4>1, <1>6 DEF books, Fresh
    <3> QED BY <3>1, <3>2, <1>7
  <2>2. ASSUME NEW j \in 1..Len(inbox'), NEW k \in 1..Len(inbox'), j < k
        PROVE  inbox'[j].cmd < inbox'[k].cmd
    <3>1. j \in 1..Len(inbox)
      BY <2>2, <1>3, <1>4
    <3>2. CASE k \in 1..Len(inbox)
      BY <2>2, <3>1, <3>2, <1>4 DEF InboxFresh
    <3>3. CASE k = Len(inbox) + 1
      <4>1. inbox'[k].cmd = issued + 1 /\ inbox'[j].cmd = inbox[j].cmd
        BY <3>1, <3>3, <1>2, <1>4
      <4>2. inbox[j].cmd \in Int /\ inbox[j].cmd <= issued
        BY <3>1, <1>8
      <4> HIDE DEF BridgeInv
      <4> QED BY <4>1, <4>2, <1>1
    <3> QED BY <3>2, <3>3, <1>7
  <2>3. ASSUME NEW c \in Commands, c > issued' PROVE Fresh(c)'
    <3>1. c > issued
      BY <2>3, <1>1 DEF Commands
    <3> QED BY <3>1, <1>5 DEF InboxFresh
  <2> QED BY <2>1, <2>2, <2>3 DEF InboxFresh
<1> QED BY <1>1, <1>4, <1>5, <1>9

\* Requests reported, one or all, with the link up or going down.
LEMMA ReportedKeeps ==
  ASSUME BridgeInv, NEW rs \in SUBSET waiting, NEW status \in Results, Reported(rs, status),
         modbus' \in BOOLEAN, due' \subseteq Once,
         modbus' = modbus \/ rs = waiting,
         UNCHANGED <<nextReq, alive, inbox, issued, chan, device, held, calm>>
  PROVE  BridgeInv'
<1>1. /\ waiting' = waiting \ rs
      /\ fate' \in [Commands -> [Targets -> Fates]]
      /\ ack' \in [Commands -> [Targets -> Verdicts]]
      /\ mqtt' \in BOOLEAN
      /\ PendingMatches'
  BY ReportedSays
<1>2. Tracked' /\ AckTrue'
  BY ReportedTracked
<1>3. TypeOK'
  BY <1>1 DEF BridgeInv, TypeOK
<1>4. NoStaleWrite'
  BY <1>1 DEF BridgeInv, NoStaleWrite
<1> QED BY <1>1, <1>2, <1>3, <1>4 DEF BridgeInv

LEMMA PollKeeps ==
  ASSUME BridgeInv, NEW i \in Inputs, PollAnswered(i)
  PROVE  BridgeInv'
<1>1. /\ UNCHANGED <<books, inbox, issued>> /\ UNCHANGED <<modbus, alive, device, calm>>
      /\ due' = due \ {i}
  BY DEF PollAnswered, books, link
<1>2. PICK send \in BOOLEAN :
        /\ chan' = IF send THEN [chan EXCEPT ![i] = Record(device[i], 0)] ELSE chan
        /\ held' = IF send /\ Heard THEN [held EXCEPT ![i] = device[i]] ELSE held
        /\ Spoken(IF send THEN {i} ELSE {})
  <2>1. Decide(OnChange, chan[i], device[i], 0) \in BOOLEAN
    BY DEF Decide, BridgeInv, TypeOK
  <2> QED BY <2>1 DEF PollAnswered
<1>3. mqtt' \in BOOLEAN
  BY <1>2, SpokenType DEF BridgeInv, TypeOK
<1>4. /\ chan' \in [Inputs -> [published : BOOLEAN, value : Values, at : {0}]]
      /\ held' \in [Inputs -> Values \cup {NotAvailable}]
  <2>1. device[i] \in Values
    BY DEF BridgeInv, TypeOK
  <2> QED BY <2>1, <1>2 DEF BridgeInv, TypeOK, Record
<1>5. TypeOK'
  BY <1>1, <1>3, <1>4 DEF BridgeInv, TypeOK, books
<1>6. Tracked' /\ AckTrue' /\ PendingMatches'
  BY <1>1, InboxKept
<1>7. NoStaleWrite'
  BY <1>1 DEF BridgeInv, NoStaleWrite, books
<1> QED BY <1>5, <1>6, <1>7 DEF BridgeInv

LEMMA ReadKeeps ==
  ASSUME BridgeInv, MqttRead
  PROVE  BridgeInv'
<1>1. /\ inbox # <<>> /\ inbox' = Tail(inbox)
      /\ UNCHANGED <<modbus, alive, issued, readings, calm>>
  BY DEF MqttRead
<1>2. PICK new : TakenAs(Head(inbox).cmd, new)
  <2>1. TakeWrite(Head(inbox)) \/ TakeRaw(Head(inbox)) \/ IgnoreLong
    BY DEF MqttRead
  <2> QED BY <2>1, <1>1, WriteTaken, RawTaken, LongTaken
<1>3. Tracked' /\ AckTrue' /\ PendingMatches' /\ NoStaleWrite'
  BY <1>1, <1>2, TakenTracked
<1>4. Tail(inbox) \in Seq(Letter)
  BY <1>1, HeadFresh DEF BridgeInv
<1>5. /\ waiting' \subseteq Request /\ nextReq' \in Nat /\ mqtt' \in BOOLEAN
      /\ fate' \in [Commands -> [Targets -> Fates]]
      /\ ack' \in [Commands -> [Targets -> Verdicts]]
  BY <1>2 DEF TakenAs, BridgeInv, TypeOK
<1>6. TypeOK'
  BY <1>1, <1>4, <1>5 DEF BridgeInv, TypeOK, readings
<1> QED BY <1>3, <1>6 DEF BridgeInv

LEMMA InboxCutKeeps ==
  ASSUME BridgeInv, NEW n \in 0..Len(inbox), inbox' = SubSeq(inbox, 1, n),
         mqtt' \in BOOLEAN, alive' \in BOOLEAN, chan' \in {chan, [i \in Inputs |-> Unpublished]},
         UNCHANGED <<link, issued, due, device, held, fate, ack, calm>>
  PROVE  BridgeInv'
<1>1. UNCHANGED books
  BY DEF books, link
<1>2. inbox' \in Seq(Letter) /\ Tracked' /\ AckTrue' /\ PendingMatches'
  BY <1>1, InboxCut
<1>3. chan' \in [Inputs -> [published : BOOLEAN, value : Values, at : {0}]]
  <2>1. chan \in [Inputs -> [published : BOOLEAN, value : Values, at : {0}]]
    BY DEF BridgeInv, TypeOK
  <2>2. Unpublished \in [published : BOOLEAN, value : Values, at : {0}]
    BY DEF Unpublished, Values
  <2> HIDE DEF Unpublished
  <2> QED BY <2>1, <2>2
<1>4. TypeOK'
  BY <1>2, <1>3 DEF BridgeInv, TypeOK, link
<1>5. NoStaleWrite'
  BY DEF BridgeInv, NoStaleWrite, link
<1> QED BY <1>2, <1>4, <1>5 DEF BridgeInv

LEMMA StepHolds == BridgeInv /\ [Next]_vars => BridgeInv'
<1> SUFFICES ASSUME BridgeInv, [Next]_vars PROVE BridgeInv'
  OBVIOUS
<1>1. ASSUME NEW r \in waiting, NEW status \in {"ok", "error"}, Report(r, status)
      PROVE  BridgeInv'
  <2>1. {r} \in SUBSET waiting /\ status \in Results /\ Reported({r}, status)
    BY <1>1 DEF Report, Results
  <2>2. /\ modbus' = modbus /\ modbus' \in BOOLEAN /\ due' \subseteq Once
        /\ UNCHANGED <<nextReq, alive, inbox, issued, chan, device, held, calm>>
    BY <1>1 DEF Report, readings, BridgeInv, TypeOK
  <2> QED BY <2>1, <2>2, ReportedKeeps
<1>2. ASSUME NEW i \in Inputs, PollAnswered(i)
      PROVE  BridgeInv'
  BY <1>2, PollKeeps
<1>3. ASSUME LinkLost
      PROVE  BridgeInv'
  <2>1. waiting \in SUBSET waiting /\ "error" \in Results /\ Reported(waiting, "error")
    BY <1>3 DEF LinkLost, Results
  <2>2. /\ modbus' \in BOOLEAN /\ due' \subseteq Once
        /\ UNCHANGED <<nextReq, alive, inbox, issued, chan, device, held, calm>>
    BY <1>3 DEF LinkLost
  <2> QED BY <2>1, <2>2, ReportedKeeps
<1>4. ASSUME UNCHANGED <<books, inbox, issued>>, UNCHANGED <<mqtt, alive, chan, held>>,
             modbus' \in BOOLEAN, modbus => modbus', calm' \in BOOLEAN,
             due' \subseteq Once, device' \in [Inputs -> Values]
      PROVE  BridgeInv'
  <2>1. Tracked' /\ AckTrue' /\ PendingMatches'
    BY <1>4, InboxKept
  <2>2. TypeOK'
    BY <1>4 DEF BridgeInv, TypeOK, books
  <2>3. NoStaleWrite'
    BY <1>4 DEF BridgeInv, NoStaleWrite, books
  <2> QED BY <2>1, <2>2, <2>3 DEF BridgeInv
<1>5. ASSUME NEW inputs \in SUBSET Once, SlaveBack(inputs)
      PROVE  BridgeInv'
  BY <1>4, <1>5 DEF SlaveBack, books, link, session, BridgeInv, TypeOK
<1>6. ASSUME ModbusReconnect
      PROVE  BridgeInv'
  BY <1>4, <1>6 DEF ModbusReconnect, books, session, readings, BridgeInv, TypeOK
<1>7. ASSUME NEW topic \in Topics, Command(topic)
      PROVE  BridgeInv'
  <2>1. UNCHANGED books
    BY <1>7 DEF Command, books, link
  <2>2. /\ inbox' \in Seq(Letter) /\ issued' \in 0..MaxCmd
        /\ Tracked' /\ AckTrue' /\ PendingMatches'
    BY <1>7, <2>1, InboxGrown DEF Command
  <2>3. TypeOK'
    BY <1>7, <2>2 DEF Command, link, readings, BridgeInv, TypeOK
  <2>4. NoStaleWrite'
    BY <1>7 DEF Command, link, BridgeInv, NoStaleWrite
  <2> QED BY <2>2, <2>3, <2>4 DEF BridgeInv
<1>8. CASE MqttRead
  BY <1>8, ReadKeeps
<1>9. CASE SessionLost
  <2>1. PICK n \in 0..Len(inbox) : inbox' = SubSeq(inbox, 1, n)
    BY <1>9 DEF SessionLost
  <2>2. /\ mqtt' \in BOOLEAN /\ alive' \in BOOLEAN /\ chan' = chan
        /\ UNCHANGED <<link, issued, due, device, held, fate, ack, calm>>
    BY <1>9 DEF SessionLost, readings, BridgeInv, TypeOK
  <2> QED BY <2>1, <2>2, InboxCutKeeps
<1>10. 0 \in 0..Len(inbox) /\ SubSeq(inbox, 1, 0) = <<>>
  <2>1. inbox \in Seq(Letter)
    BY DEF BridgeInv, TypeOK
  <2> QED BY <2>1, SubSeqEmpty
<1>11. CASE NoticeSessionLost
  <2>1. /\ mqtt' \in BOOLEAN /\ alive' \in BOOLEAN /\ chan' = chan /\ inbox' = <<>>
        /\ UNCHANGED <<link, issued, due, device, held, fate, ack, calm>>
    BY <1>11 DEF NoticeSessionLost, readings, BridgeInv, TypeOK
  <2> QED BY <2>1, <1>10, InboxCutKeeps
<1>12. CASE MqttReconnect
  <2>1. /\ mqtt' \in BOOLEAN /\ alive' \in BOOLEAN /\ inbox' = <<>>
        /\ chan' = [i \in Inputs |-> Unpublished]
        /\ UNCHANGED <<link, issued, due, device, held, fate, ack, calm>>
    BY <1>12 DEF MqttReconnect
  <2> QED BY <2>1, <1>10, InboxCutKeeps
<1>13. ASSUME NEW i \in Polled, DeviceChanges(i)
       PROVE  BridgeInv'
  <2>1. device' \in [Inputs -> Values]
    <3>1. i \in Inputs /\ device \in [Inputs -> Values]
      BY DEF Inputs, BridgeInv, TypeOK
    <3>2. device[i] \in Values /\ device' = [device EXCEPT ![i] = 1 - device[i]]
      BY <1>13, <3>1 DEF DeviceChanges
    <3>3. 1 - device[i] \in Values
      BY <3>2 DEF Values
    <3> QED BY <3>1, <3>2, <3>3
  <2> QED BY <2>1, <1>4, <1>13 DEF DeviceChanges, books, link, session, BridgeInv, TypeOK
<1>14. CASE CalmDown
  BY <1>4, <1>14 DEF CalmDown, books, link, session, readings, BridgeInv, TypeOK
<1>15. CASE UNCHANGED vars
  BY <1>4, <1>15 DEF vars, books, link, session, readings, BridgeInv, TypeOK
<1> QED BY <1>1, <1>2, <1>3, <1>5, <1>6, <1>7, <1>8, <1>9, <1>11, <1>12, <1>13, <1>14, <1>15 DEF Next

\* Every state of the bridge satisfies the invariant.
LEMMA InvHolds == Spec => []BridgeInv
<1>1. Init => BridgeInv
  BY InitHolds
<1>2. BridgeInv /\ [Next]_vars => BridgeInv'
  BY StepHolds
<1> QED BY <1>1, <1>2, PTL DEF Spec

\* The bridge's variables keep their types, whatever device and broker do.
THEOREM TypeCorrect == Spec => []TypeOK
<1>1. BridgeInv => TypeOK
  BY DEF BridgeInv
<1> QED BY <1>1, InvHolds, PTL

\* mqtt_write_result() and raw_reply_callback() tell the broker of a command
\* once at most, what became of it, and only where an ack is configured:
\* whether it was refused on arrival, answered, or reported by
\* modbusmq_reset_queue().
THEOREM AckTrueProved == Spec => []AckTrue
<1>1. BridgeInv => AckTrue
  BY DEF BridgeInv
<1> QED BY <1>1, InvHolds, PTL

\* GI.pending and the library's queue agree on the writes that want an ack,
\* for any burst of commands and however requests leave the queue.
THEOREM PendingMatchesProved == Spec => []PendingMatches
<1>1. BridgeInv => PendingMatches
  BY DEF BridgeInv
<1> QED BY <1>1, InvHolds, PTL

\* modbus_write_post() queues no write while the device is away, and the loop
\* leaves none behind when it closes the link.
THEOREM NoStaleWriteProved == Spec => []NoStaleWrite
<1>1. BridgeInv => NoStaleWrite
  BY DEF BridgeInv
<1> QED BY <1>1, InvHolds, PTL

-----------------------------------------------------------------------------
(***************************************************************************)
(* What the broker retains.                                                *)
(***************************************************************************)

\* Nobody hears the bridge, or the same session does, and no channel moved.
LEMMA HearingKept ==
  ASSUME BelievedIsHeld, Heard' => Heard, UNCHANGED <<chan, held>>
  PROVE  BelievedIsHeld'
BY DEF BelievedIsHeld

LEMMA PollBelieved ==
  ASSUME TypeOK, BelievedIsHeld, NEW i \in Inputs, PollAnswered(i)
  PROVE  BelievedIsHeld'
<1>1. PICK send \in BOOLEAN :
        /\ chan' = IF send THEN [chan EXCEPT ![i] = Record(device[i], 0)] ELSE chan
        /\ held' = IF send /\ Heard THEN [held EXCEPT ![i] = device[i]] ELSE held
        /\ Spoken(IF send THEN {i} ELSE {})
  <2>1. Decide(OnChange, chan[i], device[i], 0) \in BOOLEAN
    BY DEF Decide, TypeOK
  <2> QED BY <2>1 DEF PollAnswered
<1>2. Heard' => Heard
  <2>1. alive' = alive
    BY DEF PollAnswered
  <2>2. alive => mqtt' = mqtt
    BY <1>1, SpokenType DEF TypeOK
  <2> QED BY <2>1, <2>2 DEF Heard
<1>3. ASSUME NEW j \in Inputs, Heard', chan'[j].published
      PROVE  held'[j] = chan'[j].value
  <2>1. Heard
    BY <1>2, <1>3
  <2>2. CASE send /\ j = i
    BY <2>1, <2>2, <1>1 DEF TypeOK, Record
  <2>3. CASE ~send \/ j # i
    <3>1. chan'[j] = chan[j] /\ held'[j] = held[j]
      BY <2>3, <1>1 DEF TypeOK
    <3> QED BY <2>1, <3>1, <1>3 DEF BelievedIsHeld
  <2> QED BY <2>2, <2>3
<1> QED BY <1>3 DEF BelievedIsHeld

\* modbusmq_channel_publish() remembers a value as published, sent or not;
\* as mqtt_try_reconnect() forgets all of them, a channel never holds a value
\* back that the broker of a living session has not got.
THEOREM BelievedIsHeldProved == Spec => []BelievedIsHeld
<1>1. Init => BelievedIsHeld
  BY DEF Init, BelievedIsHeld, Unpublished
<1>2. BridgeInv /\ BridgeInv' /\ BelievedIsHeld /\ [Next]_vars => BelievedIsHeld'
  <2> SUFFICES ASSUME BridgeInv, BridgeInv', BelievedIsHeld, [Next]_vars
               PROVE  BelievedIsHeld'
    OBVIOUS
  <2> USE DEF readings, session
  <2>1. mqtt \in BOOLEAN /\ TypeOK
    BY DEF BridgeInv, TypeOK
  <2>2. ASSUME NEW r \in waiting, NEW status \in {"ok", "error"}, Report(r, status)
        PROVE  BelievedIsHeld'
    <3>1. alive => mqtt' = mqtt
      BY <2>1, <2>2, SpokenType DEF Report, Reported, Tell
    <3>2. Heard' => Heard
      BY <2>2, <3>1 DEF Report, Heard
    <3> QED BY <2>2, <3>2, HearingKept DEF Report
  <2>3. ASSUME NEW i \in Inputs, PollAnswered(i)
        PROVE  BelievedIsHeld'
    BY <2>1, <2>3, PollBelieved
  <2>4. CASE LinkLost
    <3>1. alive => mqtt' = mqtt
      BY <2>1, <2>4, SpokenType DEF LinkLost, Reported, Tell
    <3>2. Heard' => Heard
      BY <2>4, <3>1 DEF LinkLost, Heard
    <3>3. UNCHANGED <<chan, held>>
      BY <2>4 DEF LinkLost
    <3> QED BY <3>2, <3>3, HearingKept
  <2>5. CASE MqttRead
    <3>1. PICK new : TakenAs(Head(inbox).cmd, new)
      BY <2>5, WriteTaken, RawTaken, LongTaken DEF MqttRead
    <3>2. Heard' => Heard
      BY <2>5, <3>1 DEF MqttRead, Heard, TakenAs
    <3> QED BY <2>5, <3>2, HearingKept DEF MqttRead
  <2>6. CASE MqttReconnect
    BY <2>6 DEF MqttReconnect, BelievedIsHeld, Unpublished
  <2>7. ASSUME Heard' => Heard, UNCHANGED <<chan, held>>
        PROVE  BelievedIsHeld'
    BY <2>7, HearingKept
  <2>8. ASSUME NEW inputs \in SUBSET Once, SlaveBack(inputs)
        PROVE  BelievedIsHeld'
    BY <2>7, <2>8 DEF SlaveBack, Heard
  <2>9. CASE ModbusReconnect
    BY <2>7, <2>9 DEF ModbusReconnect, Heard
  <2>10. ASSUME NEW topic \in Topics, Command(topic)
         PROVE  BelievedIsHeld'
    BY <2>7, <2>10 DEF Command, Heard
  <2>11. CASE SessionLost
    BY <2>7, <2>11 DEF SessionLost, Heard
  <2>12. CASE NoticeSessionLost
    BY <2>7, <2>12 DEF NoticeSessionLost, Heard
  <2>13. ASSUME NEW i \in Polled, DeviceChanges(i)
         PROVE  BelievedIsHeld'
    BY <2>7, <2>13 DEF DeviceChanges, Heard
  <2>14. CASE CalmDown
    BY <2>7, <2>14 DEF CalmDown, Heard
  <2>15. CASE UNCHANGED vars
    BY <2>7, <2>15 DEF vars, Heard
  <2> QED BY <2>2, <2>3, <2>4, <2>5, <2>6, <2>8, <2>9, <2>10, <2>11, <2>12, <2>13, <2>14, <2>15 DEF Next
<1> QED BY <1>1, <1>2, InvHolds, PTL DEF Spec
=============================================================================
