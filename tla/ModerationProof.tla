--------------------------- MODULE ModerationProof ---------------------------
(***************************************************************************)
(* Proofs about Moderation, for any ratings, messages and likeness of ids  *)
(* and any number of crashes: the broker and the process hold each message *)
(* once, a verdict belongs to a rating whose id is alike, and a rating     *)
(* stays pending only on its way to a verdict or for one of the two known  *)
(* reasons.                                                                *)
(***************************************************************************)
EXTENDS Moderation, SequenceTheorems, TLAPS

\* Where each message is: the parts of the type invariant, with what makes no
\* message be in two places said of the queue and the buffer one by one.
Places ==
    /\ queue \in Seq(Messages) /\ IsInjective(queue)
    /\ buffer \in Seq(Messages) /\ IsInjective(buffer)
    /\ ToSet(queue) \cap ToSet(buffer) = {}
    /\ job \in Ratings \cup {None}
    /\ job \notin ToSet(queue) \cup ToSet(buffer)
    /\ proc # "consuming" => buffer = <<>> /\ job = None

Types ==
    /\ step \in {"none", "checking", "updating"}
    /\ (step = "none") = (job = None)
    /\ hits \subseteq Ratings
    /\ proc \in {"waiting", "consuming", "down"}
    /\ status \in [Ratings -> {"absent", "pending", "Approved", "Denied"}]
    /\ visible \in [Ratings -> {"absent", "pending", "Approved", "Denied"}]
    /\ crashes \in 0 .. MaxCrashes
    /\ lost \subseteq Messages
    /\ skipped \subseteq Ratings

\* What is found is alike to the message in the callback.
HitsInv == hits # {} => step = "updating" /\ hits \subseteq Alike[job]

\* While the ratings found are updated, the message's own rating is still among
\* them, was skipped, or is not pending any more.
JobInv ==
    step = "updating" => job \in hits \cup skipped \/ status[job] # "pending"

\* A message that the broker or the process holds is of a rating that exists.
SubmittedInv ==
    \A m \in Ratings : m \in ToSet(queue) \cup Delivered => status[m] # "absent"

MInv ==
    /\ Places /\ Types /\ HitsInv /\ JobInv /\ SubmittedInv
    /\ VerdictsAreOwn /\ PendingIsAccountedFor

----------------------------------------------------------------------------
\* Sequences without repetition

LEMMA SetOfSeq ==
    ASSUME NEW S, NEW s \in Seq(S)
    PROVE  ToSet(s) = {s[i] : i \in 1 .. Len(s)} /\ ToSet(s) \subseteq S
  BY LenProperties DEF ToSet

\* A sequence that is the concatenation of two has no repetition iff neither
\* has and they share no element.
LEMMA ConcatInjective ==
    ASSUME NEW S, NEW s \in Seq(S), NEW t \in Seq(S)
    PROVE  /\ ToSet(s \o t) = ToSet(s) \cup ToSet(t)
           /\ IsInjective(s) /\ IsInjective(t) /\ ToSet(s) \cap ToSet(t) = {}
              => IsInjective(s \o t)
<1> DEFINE u == s \o t
           m == Len(s)
           n == Len(t)
<1>1. /\ m \in Nat /\ n \in Nat /\ u \in Seq(S) /\ Len(u) = m + n
      /\ DOMAIN s = 1 .. m /\ DOMAIN t = 1 .. n /\ DOMAIN u = 1 .. m + n
      /\ \A i \in 1 .. m + n : u[i] = IF i <= m THEN s[i] ELSE t[i - m]
  BY ConcatProperties, LenProperties
<1> HIDE DEF u, m, n
<1>2. \A i \in 1 .. m : i \in 1 .. m + n /\ u[i] = s[i]
  BY <1>1
<1>3. \A i \in 1 .. n : i + m \in 1 .. m + n /\ u[i + m] = t[i]
  BY <1>1
<1>4. \A i \in 1 .. m + n : i \in 1 .. m \/ i - m \in 1 .. n
  BY <1>1
<1>5. ToSet(u) = ToSet(s) \cup ToSet(t)
  <2>1. ASSUME NEW i \in 1 .. m + n PROVE u[i] \in ToSet(s) \cup ToSet(t)
    <3>1. CASE i <= m
      <4>1. i \in DOMAIN s /\ u[i] = s[i]
        BY <1>1, <3>1
      <4> QED BY <4>1 DEF ToSet
    <3>2. CASE ~(i <= m)
      <4>1. i - m \in DOMAIN t /\ u[i] = t[i - m]
        BY <1>1, <1>4, <3>2
      <4> QED BY <4>1 DEF ToSet
    <3> QED BY <3>1, <3>2
  <2>2. ASSUME NEW i \in 1 .. m PROVE s[i] \in ToSet(u)
    BY <1>1, <1>2 DEF ToSet
  <2>3. ASSUME NEW i \in 1 .. n PROVE t[i] \in ToSet(u)
    BY <1>1, <1>3 DEF ToSet
  <2>4. ToSet(u) \subseteq ToSet(s) \cup ToSet(t)
    BY <1>1, <2>1 DEF ToSet
  <2>5. ToSet(s) \subseteq ToSet(u)
    BY <1>1, <2>2 DEF ToSet
  <2>6. ToSet(t) \subseteq ToSet(u)
    BY <1>1, <2>3 DEF ToSet
  <2> QED BY <2>4, <2>5, <2>6
<1>6. ASSUME IsInjective(s), IsInjective(t), ToSet(s) \cap ToSet(t) = {}
      PROVE  IsInjective(u)
  <2> SUFFICES ASSUME NEW i \in 1 .. m + n, NEW j \in 1 .. m + n, u[i] = u[j]
               PROVE  i = j
    BY <1>1 DEF IsInjective
  <2>1. \A k \in 1 .. m : s[k] \in ToSet(s)
    BY <1>1 DEF ToSet
  <2>2. \A k \in 1 .. n : t[k] \in ToSet(t)
    BY <1>1 DEF ToSet
  <2>3. CASE i <= m /\ j <= m
    BY <1>1, <1>6, <2>3 DEF IsInjective
  <2>4. CASE i <= m /\ j > m
    BY <1>1, <1>6, <2>1, <2>2, <2>4
  <2>5. CASE i > m /\ j <= m
    BY <1>1, <1>6, <2>1, <2>2, <2>5
  <2>6. CASE i > m /\ j > m
    <3>1. i - m \in 1 .. n /\ j - m \in 1 .. n /\ t[i - m] = t[j - m]
      BY <1>1, <2>6
    <3>2. i - m = j - m
      BY <1>1, <1>6, <3>1 DEF IsInjective
    <3> QED BY <1>1, <3>2
  <2> QED BY <1>1, <2>3, <2>4, <2>5, <2>6
<1> QED BY <1>5, <1>6 DEF u

\* What a queue holds when a new message arrives.
LEMMA AppendKeepsInjective ==
    ASSUME NEW S, NEW s \in Seq(S), NEW e \in S, IsInjective(s), e \notin ToSet(s)
    PROVE  /\ Append(s, e) \in Seq(S) /\ IsInjective(Append(s, e))
           /\ ToSet(Append(s, e)) = ToSet(s) \cup {e}
<1> DEFINE a == Append(s, e)
           n == Len(s)
<1>1. /\ n \in Nat /\ a \in Seq(S) /\ DOMAIN s = 1 .. n /\ DOMAIN a = 1 .. n + 1
      /\ \A i \in 1 .. n : a[i] = s[i]
      /\ a[n + 1] = e
  BY AppendProperties, LenProperties
<1> HIDE DEF a, n
<1>2. ToSet(a) = ToSet(s) \cup {e}
  <2>1. \A i \in 1 .. n + 1 : i \in 1 .. n \/ i = n + 1
    BY <1>1
  <2>2. \A i \in 1 .. n : i \in 1 .. n + 1
    BY <1>1
  <2>3. n + 1 \in 1 .. n + 1
    BY <1>1
  <2> QED BY <1>1, <2>1, <2>2, <2>3 DEF ToSet
<1>3. IsInjective(a)
  <2>1. \A i \in 1 .. n : s[i] \in ToSet(s)
    BY <1>1 DEF ToSet
  <2>2. \A i \in 1 .. n + 1 : i \in 1 .. n \/ i = n + 1
    BY <1>1
  <2> QED BY <1>1, <2>1, <2>2 DEF IsInjective
<1> QED BY <1>1, <1>2, <1>3 DEF a

\* And when its first one is taken off.
LEMMA TailKeepsInjective ==
    ASSUME NEW S, NEW s \in Seq(S), s # <<>>, IsInjective(s)
    PROVE  /\ Head(s) \in S /\ Tail(s) \in Seq(S) /\ IsInjective(Tail(s))
           /\ Head(s) \notin ToSet(Tail(s))
           /\ ToSet(s) = ToSet(Tail(s)) \cup {Head(s)}
<1> DEFINE t == Tail(s)
           n == Len(s)
<1>1. /\ n \in Nat \ {0} /\ t \in Seq(S) /\ Head(s) \in S /\ Head(s) = s[1]
      /\ DOMAIN s = 1 .. n /\ DOMAIN t = 1 .. n - 1
      /\ \A i \in 1 .. n - 1 : t[i] = s[i + 1]
  BY HeadTailProperties, LenProperties, EmptySeq
<1> HIDE DEF t, n
<1>2. \A i \in 1 .. n - 1 : i + 1 \in 1 .. n /\ i + 1 # 1
  BY <1>1
<1>3. \A i \in 1 .. n : i = 1 \/ (i - 1 \in 1 .. n - 1 /\ t[i - 1] = s[i])
  BY <1>1
<1>4. 1 \in 1 .. n
  BY <1>1
<1>5. ToSet(s) = ToSet(t) \cup {s[1]}
  <2>1. ASSUME NEW i \in 1 .. n PROVE s[i] \in ToSet(t) \cup {s[1]}
    BY <1>1, <1>3 DEF ToSet
  <2>2. ASSUME NEW i \in 1 .. n - 1 PROVE t[i] \in ToSet(s)
    BY <1>1, <1>2 DEF ToSet
  <2>3. s[1] \in ToSet(s)
    BY <1>1, <1>4 DEF ToSet
  <2> QED BY <1>1, <2>1, <2>2, <2>3 DEF ToSet
<1>6. IsInjective(t)
  <2> SUFFICES ASSUME NEW i \in 1 .. n - 1, NEW j \in 1 .. n - 1, t[i] = t[j]
               PROVE  i = j
    BY <1>1 DEF IsInjective
  <2>1. i + 1 = j + 1
    BY <1>1, <1>2 DEF IsInjective
  <2> QED BY <1>1, <2>1
<1>7. s[1] \notin ToSet(t)
  <2>1. ASSUME NEW i \in 1 .. n - 1 PROVE t[i] # s[1]
    BY <1>1, <1>2, <1>4 DEF IsInjective
  <2> QED BY <1>1, <2>1 DEF ToSet
<1> QED BY <1>1, <1>5, <1>6, <1>7 DEF t

LEMMA EmptyInjective ==
    ASSUME NEW S
    PROVE  <<>> \in Seq(S) /\ IsInjective(<<>>) /\ ToSet(<<>>) = {}
<1>1. <<>> \in Seq(S) /\ DOMAIN <<>> = {}
  BY EmptySeq, LenProperties
<1> QED BY <1>1 DEF IsInjective, ToSet

----------------------------------------------------------------------------
\* Where messages are

LEMMA NextPlaces == Places /\ Types /\ [Next]_vars => Places'
<1> SUFFICES ASSUME Places, Types, [Next]_vars PROVE Places'
  OBVIOUS
<1>0. None \notin Messages /\ Ratings \subseteq Messages
  BY ModerationAssumption DEF Messages
<1>1. ASSUME NEW m \in Messages, Submit(m) PROVE Places'
  <2>1. m \notin ToSet(queue) \cup ToSet(buffer) /\ m # job
    BY <1>0, <1>1 DEF Submit, Delivered
  <2>2. /\ queue' \in Seq(Messages) /\ IsInjective(queue')
        /\ ToSet(queue') = ToSet(queue) \cup {m}
    BY <1>1, <2>1, AppendKeepsInjective DEF Submit, Places
  <2> QED BY <1>1, <2>1, <2>2 DEF Submit, Places, Callback_vars
<1>2. CASE Deliver
  <2> DEFINE m == Head(queue)
  <2>1. /\ m \in Messages /\ queue' \in Seq(Messages) /\ IsInjective(queue')
        /\ m \notin ToSet(queue') /\ ToSet(queue) = ToSet(queue') \cup {m}
    BY <1>2, TailKeepsInjective DEF Deliver, Places
  <2>2. m \notin ToSet(buffer)
    BY <2>1 DEF Places
  <2>3. /\ buffer' \in Seq(Messages) /\ IsInjective(buffer')
        /\ ToSet(buffer') = ToSet(buffer) \cup {m}
    BY <1>2, <2>1, <2>2, AppendKeepsInjective DEF Deliver, Places
  <2> HIDE DEF m
  <2> QED BY <1>2, <2>1, <2>2, <2>3 DEF Deliver, Places, Callback_vars
<1>3. CASE Callback
  <2>1. /\ buffer' \in Seq(Messages) /\ IsInjective(buffer')
        /\ job' \notin ToSet(buffer') /\ ToSet(buffer) = ToSet(buffer') \cup {job'}
        /\ job' \in Ratings
    BY <1>3, TailKeepsInjective DEF Callback, Places
  <2> QED BY <1>3, <2>1 DEF Callback, Places
<1>4. CASE CallbackDone
  <2>1. None \notin ToSet(queue) \cup ToSet(buffer)
    BY <1>0, SetOfSeq DEF Places
  <2> QED BY <1>4, <2>1 DEF CallbackDone, Places
<1>5. CASE Down
  <2>1. None \notin ToSet(queue)
    BY <1>0, SetOfSeq DEF Places
  <2> QED BY <1>5, <2>1, EmptyInjective DEF Down, Places
<1>6. CASE RunMain \/ SearchPending \/ UpdateHit \/ Restart \/ Idle
           \/ (\E x \in Ratings : Refresh(x)) \/ UNCHANGED vars
  <2>1. UNCHANGED <<queue, buffer, job>> /\ (proc' # "consuming" => proc # "consuming")
    BY <1>6 DEF RunMain, SearchPending, UpdateHit, Restart, Idle, Refresh, Callback_vars, vars
  <2> QED BY <2>1 DEF Places
<1> QED BY <1>1, <1>2, <1>3, <1>4, <1>5, <1>6
        DEF Next, Moderate, CallbackRaises, Crash

LEMMA NextTypes == Places /\ Types /\ [Next]_vars => Types'
<1> SUFFICES ASSUME Places, Types, [Next]_vars PROVE Types'
  OBVIOUS
<1>0. /\ None \notin Ratings /\ Ratings \subseteq Messages
      /\ Alike \in [Ratings -> SUBSET Ratings] /\ MaxCrashes \in Nat
  BY ModerationAssumption DEF Messages
<1>1. Delivered \subseteq Messages
  BY <1>0, SetOfSeq DEF Delivered, Places
<1>2. ASSUME NEW m \in Messages, Submit(m) PROVE Types'
  BY <1>2 DEF Submit, Types, Callback_vars
<1>3. CASE RunMain \/ Restart \/ Deliver \/ Idle \/ UNCHANGED vars
  BY <1>3 DEF RunMain, Restart, Deliver, Idle, Types, Callback_vars, Rating_vars, vars
<1>4. CASE Callback
  BY <1>0, <1>4 DEF Callback, Types, Rating_vars
<1>5. CASE SearchPending
  <2>1. job \in Ratings
    BY <1>5 DEF SearchPending, Types, Places
  <2>2. hits' \subseteq Ratings
    BY <1>0, <1>5, <2>1 DEF SearchPending, Page, Pending
  <2>3. skipped' \subseteq Ratings
    BY <1>5, <2>1 DEF SearchPending, Types
  <2> QED BY <1>5, <2>1, <2>2, <2>3 DEF SearchPending, Types, Rating_vars
<1>6. CASE UpdateHit
  BY <1>6 DEF UpdateHit, Types, Verdict
<1>7. CASE CallbackDone
  BY <1>7 DEF CallbackDone, Types, Rating_vars
<1>8. CASE CallbackRaises
  BY <1>1, <1>8 DEF CallbackRaises, Down, Types, Rating_vars
<1>9. CASE Crash
  <2>1. crashes' \in 0 .. MaxCrashes
    BY <1>0, <1>9 DEF Crash, Types
  <2> QED BY <1>1, <1>9, <2>1 DEF Crash, Down, Types, Rating_vars
<1>10. ASSUME NEW x \in Ratings, Refresh(x) PROVE Types'
  BY <1>10 DEF Refresh, Types, Callback_vars
<1> QED BY <1>2, <1>3, <1>4, <1>5, <1>6, <1>7, <1>8, <1>9, <1>10 DEF Next, Moderate

----------------------------------------------------------------------------
\* Verdicts

\* No rating becomes absent again, and a message that is handed over stays so.
LEMMA NextHandedOver ==
    ASSUME Places, Types, SubmittedInv, [Next]_vars
    PROVE  /\ SubmittedInv'
           /\ HandedOver \subseteq HandedOver'
<1>0. /\ None \notin Messages /\ Ratings \subseteq Messages
  BY ModerationAssumption DEF Messages
<1> DEFINE Held == ToSet(queue) \cup ToSet(buffer)
<1>1. ASSUME NEW m \in Messages, Submit(m)
      PROVE  SubmittedInv' /\ HandedOver \subseteq HandedOver'
  <2>1. m \notin ToSet(queue) \cup ToSet(buffer) /\ (m \in Ratings => status[m] = "absent")
    BY <1>1 DEF Submit, Delivered
  <2>2. ToSet(queue') = ToSet(queue) \cup {m}
    BY <1>1, <2>1, AppendKeepsInjective DEF Submit, Places
  <2>3. UNCHANGED <<buffer, job>>
    BY <1>1 DEF Submit, Callback_vars
  <2>4. \A x \in Ratings : status'[x] = IF x = m THEN "pending" ELSE status[x]
    BY <1>1 DEF Submit, Types
  <2> QED BY <2>1, <2>2, <2>3, <2>4 DEF SubmittedInv, HandedOver, Delivered
<1>2. ASSUME /\ Held' \subseteq Held
             /\ ToSet(queue') \cup Delivered' \subseteq ToSet(queue) \cup Delivered
             /\ \A x \in Ratings : status[x] # "absent" => status'[x] # "absent"
      PROVE  SubmittedInv' /\ HandedOver \subseteq HandedOver'
  BY <1>2 DEF SubmittedInv, HandedOver
<1>3. CASE Deliver
  <2> DEFINE m == Head(queue)
  <2>1. m \in Messages /\ ToSet(queue) = ToSet(queue') \cup {m}
    BY <1>3, TailKeepsInjective DEF Deliver, Places
  <2>2. m \notin ToSet(buffer)
    BY <1>3, TailKeepsInjective DEF Deliver, Places
  <2>3. ToSet(buffer') = ToSet(buffer) \cup {m}
    BY <1>3, <2>1, <2>2, AppendKeepsInjective DEF Deliver, Places
  <2> HIDE DEF m
  <2>4. UNCHANGED <<job, status>>
    BY <1>3 DEF Deliver, Callback_vars, Rating_vars
  <2> QED BY <1>2, <2>1, <2>3, <2>4 DEF Delivered
<1>4. CASE Callback
  <2>1. ToSet(buffer) = ToSet(buffer') \cup {job'} /\ job = None
    BY <1>4, TailKeepsInjective DEF Callback, Places
  <2>2. UNCHANGED <<queue, status>>
    BY <1>4 DEF Callback, Rating_vars
  <2> QED BY <1>2, <2>1, <2>2 DEF Delivered
<1>5. CASE UpdateHit
  <2>1. UNCHANGED <<queue, buffer, job>>
    BY <1>5 DEF UpdateHit
  <2>2. \A x \in Ratings : status[x] # "absent" => status'[x] # "absent"
    BY <1>5 DEF UpdateHit, Types, Verdict
  <2> QED BY <1>2, <2>1, <2>2 DEF Delivered
<1>6. CASE CallbackDone
  BY <1>2, <1>6 DEF CallbackDone, Delivered, Rating_vars
<1>7. CASE Down
  BY <1>2, <1>7, EmptyInjective DEF Down, Delivered, Rating_vars
<1>8. CASE RunMain \/ SearchPending \/ Restart \/ Idle \/ (\E x \in Ratings : Refresh(x))
           \/ UNCHANGED vars
  <2>1. UNCHANGED <<queue, buffer, job, status>>
    BY <1>8 DEF RunMain, SearchPending, Restart, Idle, Refresh, Callback_vars, Rating_vars, vars
  <2> QED BY <1>2, <2>1 DEF Delivered
<1> QED
  BY <1>1, <1>3, <1>4, <1>5, <1>6, <1>7, <1>8 DEF Next, Moderate, CallbackRaises, Crash

LEMMA NextVerdicts ==
    ASSUME Places, Types, HitsInv, SubmittedInv, VerdictsAreOwn, [Next]_vars
    PROVE  (HitsInv /\ VerdictsAreOwn)'
<1>0. HandedOver \subseteq HandedOver'
  BY NextHandedOver
<1>1. ASSUME \A x \in Ratings : status'[x] \in {status[x], "absent", "pending"}
      PROVE  VerdictsAreOwn'
  <2> SUFFICES ASSUME NEW x \in Ratings, status'[x] \in {"Approved", "Denied"}
               PROVE  \E m \in HandedOver' : x \in Alike[m] /\ status'[x] = Verdict(m)
    BY DEF VerdictsAreOwn, Verdict
  <2>1. status'[x] = status[x]
    BY <1>1
  <2> QED BY <1>0, <2>1 DEF VerdictsAreOwn
<1>2. ASSUME NEW m \in Messages, Submit(m) PROVE (HitsInv /\ VerdictsAreOwn)'
  <2>1. UNCHANGED <<job, step, hits>>
    BY <1>2 DEF Submit, Callback_vars
  <2>2. \A x \in Ratings : status'[x] \in {status[x], "absent", "pending"}
    BY <1>2 DEF Submit, Types
  <2> QED BY <1>1, <2>1, <2>2 DEF HitsInv
<1>3. CASE UpdateHit
  <2>1. PICK x \in hits : /\ status' = [status EXCEPT ![x] = Verdict(job)]
                          /\ hits' = hits \ {x}
    BY <1>3 DEF UpdateHit
  <2>2. UNCHANGED <<job, step, queue, buffer>>
    BY <1>3 DEF UpdateHit
  <2>3. job \in Ratings /\ x \in Alike[job] /\ x \in Ratings
    BY <1>3, <2>1 DEF UpdateHit, HitsInv, Types, Places
  <2>4. status'[x] = Verdict(job) /\ \A y \in Ratings \ {x} : status'[y] = status[y]
    BY <2>1, <2>3 DEF Types
  <2>5. job \in HandedOver
    BY <2>3, ModerationAssumption DEF HandedOver, SubmittedInv, Delivered, Places, Messages
  <2>6. job \in HandedOver'
    BY <1>0, <2>5
  <2>7. HitsInv'
    BY <2>1, <2>2 DEF HitsInv
  <2>8. VerdictsAreOwn'
    <3> SUFFICES ASSUME NEW y \in Ratings, status'[y] \in {"Approved", "Denied"}
                 PROVE  \E m \in HandedOver' : y \in Alike[m] /\ status'[y] = Verdict(m)
      BY DEF VerdictsAreOwn, Verdict
    <3>1. CASE y = x
      BY <2>2, <2>3, <2>4, <2>6, <3>1
    <3>2. CASE y # x
      BY <1>0, <2>4, <3>2 DEF VerdictsAreOwn
    <3> QED BY <3>1, <3>2
  <2> QED BY <2>7, <2>8
<1>4. CASE SearchPending
  <2>1. hits' \subseteq Alike[job] /\ step' = "updating" /\ UNCHANGED <<job, status>>
    BY <1>4 DEF SearchPending, Page, Rating_vars
  <2> QED BY <1>1, <2>1 DEF HitsInv
<1>5. CASE CallbackDone \/ Down
  BY <1>1, <1>5 DEF CallbackDone, Down, HitsInv, Rating_vars
<1>6. CASE Callback
  <2>1. step = "none"
    BY <1>6 DEF Callback, Types
  <2> QED BY <1>1, <1>6, <2>1 DEF Callback, HitsInv, Rating_vars
<1>7. CASE RunMain \/ Deliver \/ Restart \/ Idle \/ (\E x \in Ratings : Refresh(x))
           \/ UNCHANGED vars
  <2>1. UNCHANGED <<job, step, hits, status>>
    BY <1>7 DEF RunMain, Deliver, Restart, Idle, Refresh, Callback_vars, Rating_vars, vars
  <2> QED BY <1>1, <2>1 DEF HitsInv
<1> QED BY <1>2, <1>3, <1>4, <1>5, <1>6, <1>7
        DEF Next, Moderate, CallbackRaises, Crash

----------------------------------------------------------------------------
\* Pending ratings

LEMMA NextPending ==
    MInv /\ [Next]_vars => (JobInv /\ PendingIsAccountedFor)'
<1> SUFFICES ASSUME MInv, [Next]_vars PROVE (JobInv /\ PendingIsAccountedFor)'
  OBVIOUS
<1> USE DEF MInv
<1>0. /\ None \notin Messages /\ Ratings \subseteq Messages
  BY ModerationAssumption DEF Messages
<1>1. ASSUME NEW m \in Messages, Submit(m) PROVE (JobInv /\ PendingIsAccountedFor)'
  <2>1. m \notin ToSet(queue) \cup ToSet(buffer) /\ m # job
    BY <1>0, <1>1 DEF Submit, Delivered
  <2>2. ToSet(queue') = ToSet(queue) \cup {m}
    BY <1>1, <2>1, AppendKeepsInjective DEF Submit, Places
  <2>3. UNCHANGED <<buffer, job, step, hits, lost, skipped>>
    BY <1>1 DEF Submit, Callback_vars
  <2>4. \A x \in Ratings : x # m => status'[x] = status[x]
    BY <1>1 DEF Submit, Types
  <2>5. JobInv'
    BY <1>0, <2>1, <2>3, <2>4 DEF JobInv, Places, Types
  <2>6. PendingIsAccountedFor'
    BY <2>2, <2>3, <2>4 DEF PendingIsAccountedFor, Delivered
  <2> QED BY <2>5, <2>6
<1>2. CASE Deliver
  <2> DEFINE m == Head(queue)
  <2>1. /\ m \in Messages /\ ToSet(queue) = ToSet(queue') \cup {m}
    BY <1>2, TailKeepsInjective DEF Deliver, Places
  <2>2. m \notin ToSet(buffer)
    BY <1>2, TailKeepsInjective DEF Deliver, Places
  <2>3. ToSet(buffer') = ToSet(buffer) \cup {m}
    BY <1>2, <2>1, <2>2, AppendKeepsInjective DEF Deliver, Places
  <2> HIDE DEF m
  <2>4. UNCHANGED <<job, step, hits, status, lost, skipped>>
    BY <1>2 DEF Deliver, Callback_vars, Rating_vars
  <2> QED BY <2>1, <2>3, <2>4 DEF JobInv, PendingIsAccountedFor, Delivered
<1>3. CASE Callback
  <2>1. ToSet(buffer) = ToSet(buffer') \cup {job'} /\ job' \in Ratings /\ job = None
    BY <1>3, TailKeepsInjective DEF Callback, Places
  <2>2. UNCHANGED <<queue, status, lost, skipped>> /\ step' = "checking"
    BY <1>3 DEF Callback, Rating_vars
  <2> QED BY <1>0, <2>1, <2>2 DEF JobInv, PendingIsAccountedFor, Delivered
<1>4. CASE SearchPending
  BY <1>4 DEF SearchPending, JobInv, PendingIsAccountedFor, Delivered, Rating_vars
<1>5. CASE UpdateHit
  <2>1. PICK x \in hits : /\ status' = [status EXCEPT ![x] = Verdict(job)]
                          /\ hits' = hits \ {x}
    BY <1>5 DEF UpdateHit
  <2>2. UNCHANGED <<queue, buffer, job, step, lost, skipped>> /\ x \in Ratings
    BY <1>5 DEF UpdateHit, Types
  <2>3. status'[x] # "pending" /\ \A y \in Ratings \ {x} : status'[y] = status[y]
    BY <2>1, <2>2 DEF Types, Verdict
  <2>4. job \in Ratings
    BY <1>5 DEF UpdateHit, Types, Places
  <2> QED BY <2>1, <2>2, <2>3, <2>4 DEF JobInv, PendingIsAccountedFor, Delivered
<1>6. CASE CallbackDone
  <2>1. job \in skipped \/ status[job] # "pending"
    BY <1>6 DEF CallbackDone, JobInv
  <2> QED BY <1>6, <2>1 DEF CallbackDone, JobInv, PendingIsAccountedFor, Delivered, Rating_vars
<1>7. CASE Down
  BY <1>7 DEF Down, JobInv, PendingIsAccountedFor, Delivered, Rating_vars
<1>8. CASE RunMain \/ Restart \/ Idle \/ (\E x \in Ratings : Refresh(x)) \/ UNCHANGED vars
  <2>1. UNCHANGED <<queue, buffer, job, step, hits, status, lost, skipped>>
    BY <1>8 DEF RunMain, Restart, Idle, Refresh, Callback_vars, Rating_vars, vars
  <2> QED BY <2>1 DEF JobInv, PendingIsAccountedFor, Delivered
<1> QED BY <1>1, <1>2, <1>3, <1>4, <1>5, <1>6, <1>7, <1>8
        DEF Next, Moderate, CallbackRaises, Crash

----------------------------------------------------------------------------
\* Theorems

LEMMA InitMInv == Init => MInv
<1> SUFFICES ASSUME Init PROVE MInv
  OBVIOUS
<1>1. Places
  BY EmptyInjective DEF Init, Places
<1>2. Types
  BY ModerationAssumption DEF Init, Types
<1>3. HitsInv /\ JobInv /\ VerdictsAreOwn /\ PendingIsAccountedFor
  BY DEF Init, HitsInv, JobInv, VerdictsAreOwn, PendingIsAccountedFor
<1>4. SubmittedInv
  BY EmptyInjective, ModerationAssumption DEF Init, SubmittedInv, Delivered, Messages
<1> QED BY <1>1, <1>2, <1>3, <1>4 DEF MInv

LEMMA Moderated == Spec => []MInv
<1>1. MInv /\ [Next]_vars => MInv'
  BY NextPlaces, NextTypes, NextHandedOver, NextVerdicts, NextPending DEF MInv
<1> QED BY <1>1, InitMInv, PTL DEF Spec

\* Every variable has its type, and the broker and the process hold each message
\* once, wherever a crash or a bad message interrupts them
\* (RabbitMq.consume_messages).
THEOREM TypeCorrect == Spec => []TypeOK
<1>1. MInv => TypeOK
  <2> SUFFICES ASSUME MInv PROVE TypeOK
    OBVIOUS
  <2>1. /\ IsInjective(queue \o buffer)
        /\ ToSet(queue \o buffer) = ToSet(queue) \cup ToSet(buffer)
    BY ConcatInjective DEF MInv, Places
  <2>2. proc # "consuming" => Delivered = {}
    BY EmptyInjective DEF MInv, Places, Delivered
  <2> QED BY <2>1, <2>2 DEF MInv, Places, Types, TypeOK
<1> QED BY <1>1, Moderated, PTL

\* No rating is given the verdict of a comment whose rating's id is not alike, or
\* of one that has not been handed over (UpdateDatabase.update).
THEOREM OnlyAlikeJudged == Spec => []VerdictsAreOwn
<1>1. MInv => VerdictsAreOwn
  BY DEF MInv
<1> QED BY <1>1, Moderated, PTL

\* A rating is pending only while its message is on its way, or because the
\* message was in the process when that ended, or because the search did not
\* return it (RabbitMq.consume_messages).
THEOREM NothingElseIsLost == Spec => []PendingIsAccountedFor
<1>1. MInv => PendingIsAccountedFor
  BY DEF MInv
<1> QED BY <1>1, Moderated, PTL
=============================================================================
