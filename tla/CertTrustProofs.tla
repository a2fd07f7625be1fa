--------------------------- MODULE CertTrustProofs ---------------------------
(***************************************************************************)
(* Proofs about CertTrust, for all certificates, any number of runs, any   *)
(* size of the ticket cache, with a detection or without.  Trust is        *)
(* followed through every place it is kept in between the handshake that   *)
(* earned it and the one that relies on it, and a prompt through the slot, *)
(* the event queue and the dialog that it is in.                           *)
(*                                                                         *)
(* And, at the end, about LauncherHosts: the list against the store that   *)
(* it is saved in, in the order that sorting by rank gives.                *)
(***************************************************************************)
EXTENDS CertTrust, LauncherHosts, SequencesExt, SequenceTheorems, FiniteSetTheorems,
        FunctionTheorems, WellFoundedInduction, TLAPS

\* The certificates that somebody vouches for.  No step takes one away.
Trusted == OsTrusted \cup vouched \cup consented

\* What the broker remembers has been vouched for.
BrokerInv ==
  /\ stored \in {NoCert} \cup vouched
  /\ pinned \in {NoCert} \cup Trusted
  /\ approved \subseteq Trusted

\* So has every TLS session that could be resumed without the broker.
TicketInv ==
  /\ tickets \in Seq(Trusted)
  /\ offered \in {NoCert} \cup Trusted

\* An answer that is waited for is about the certificate of this handshake.
AnswerInv ==
  worker \in {"post", "acquire", "answered"} /\ result.proceed => leaf \in consented

\* The link is up in a session and nowhere else, on a certificate that is trusted.
LinkInv ==
  /\ leaf # NoCert
  /\ connected => worker = "session" /\ leaf \in Trusted

TrustInv == BrokerInv /\ TicketInv /\ AnswerInv /\ LinkInv

\* One prompt at a time: what is posted was published before, what is pending is not
\* answered yet, and what the dialog is up for is waited for.
PromptInv ==
  /\ prompt \in Nat /\ released \in BOOLEAN
  /\ posted \in Seq(Nat)
  /\ \A i \in 1 .. Len(posted) :
       posted[i] <= prompt /\ (worker = "post" => posted[i] # prompt)
  /\ pending # 0 =>
       worker \in {"post", "acquire"} /\ pending = prompt /\ dialog = 0 /\ ~released
  /\ dialog # 0 => worker = "acquire" /\ dialog = prompt /\ pending = 0 /\ ~released
  /\ worker = "post" /\ app = "open" => pending = prompt
  /\ worker = "acquire" /\ app = "open" =>
       \/ dialog = prompt
       \/ released
       \/ pending = prompt /\ \E i \in 1 .. Len(posted) : posted[i] = prompt

\* The broker asks about what it has not approved, and approves what it gets consent for
\* before it asks about anything else.
AskedInv ==
  /\ worker \in {"publish", "post", "acquire"} => leaf \notin approved
  /\ \/ consented \subseteq approved
     \/ /\ worker \in {"acquire", "answered"} /\ released /\ result.proceed
        /\ consented \subseteq approved \cup {leaf}

\* A detection is not a run: its thread leaves by a way of its own, and there is no end of
\* a session to retry.
DetectInv ==
  stage # "attached" =>
    /\ ~done /\ ~sessionEnded
    /\ worker \in {"start", "evaluate", "publish", "post", "acquire", "answered", "classify",
                  "exited"}
    /\ worker \notin {"start", "exited"} => handshake = "detect"

\* A stop is under way only when there is a view, and the window is gone only when its
\* thread is, and cannot get another.
CloseInv ==
  /\ gui \in {"stop", "snapshot", "forceClose", "join"} => stage = "attached"
  /\ gui = "closed" => worker = "exited" /\ (stage = "attached" \/ app = "over")

IInv == TrustInv /\ PromptInv /\ AskedInv /\ DetectInv /\ CloseInv

-----------------------------------------------------------------------------
\* The cache only ever holds what was put into it: push(), prune_expired_locked() and pop().
LEMMA PushedTrusted ==
  ASSUME NEW S, tickets \in Seq(S), NEW cert \in S, NEW cached \in Pushed(cert)
  PROVE  cached \in Seq(S)
<1>1. PICK n \in 0 .. MaxTickets :
        LET all == tickets \o [i \in 1 .. n |-> cert]
        IN  cached = SubSeq(all, Len(all) - Least(MaxTickets, Len(all)) + 1, Len(all))
  BY DEF Pushed
<1> DEFINE new == [i \in 1 .. n |-> cert]
           all == tickets \o new
           first == Len(all) - Least(MaxTickets, Len(all)) + 1
<1>2. n \in Nat /\ MaxTickets \in Nat
  BY CertTrustAssumption
<1>3. new \in Seq(S)
  BY <1>2
<1>4. all \in Seq(S)
  BY <1>3, ConcatProperties
<1> HIDE DEF all
<1>5. Len(all) \in Nat
  BY <1>4, LenProperties
<1>6. first \in Int /\ first >= 1
  BY <1>2, <1>5 DEF Least
<1>7. \A i \in first .. Len(all) : all[i] \in S
  <2> SUFFICES ASSUME NEW i \in first .. Len(all)
               PROVE  all[i] \in S
    OBVIOUS
  <2>1. i \in 1 .. Len(all)
    BY <1>5, <1>6
  <2> QED
    BY <1>4, <2>1, ElementOfSeq
<1>8. SubSeq(all, first, Len(all)) \in Seq(S)
  BY <1>5, <1>6, <1>7, SubSeqProperties
<1> QED
  BY <1>1, <1>8 DEF all

\* What has not expired of the cached tickets is some of them.
LEMMA LiveTrusted ==
  ASSUME NEW S, NEW cached \in Seq(S), NEW live \in Live(cached)
  PROVE  live \in Seq(S)
<1>1. PICK n \in 0 .. Len(cached) : live = SubSeq(cached, n + 1, Len(cached))
  BY DEF Live
<1>2. Len(cached) \in Nat
  BY LenProperties
<1>3. n + 1 \in Int /\ \A i \in n + 1 .. Len(cached) : i \in 1 .. Len(cached)
  BY <1>2
<1>4. \A i \in n + 1 .. Len(cached) : cached[i] \in S
  BY <1>3, ElementOfSeq
<1>5. SubSeq(cached, n + 1, Len(cached)) \in Seq(S)
  BY <1>2, <1>3, <1>4, SubSeqProperties
<1> QED
  BY <1>1, <1>5

\* prepare() offers a ticket of the cache, and keeps only such.
LEMMA PreparedTrusted ==
  ASSUME NEW S, NEW cached \in Seq(S), Prepared(cached)
  PROVE  tickets' \in Seq(S) /\ offered' \in {NoCert} \cup S
<1>1. PICK live \in Live(cached) :
        offered' = Popped(live).session /\ tickets' = Popped(live).rest
  BY DEF Prepared
<1>2. live \in Seq(S)
  BY LiveTrusted
<1>3. CASE live = <<>>
  <2>1. <<>> \in Seq(S)
    BY EmptySeq
  <2> QED
    BY <1>1, <1>3, <2>1 DEF Popped
<1>4. CASE live # <<>>
  <2>1. Head(live) \in S /\ Tail(live) \in Seq(S)
    BY <1>2, <1>4, HeadTailProperties
  <2> QED
    BY <1>1, <1>4, <2>1 DEF Popped
<1> QED
  BY <1>3, <1>4

-----------------------------------------------------------------------------
\* The steps that touch neither the handshake nor what is remembered, and whose answer, if
\* they wait for one, is about the certificate at hand.
LEMMA Carried ==
  ASSUME TrustInv, UNCHANGED <<netVars, brokerVars>>,
         connected' => connected /\ worker' = worker,
         worker' \in {"post", "acquire", "answered"} /\ result'.proceed => leaf \in consented
  PROVE  TrustInv'
<1>1. /\ leaf' = leaf /\ tickets' = tickets /\ offered' = offered
      /\ stored' = stored /\ pinned' = pinned /\ approved' = approved
      /\ consented' = consented /\ vouched' = vouched
  BY DEF netVars, brokerVars
<1>2. BrokerInv' /\ TicketInv'
  BY <1>1 DEF TrustInv, BrokerInv, TicketInv, Trusted
<1>3. AnswerInv' /\ LinkInv'
  BY <1>1 DEF TrustInv, AnswerInv, LinkInv, Trusted
<1> QED
  BY <1>2, <1>3 DEF TrustInv

\* A handshake with a certificate that is trusted: what it leaves in the cache and the link
\* that it brings up are.
LEMMA VerifiedKeeps ==
  ASSUME TrustInv, NEW from, NEW cert, Verified(from, cert), from # "session",
         cert \in Trusted', cert # NoCert, Trusted \subseteq Trusted', BrokerInv'
  PROVE  TrustInv'
<1>1. PICK cached \in Pushed(cert) :
    \/ /\ handshake = "login"
       /\ Go(from, "evaluate")
       /\ leaf' \in Certs
       /\ Prepared(cached)
       /\ UNCHANGED connected
    \/ /\ handshake # "login"
       /\ Go(from, IF handshake = "websocket" THEN "session" ELSE "classify")
       /\ connected' = (handshake = "websocket")
       /\ leaf' = cert
       /\ tickets' = cached
       /\ offered' = NoCert
  BY DEF Verified
<1>2. tickets \in Seq(Trusted')
  BY SeqMonotonic DEF TrustInv, TicketInv
<1>3. cached \in Seq(Trusted')
  BY <1>2, PushedTrusted
<1>4. CASE handshake = "login"
  <2>1. worker = from /\ worker' = "evaluate" /\ leaf' \in Certs /\ connected' = connected
    BY <1>1, <1>4 DEF Go
  <2>2. TicketInv'
    BY <1>1, <1>3, <1>4, PreparedTrusted DEF TicketInv
  <2>3. AnswerInv'
    BY <2>1 DEF AnswerInv
  <2>4. LinkInv'
    BY <2>1, CertTrustAssumption DEF LinkInv, TrustInv
  <2> QED
    BY <2>2, <2>3, <2>4 DEF TrustInv
<1>5. CASE handshake # "login"
  <2>1. /\ worker' = IF handshake = "websocket" THEN "session" ELSE "classify"
        /\ connected' = (handshake = "websocket")
        /\ leaf' = cert /\ tickets' = cached /\ offered' = NoCert
    BY <1>1, <1>5 DEF Go
  <2>2. TicketInv'
    BY <1>3, <2>1 DEF TicketInv
  <2>3. AnswerInv' /\ LinkInv'
    BY <2>1 DEF AnswerInv, LinkInv
  <2> QED
    BY <2>2, <2>3 DEF TrustInv
<1> QED
  BY <1>4, <1>5

\* The start of a handshake: any certificate may come, and no answer is waited for.
LEMMA StartKeeps ==
  ASSUME TrustInv, NEW cached \in Seq(Trusted), Prepared(cached), leaf' \in Certs,
         Go("start", "evaluate"), UNCHANGED <<connected, brokerVars>>
  PROVE  TrustInv'
<1>1. /\ worker = "start" /\ worker' = "evaluate" /\ connected' = connected
      /\ stored' = stored /\ pinned' = pinned /\ approved' = approved
      /\ consented' = consented /\ vouched' = vouched
  BY DEF Go, brokerVars
<1>2. BrokerInv'
  BY <1>1 DEF TrustInv, BrokerInv, Trusted
<1>3. Trusted' = Trusted
  BY <1>1 DEF Trusted
<1>4. TicketInv'
  BY <1>3, PreparedTrusted DEF TicketInv
<1>5. AnswerInv' /\ LinkInv'
  BY <1>1, CertTrustAssumption DEF TrustInv, AnswerInv, LinkInv
<1> QED
  BY <1>2, <1>4, <1>5 DEF TrustInv

\* No certificate has been seen and none is trusted.
LEMMA TrustInit == Init => TrustInv
<1> SUFFICES ASSUME Init
             PROVE  TrustInv
  OBVIOUS
<1>1. TicketInv
  BY EmptySeq DEF Init, TicketInv
<1>2. BrokerInv
  BY DEF Init, BrokerInv, Pins
<1>3. AnswerInv /\ LinkInv
  BY CertTrustAssumption DEF Init, ViewInit, AnswerInv, LinkInv
<1> QED
  BY <1>1, <1>2, <1>3 DEF TrustInv

-----------------------------------------------------------------------------
\* The steps of the network thread that end no handshake.
LEMMA WorkerKeeps ==
  ASSUME TrustInv,
         \/ Classify \/ ConnectFails \/ Publish \/ Post \/ Acquire \/ Refused
         \/ SessionOver \/ CleanUp
         \/ (DropForceClose \/ Finish) /\ UNCHANGED certVars
  PROVE  TrustInv'
<1> USE DEF certVars
<1>1. CASE Classify
  <2>1. worker' = "exited" /\ worker = "classify" /\ connected' = connected
    BY <1>1 DEF Classify, Go
  <2>2. UNCHANGED <<netVars, brokerVars>>
    BY <1>1 DEF Classify
  <2> QED
    BY <2>1, <2>2, Carried DEF TrustInv, LinkInv
<1>2. CASE ConnectFails
  <2>1. worker' \in {"exited", "cleanup"} /\ worker = "evaluate" /\ connected' = connected
    BY <1>2 DEF ConnectFails, Throw, Go
  <2>2. UNCHANGED <<netVars, brokerVars>>
    BY <1>2 DEF ConnectFails
  <2> QED
    BY <2>1, <2>2, Carried DEF TrustInv, LinkInv
<1>3. CASE Publish
  <2>1. /\ worker' = "post" /\ worker = "publish" /\ connected' = connected
        /\ ~result'.proceed
    BY <1>3 DEF Publish, Go, No, Answer
  <2>2. UNCHANGED <<netVars, brokerVars>>
    BY <1>3 DEF Publish
  <2> QED
    BY <2>1, <2>2, Carried DEF TrustInv, LinkInv
<1>4. CASE Post
  <2>1. worker' = "acquire" /\ worker = "post" /\ connected' = connected /\ result' = result
    BY <1>4 DEF Post, Go
  <2>2. UNCHANGED <<netVars, brokerVars>>
    BY <1>4 DEF Post
  <2> QED
    BY <2>1, <2>2, Carried DEF TrustInv, LinkInv, AnswerInv
<1>5. CASE Acquire
  <2>1. /\ worker' = "answered" /\ worker = "acquire" /\ connected' = connected
        /\ result' = result
    BY <1>5 DEF Acquire, Go, promptVars
  <2>2. UNCHANGED <<netVars, brokerVars>>
    BY <1>5 DEF Acquire
  <2> QED
    BY <2>1, <2>2, Carried DEF TrustInv, LinkInv, AnswerInv
<1>6. CASE Refused
  <2>1. worker' \in {"exited", "cleanup"} /\ worker = "answered" /\ connected' = connected
    BY <1>6 DEF Refused, Throw, Go
  <2>2. UNCHANGED <<netVars, brokerVars>>
    BY <1>6 DEF Refused
  <2> QED
    BY <2>1, <2>2, Carried DEF TrustInv, LinkInv
<1>7. CASE SessionOver
  <2>1. worker' = "cleanup" /\ connected' = FALSE
    BY <1>7 DEF SessionOver, Go
  <2>2. UNCHANGED <<netVars, brokerVars>>
    BY <1>7 DEF SessionOver
  <2> QED
    BY <2>1, <2>2, Carried
<1>8. CASE CleanUp
  <2>1. worker' = "dropForceClose" /\ worker = "cleanup" /\ connected' = connected
    BY <1>8 DEF CleanUp, Go
  <2>2. UNCHANGED <<netVars, brokerVars>>
    BY <1>8 DEF CleanUp
  <2> QED
    BY <2>1, <2>2, Carried DEF TrustInv, LinkInv
<1>9. CASE (DropForceClose \/ Finish) /\ UNCHANGED certVars
  <2>1. /\ worker' \in {"finish", "exited"} /\ worker \in {"dropForceClose", "finish"}
        /\ connected' = connected
    BY <1>9 DEF DropForceClose, Finish
  <2>2. UNCHANGED <<netVars, brokerVars>>
    BY <1>9
  <2> QED
    BY <2>1, <2>2, Carried DEF TrustInv, LinkInv
<1> QED
  BY <1>1, <1>2, <1>3, <1>4, <1>5, <1>6, <1>7, <1>8, <1>9

\* The two ways to start a handshake: with a cache of its own, or with the detection's.
LEMMA StartStep ==
  ASSUME TrustInv, Login \/ Detect
  PROVE  TrustInv'
<1>1. tickets \in Seq(Trusted) /\ <<>> \in Seq(Trusted)
  BY EmptySeq DEF TrustInv, TicketInv
<1>2. CASE Login
  <2>1. /\ Go("start", "evaluate") /\ leaf' \in Certs
        /\ Prepared(IF AutoDetect THEN tickets ELSE <<>>)
        /\ UNCHANGED <<connected, brokerVars>>
    BY <1>2 DEF Login
  <2>2. PICK cached \in Seq(Trusted) : Prepared(cached)
    BY <1>1, <2>1
  <2> QED
    BY <2>1, <2>2, StartKeeps
<1>3. CASE Detect
  <2>1. /\ Go("start", "evaluate") /\ leaf' \in Certs /\ Prepared(tickets)
        /\ UNCHANGED <<connected, brokerVars>>
    BY <1>3 DEF Detect
  <2> QED
    BY <1>1, <2>1, StartKeeps
<1> QED
  BY <1>2, <1>3

\* The verdicts that end a handshake well.
LEMMA VerdictStep ==
  ASSUME TrustInv,
         \/ Resume \/ EvaluateApproved \/ EvaluatePinned \/ EvaluateTrusted \/ Accepted
  PROVE  TrustInv'
<1>0. leaf # NoCert /\ BrokerInv
  BY DEF TrustInv, LinkInv
<1>1. CASE Resume
  <2>1. offered # NoCert /\ offered \in Trusted /\ Verified("evaluate", offered)
    BY <1>1 DEF Resume, TrustInv, TicketInv
  <2>2. /\ stored' = stored /\ pinned' = pinned /\ approved' = approved
        /\ consented' = consented /\ vouched' = vouched
    BY <1>1 DEF Resume, brokerVars
  <2>3. Trusted' = Trusted /\ BrokerInv'
    BY <1>0, <2>2 DEF Trusted, BrokerInv
  <2> QED
    BY <2>1, <2>3, VerifiedKeeps
<1>2. CASE EvaluateApproved
  <2>1. leaf \in Trusted /\ Verified("evaluate", leaf)
    BY <1>0, <1>2 DEF EvaluateApproved, BrokerInv
  <2>2. /\ stored' = stored /\ pinned' = pinned /\ approved' = approved
        /\ consented' = consented /\ vouched' = vouched
    BY <1>2 DEF EvaluateApproved, brokerVars
  <2>3. Trusted' = Trusted /\ BrokerInv'
    BY <1>0, <2>2 DEF Trusted, BrokerInv
  <2> QED
    BY <1>0, <2>1, <2>3, VerifiedKeeps
<1>3. CASE EvaluatePinned
  <2>1. /\ pinned' \in Pin /\ pinned' = leaf /\ approved' = approved \cup {leaf}
        /\ Verified("evaluate", leaf)
        /\ stored' = stored /\ consented' = consented /\ vouched' = vouched
    BY <1>3 DEF EvaluatePinned
  <2>2. leaf \in Trusted
    BY <1>0, <2>1 DEF Pin, LoadPin, BrokerInv, Trusted
  <2>3. Trusted' = Trusted /\ BrokerInv'
    BY <1>0, <2>1, <2>2 DEF Trusted, BrokerInv
  <2> QED
    BY <1>0, <2>1, <2>2, <2>3, VerifiedKeeps
<1>4. CASE EvaluateTrusted
  <2>1. /\ pinned' \in Pin /\ leaf \in OsTrusted /\ approved' = approved
        /\ Verified("evaluate", leaf)
        /\ stored' = stored /\ consented' = consented /\ vouched' = vouched
    BY <1>4 DEF EvaluateTrusted
  <2>2. leaf \in Trusted /\ Trusted' = Trusted
    BY <2>1 DEF Trusted
  <2>3. BrokerInv'
    BY <1>0, <2>1 DEF Pin, LoadPin, BrokerInv, Trusted
  <2> QED
    BY <1>0, <2>1, <2>2, <2>3, VerifiedKeeps
<1>5. CASE Accepted
  <2>1. /\ result.proceed /\ Verified("answered", leaf) /\ worker = "answered"
        /\ approved' = approved \cup {leaf} /\ consented' = consented
        /\ IF result.pin THEN pinned' = leaf /\ SavePin(leaf)
           ELSE UNCHANGED <<pinned, stored, vouched>>
    BY <1>5 DEF Accepted, Verified, Go
  <2>2. leaf \in consented
    BY <2>1 DEF TrustInv, AnswerInv
  <2>3. /\ Trusted \subseteq Trusted' /\ leaf \in Trusted'
        /\ vouched \subseteq vouched' /\ pinned' \in {pinned, leaf}
        /\ stored' \in {NoCert} \cup vouched'
    BY <1>0, <2>1, <2>2 DEF Trusted, SavePin, BrokerInv
  <2>4. BrokerInv'
    BY <1>0, <2>1, <2>3 DEF BrokerInv
  <2> QED
    BY <1>0, <2>1, <2>3, <2>4, VerifiedKeeps
<1> QED
  BY <1>1, <1>2, <1>3, <1>4, <1>5

\* The broker cannot tell, and the user will be asked.
LEMMA UnknownStep ==
  ASSUME TrustInv, EvaluateUnknown
  PROVE  TrustInv'
<1>1. /\ pinned' \in Pin /\ worker = "evaluate" /\ worker' = "publish"
      /\ connected' = connected /\ leaf' = leaf /\ tickets' = tickets /\ offered' = offered
      /\ approved' = approved /\ stored' = stored
      /\ consented' = consented /\ vouched' = vouched
  BY DEF EvaluateUnknown, Go, netVars
<1>2. BrokerInv' /\ TicketInv'
  BY <1>1 DEF TrustInv, BrokerInv, TicketInv, Trusted, Pin, LoadPin
<1>3. AnswerInv' /\ LinkInv'
  BY <1>1 DEF TrustInv, AnswerInv, LinkInv
<1> QED
  BY <1>2, <1>3 DEF TrustInv

-----------------------------------------------------------------------------
\* The GUI thread has no say in what is trusted but by the answer that the user gives.
LEMMA GuiKeeps ==
  ASSUME TrustInv, GuiNext
  PROVE  TrustInv'
<1> USE DEF certVars
<1>1. CASE RunPosted
  BY <1>1, Carried DEF RunPosted, viewVars, TrustInv, AnswerInv
<1>2. CASE ClickConnect
  <2>1. /\ consented' = consented \cup {leaf} /\ vouched' = vouched /\ stored' = stored
        /\ pinned' = pinned /\ approved' = approved
        /\ leaf' = leaf /\ tickets' = tickets /\ offered' = offered
        /\ connected' = connected /\ worker' = worker
    BY <1>2 DEF ClickConnect, Click, viewVars, netVars
  <2>2. Trusted \subseteq Trusted'
    BY <2>1 DEF Trusted
  <2>3. tickets \in Seq(Trusted')
    BY <2>2, SeqMonotonic DEF TrustInv, TicketInv
  <2>4. BrokerInv' /\ TicketInv'
    BY <2>1, <2>2, <2>3 DEF TrustInv, BrokerInv, TicketInv
  <2>5. AnswerInv' /\ LinkInv'
    BY <2>1, <2>2 DEF TrustInv, AnswerInv, LinkInv
  <2> QED
    BY <2>4, <2>5 DEF TrustInv
<1>3. CASE ClickCancel
  <2>1. result' = No /\ connected' = connected /\ worker' = worker
    BY <1>3 DEF ClickCancel, Click, viewVars
  <2>2. UNCHANGED <<netVars, brokerVars>>
    BY <1>3 DEF ClickCancel, Click, brokerVars
  <2> QED
    BY <2>1, <2>2, Carried DEF No, Answer
<1>4. CASE CloseWindow
  <2>1. connected' = connected /\ worker' = worker /\ result' = result
    BY <1>4 DEF CloseWindow, PressClose, viewVars
  <2>2. UNCHANGED <<netVars, brokerVars>>
    BY <1>4 DEF CloseWindow
  <2> QED
    BY <2>1, <2>2, Carried DEF TrustInv, AnswerInv
<1>5. CASE TakeVerdict
  <2>1. /\ worker' \in {"exited", "start"} /\ worker = "exited"
        /\ connected' = connected
    BY <1>5 DEF TakeVerdict, viewVars
  <2>2. UNCHANGED <<netVars, brokerVars>>
    BY <1>5 DEF TakeVerdict
  <2> QED
    BY <2>1, <2>2, Carried DEF TrustInv, LinkInv
<1>6. CASE LeaveLoop
  <2>1. connected' = connected /\ worker' = worker /\ result' = result
    BY <1>6 DEF LeaveLoop, PressClose, viewVars
  <2>2. UNCHANGED <<netVars, brokerVars>>
    BY <1>6 DEF LeaveLoop
  <2> QED
    BY <2>1, <2>2, Carried DEF TrustInv, AnswerInv
<1>7. CASE JoinDetection
  <2>1. connected' = connected /\ worker' = worker /\ worker = "exited"
    BY <1>7 DEF JoinDetection
  <2>2. UNCHANGED <<netVars, brokerVars>>
    BY <1>7 DEF JoinDetection
  <2> QED
    BY <2>1, <2>2, Carried
<1>8. CASE /\ Poll \/ PressRetry \/ RequestStop \/ SnapshotForceClose \/ JoinAndClose
           /\ UNCHANGED certVars
  <2>1. connected' = connected /\ worker' = worker /\ result' = result
    BY <1>8 DEF Poll, PressRetry, RequestStop, SnapshotForceClose, JoinAndClose, promptVars
  <2>2. UNCHANGED <<netVars, brokerVars>>
    BY <1>8
  <2> QED
    BY <2>1, <2>2, Carried DEF TrustInv, AnswerInv
<1>9. CASE JoinAndRestart /\ UNCHANGED certVars
  <2>1. connected' = FALSE /\ worker' = "start"
    BY <1>9 DEF JoinAndRestart
  <2>2. UNCHANGED <<netVars, brokerVars>>
    BY <1>9
  <2> QED
    BY <2>1, <2>2, Carried
<1> QED
  BY <1>1, <1>2, <1>3, <1>4, <1>5, <1>6, <1>7, <1>8, <1>9 DEF GuiNext

\* Whatever is kept between two steps is trusted after each.
LEMMA TrustStep == TrustInv /\ [Next]_vars => TrustInv'
<1> SUFFICES ASSUME TrustInv, [Next]_vars
             PROVE  TrustInv'
  OBVIOUS
<1>1. CASE GuiNext
  BY <1>1, GuiKeeps
<1>2. CASE WorkerNext
  BY <1>2, WorkerKeeps, StartStep, VerdictStep, UnknownStep DEF WorkerNext
<1>3. CASE Closed \/ UNCHANGED vars
  <2>1. connected' = connected /\ worker' = worker /\ result' = result
    BY <1>3 DEF Closed, vars, viewVars, certVars, promptVars
  <2>2. UNCHANGED <<netVars, brokerVars>>
    BY <1>3 DEF Closed, vars, certVars
  <2> QED
    BY <2>1, <2>2, Carried DEF TrustInv, AnswerInv
<1> QED
  BY <1>1, <1>2, <1>3 DEF Next

-----------------------------------------------------------------------------
\* The network thread does not touch the window.
LEMMA WorkerFrame ==
  ASSUME WorkerNext
  PROVE  worker # "exited" /\ gui' = gui /\ stage' = stage /\ app' = app
<1> USE DEF Go, certVars, autoVars
<1>1. CASE Login
  BY <1>1 DEF Login
<1>2. CASE Detect
  BY <1>2 DEF Detect
<1>3. CASE Classify
  BY <1>3 DEF Classify
<1>4. CASE ConnectFails
  BY <1>4 DEF ConnectFails, Throw
<1>5. CASE Resume
  BY <1>5 DEF Resume, Verified
<1>6. CASE EvaluateApproved
  BY <1>6 DEF EvaluateApproved, Verified
<1>7. CASE EvaluatePinned
  BY <1>7 DEF EvaluatePinned, Verified
<1>8. CASE EvaluateTrusted
  BY <1>8 DEF EvaluateTrusted, Verified
<1>9. CASE EvaluateUnknown
  BY <1>9 DEF EvaluateUnknown
<1>10. CASE Publish
  BY <1>10 DEF Publish
<1>11. CASE Post
  BY <1>11 DEF Post
<1>12. CASE Acquire
  BY <1>12 DEF Acquire
<1>13. CASE Refused
  BY <1>13 DEF Refused, Throw
<1>14. CASE Accepted
  BY <1>14 DEF Accepted, Verified
<1>15. CASE SessionOver
  BY <1>15 DEF SessionOver
<1>16. CASE CleanUp
  BY <1>16 DEF CleanUp
<1>17. CASE (DropForceClose \/ Finish) /\ UNCHANGED certVars
  BY <1>17 DEF DropForceClose, Finish
<1> QED
  BY <1>1, <1>2, <1>3, <1>4, <1>5, <1>6, <1>7, <1>8, <1>9,
     <1>10, <1>11, <1>12, <1>13, <1>14, <1>15, <1>16, <1>17 DEF WorkerNext

\* No step of the view or its worker upsets where the detection is.
LEMMA DetectStep == DetectInv /\ [Next]_vars => DetectInv'
<1> SUFFICES ASSUME DetectInv, [Next]_vars
             PROVE  DetectInv'
  OBVIOUS
<1> USE DEF DetectInv
<1>1. CASE WorkerNext
  <2> USE DEF Go, certVars, autoVars, netVars
  <2>1. CASE Login
    BY <2>1 DEF Login
  <2>2. CASE Detect
    BY <2>2 DEF Detect
  <2>3. CASE Classify
    BY <2>3 DEF Classify
  <2>4. CASE ConnectFails
    BY <2>4 DEF ConnectFails, Throw
  <2>5. CASE Resume
    BY <2>5 DEF Resume, Verified
  <2>6. CASE EvaluateApproved
    BY <2>6 DEF EvaluateApproved, Verified
  <2>7. CASE EvaluatePinned
    BY <2>7 DEF EvaluatePinned, Verified
  <2>8. CASE EvaluateTrusted
    BY <2>8 DEF EvaluateTrusted, Verified
  <2>9. CASE EvaluateUnknown
    BY <2>9 DEF EvaluateUnknown
  <2>10. CASE Publish
    BY <2>10 DEF Publish
  <2>11. CASE Post
    BY <2>11 DEF Post
  <2>12. CASE Acquire
    BY <2>12 DEF Acquire
  <2>13. CASE Refused
    BY <2>13 DEF Refused, Throw
  <2>14. CASE Accepted
    BY <2>14 DEF Accepted, Verified
  <2>15. CASE SessionOver
    BY <2>15 DEF SessionOver
  <2>16. CASE CleanUp
    BY <2>16 DEF CleanUp
  <2>17. CASE (DropForceClose \/ Finish) /\ UNCHANGED certVars
    BY <2>17 DEF DropForceClose, Finish
  <2> QED
    BY <1>1, <2>1, <2>2, <2>3, <2>4, <2>5, <2>6, <2>7, <2>8, <2>9,
       <2>10, <2>11, <2>12, <2>13, <2>14, <2>15, <2>16, <2>17 DEF WorkerNext
<1>2. CASE GuiNext
  <2> USE DEF autoVars, netVars, certVars
  <2>1. CASE RunPosted
    BY <2>1 DEF RunPosted, viewVars
  <2>2. CASE ClickConnect
    BY <2>2 DEF ClickConnect, Click, viewVars
  <2>3. CASE ClickCancel
    BY <2>3 DEF ClickCancel, Click, viewVars
  <2>4. CASE CloseWindow
    BY <2>4 DEF CloseWindow, PressClose, viewVars
  <2>5. CASE TakeVerdict
    BY <2>5 DEF TakeVerdict, viewVars
  <2>6. CASE LeaveLoop
    BY <2>6 DEF LeaveLoop, PressClose, viewVars
  <2>7. CASE JoinDetection
    BY <2>7 DEF JoinDetection, certVars
  <2>8. CASE Poll /\ UNCHANGED certVars
    BY <2>8 DEF Poll
  <2>9. CASE PressRetry /\ UNCHANGED certVars
    BY <2>9 DEF PressRetry
  <2>10. CASE RequestStop /\ UNCHANGED certVars
    BY <2>10 DEF RequestStop
  <2>11. CASE SnapshotForceClose /\ UNCHANGED certVars
    BY <2>11 DEF SnapshotForceClose
  <2>12. CASE JoinAndClose /\ UNCHANGED certVars
    BY <2>12 DEF JoinAndClose
  <2>13. CASE JoinAndRestart /\ UNCHANGED certVars
    BY <2>13 DEF JoinAndRestart
  <2> QED
    BY <1>2, <2>1, <2>2, <2>3, <2>4, <2>5, <2>6, <2>7,
       <2>8, <2>9, <2>10, <2>11, <2>12, <2>13 DEF GuiNext
<1>3. CASE Closed \/ UNCHANGED vars
  BY <1>3 DEF Closed, vars, viewVars, certVars, autoVars, netVars
<1> QED
  BY <1>1, <1>2, <1>3 DEF Next

\* Nobody is shown a prompt when the window has gone.
LEMMA CloseStep == CloseInv /\ DetectInv /\ [Next]_vars => CloseInv'
<1> SUFFICES ASSUME CloseInv, DetectInv, [Next]_vars
             PROVE  CloseInv'
  OBVIOUS
<1> USE DEF CloseInv
<1>1. CASE WorkerNext
  BY <1>1, WorkerFrame
<1>2. CASE RunPosted \/ ClickConnect \/ ClickCancel
  BY <1>2 DEF RunPosted, ClickConnect, ClickCancel, Click, viewVars, autoVars
<1>3. CASE CloseWindow
  BY <1>3 DEF CloseWindow, PressClose, viewVars
<1>4. CASE TakeVerdict
  BY <1>4 DEF TakeVerdict, viewVars
<1>5. CASE LeaveLoop
  BY <1>5 DEF LeaveLoop, PressClose, viewVars
<1>6. CASE JoinDetection
  BY <1>6 DEF JoinDetection, certVars, autoVars
<1>7. CASE Poll /\ UNCHANGED certVars
  BY <1>7 DEF Poll, certVars, autoVars
<1>8. CASE PressRetry /\ app = "open" /\ UNCHANGED certVars
  BY <1>8 DEF PressRetry, DetectInv, certVars, autoVars
<1>9. CASE RequestStop /\ UNCHANGED certVars
  BY <1>9 DEF RequestStop, certVars, autoVars
<1>10. CASE SnapshotForceClose /\ UNCHANGED certVars
  BY <1>10 DEF SnapshotForceClose, certVars, autoVars
<1>11. CASE JoinAndClose /\ UNCHANGED certVars
  BY <1>11 DEF JoinAndClose, certVars, autoVars
<1>12. CASE JoinAndRestart /\ UNCHANGED certVars
  BY <1>12 DEF JoinAndRestart, certVars, autoVars
<1>13. CASE Closed \/ UNCHANGED vars
  BY <1>13 DEF Closed, vars, viewVars, certVars, autoVars
<1> QED
  BY <1>1, <1>2, <1>3, <1>4, <1>5, <1>6, <1>7, <1>8, <1>9, <1>10, <1>11, <1>12, <1>13
  DEF Next, GuiNext

-----------------------------------------------------------------------------
\* What the user has accepted is approved before anything else can be asked.
LEMMA AskedStep ==
  ASSUME AskedInv, PromptInv, [Next]_vars
  PROVE  AskedInv'
<1> USE DEF AskedInv
<1>1. CASE WorkerNext
  <2> USE DEF Go, certVars, autoVars, netVars, brokerVars, promptVars
  <2>1. CASE Login
    BY <2>1 DEF Login
  <2>2. CASE Detect
    BY <2>2 DEF Detect
  <2>3. CASE Classify
    BY <2>3 DEF Classify
  <2>4. CASE ConnectFails
    BY <2>4 DEF ConnectFails, Throw
  <2>5. CASE Resume
    BY <2>5 DEF Resume, Verified
  <2>6. CASE EvaluateApproved
    BY <2>6 DEF EvaluateApproved, Verified
  <2>7. CASE EvaluatePinned
    BY <2>7 DEF EvaluatePinned, Verified
  <2>8. CASE EvaluateTrusted
    BY <2>8 DEF EvaluateTrusted, Verified
  <2>9. CASE EvaluateUnknown
    BY <2>9 DEF EvaluateUnknown
  <2>10. CASE Publish
    BY <2>10 DEF Publish
  <2>11. CASE Post
    BY <2>11 DEF Post
  <2>12. CASE Acquire
    BY <2>12 DEF Acquire
  <2>13. CASE Refused
    BY <2>13 DEF Refused, Throw
  <2>14. CASE Accepted
    BY <2>14 DEF Accepted, Verified
  <2>15. CASE SessionOver
    BY <2>15 DEF SessionOver
  <2>16. CASE CleanUp
    BY <2>16 DEF CleanUp
  <2>17. CASE (DropForceClose \/ Finish) /\ UNCHANGED certVars
    BY <2>17 DEF DropForceClose, Finish
  <2> QED
    BY <1>1, <2>1, <2>2, <2>3, <2>4, <2>5, <2>6, <2>7, <2>8, <2>9,
       <2>10, <2>11, <2>12, <2>13, <2>14, <2>15, <2>16, <2>17 DEF WorkerNext
<1>2. CASE GuiNext
  <2> USE DEF autoVars, netVars, certVars, brokerVars, promptVars
  <2>1. CASE RunPosted
    BY <2>1 DEF RunPosted, viewVars
  <2>2. CASE ClickConnect
    <3>1. worker = "acquire" /\ worker' = "acquire" /\ ~released
      BY <2>2 DEF ClickConnect, Click, viewVars, PromptInv
    <3>2. /\ leaf' = leaf /\ approved' = approved /\ consented' = consented \cup {leaf}
          /\ released' /\ result'.proceed
      BY <2>2 DEF ClickConnect, Click, Answer
    <3>3. consented \subseteq approved /\ leaf \notin approved
      BY <3>1
    <3> QED
      BY <3>1, <3>2, <3>3
  <2>3. CASE ClickCancel
    <3>1. worker = "acquire" /\ worker' = "acquire" /\ ~released
      BY <2>3 DEF ClickCancel, Click, viewVars, PromptInv
    <3>2. leaf' = leaf /\ approved' = approved /\ consented' = consented
      BY <2>3 DEF ClickCancel, Click
    <3> QED
      BY <3>1, <3>2
  <2>4. CASE CloseWindow
    BY <2>4 DEF CloseWindow, CancelPending, PressClose, viewVars
  <2>5. CASE TakeVerdict
    BY <2>5 DEF TakeVerdict, CancelPending, viewVars
  <2>6. CASE LeaveLoop
    BY <2>6 DEF LeaveLoop, CancelPending, PressClose, viewVars
  <2>7. CASE JoinDetection
    BY <2>7 DEF JoinDetection, certVars
  <2>8. CASE Poll /\ UNCHANGED certVars
    BY <2>8 DEF Poll
  <2>9. CASE PressRetry /\ UNCHANGED certVars
    BY <2>9 DEF PressRetry
  <2>10. CASE RequestStop /\ UNCHANGED certVars
    BY <2>10 DEF RequestStop
  <2>11. CASE SnapshotForceClose /\ UNCHANGED certVars
    BY <2>11 DEF SnapshotForceClose
  <2>12. CASE JoinAndClose /\ UNCHANGED certVars
    BY <2>12 DEF JoinAndClose
  <2>13. CASE JoinAndRestart /\ UNCHANGED certVars
    BY <2>13 DEF JoinAndRestart
  <2> QED
    BY <1>2, <2>1, <2>2, <2>3, <2>4, <2>5, <2>6, <2>7,
       <2>8, <2>9, <2>10, <2>11, <2>12, <2>13 DEF GuiNext
<1>3. CASE Closed \/ UNCHANGED vars
  BY <1>3 DEF Closed, vars, viewVars, certVars, autoVars, netVars, brokerVars, promptVars
<1> QED
  BY <1>1, <1>2, <1>3 DEF Next

\* The semaphore, the slot, the posted dialog and the dialog itself belong to one prompt.
LEMMA PromptStep ==
  ASSUME PromptInv, [Next]_vars
  PROVE  PromptInv'
<1> USE DEF PromptInv
<1>1. CASE WorkerNext
  <2> USE DEF Go, certVars, autoVars, netVars, brokerVars, promptVars
  <2>1. CASE Login
    BY <2>1 DEF Login
  <2>2. CASE Detect
    BY <2>2 DEF Detect
  <2>3. CASE Classify
    BY <2>3 DEF Classify
  <2>4. CASE ConnectFails
    BY <2>4 DEF ConnectFails, Throw
  <2>5. CASE Resume
    BY <2>5 DEF Resume, Verified
  <2>6. CASE EvaluateApproved
    BY <2>6 DEF EvaluateApproved, Verified
  <2>7. CASE EvaluatePinned
    BY <2>7 DEF EvaluatePinned, Verified
  <2>8. CASE EvaluateTrusted
    BY <2>8 DEF EvaluateTrusted, Verified
  <2>9. CASE EvaluateUnknown
    BY <2>9 DEF EvaluateUnknown
  <2>10. CASE Publish
    <3>1. /\ worker = "publish" /\ worker' = "post" /\ prompt' = prompt + 1
          /\ pending' = prompt + 1 /\ ~released' /\ released' \in BOOLEAN
          /\ posted' = posted /\ dialog' = dialog
      BY <2>10 DEF Publish
    <3>2. dialog = 0 /\ prompt \in Nat /\ prompt' \in Nat /\ posted \in Seq(Nat)
      BY <3>1
    <3>3. ASSUME NEW i \in 1 .. Len(posted)
          PROVE  posted[i] <= prompt' /\ posted[i] # prompt'
      <4>1. posted[i] \in Nat /\ posted[i] <= prompt
        BY <3>2, ElementOfSeq
      <4> QED
        BY <3>1, <3>2, <4>1
    <3> QED
      BY <3>1, <3>2, <3>3
  <2>11. CASE Post
    BY <2>11 DEF Post
  <2>12. CASE Acquire
    BY <2>12 DEF Acquire
  <2>13. CASE Refused
    BY <2>13 DEF Refused, Throw
  <2>14. CASE Accepted
    BY <2>14 DEF Accepted, Verified
  <2>15. CASE SessionOver
    BY <2>15 DEF SessionOver
  <2>16. CASE CleanUp
    BY <2>16 DEF CleanUp
  <2>17. CASE (DropForceClose \/ Finish) /\ UNCHANGED certVars
    BY <2>17 DEF DropForceClose, Finish
  <2> QED
    BY <1>1, <2>1, <2>2, <2>3, <2>4, <2>5, <2>6, <2>7, <2>8, <2>9,
       <2>10, <2>11, <2>12, <2>13, <2>14, <2>15, <2>16, <2>17 DEF WorkerNext
<1>2. CASE GuiNext
  <2> USE DEF autoVars, netVars, certVars, brokerVars, promptVars
  <2>1. CASE RunPosted
    <3>1. /\ dialog = 0 /\ posted # <<>> /\ posted' = Tail(posted)
          /\ worker' = worker /\ prompt' = prompt /\ released' = released /\ app' = app
          /\ \/ /\ pending = Head(posted) /\ dialog' = Head(posted) /\ pending' = 0
             \/ /\ pending # Head(posted) /\ dialog' = dialog /\ pending' = pending
      BY <2>1 DEF RunPosted, viewVars
    <3>2. /\ posted \in Seq(Nat) /\ posted' \in Seq(Nat) /\ Len(posted) \in Nat
          /\ Len(posted') = Len(posted) - 1
          /\ \A i \in 1 .. Len(posted') : posted'[i] = posted[i + 1] /\ i + 1 \in 1 .. Len(posted)
          /\ 1 \in 1 .. Len(posted) /\ Head(posted) = posted[1]
      BY <3>1, HeadTailProperties, LenProperties
    <3>3. \A i \in 1 .. Len(posted') :
            posted'[i] <= prompt /\ (worker = "post" => posted'[i] # prompt)
      BY <3>2
    <3>4. CASE pending = Head(posted)
      <4>1. worker = "post" => pending # prompt
        BY <3>2, <3>4
      <4>2. pending' = 0 /\ dialog' = pending
        BY <3>1, <3>4
      <4> QED
        BY <3>1, <3>2, <3>3, <4>1, <4>2
    <3>5. CASE pending # Head(posted)
      <4>1. pending' = pending /\ dialog' = 0
        BY <3>1, <3>5
      <4>2. ASSUME pending = prompt, NEW i \in 1 .. Len(posted), posted[i] = prompt
            PROVE  \E j \in 1 .. Len(posted') : posted'[j] = prompt
        <5>1. i # 1 /\ i - 1 \in 1 .. Len(posted')
          BY <3>2, <3>5, <4>2
        <5>2. posted'[i - 1] = posted[(i - 1) + 1] /\ (i - 1) + 1 = i
          BY <3>2, <5>1
        <5> QED
          BY <4>2, <5>1, <5>2
      <4> QED
        BY <3>1, <3>2, <3>3, <4>1, <4>2
    <3> QED
      BY <3>4, <3>5
  <2>2. CASE ClickConnect
    BY <2>2 DEF ClickConnect, Click, viewVars
  <2>3. CASE ClickCancel
    BY <2>3 DEF ClickCancel, Click, viewVars
  <2>4. CASE CloseWindow
    BY <2>4 DEF CloseWindow, CancelPending, PressClose, viewVars
  <2>5. CASE TakeVerdict
    BY <2>5 DEF TakeVerdict, CancelPending, viewVars
  <2>6. CASE LeaveLoop
    BY <2>6 DEF LeaveLoop, CancelPending, PressClose, viewVars
  <2>7. CASE JoinDetection
    BY <2>7 DEF JoinDetection, certVars
  <2>8. CASE Poll /\ UNCHANGED certVars
    BY <2>8 DEF Poll
  <2>9. CASE PressRetry /\ UNCHANGED certVars
    BY <2>9 DEF PressRetry
  <2>10. CASE RequestStop /\ UNCHANGED certVars
    BY <2>10 DEF RequestStop
  <2>11. CASE SnapshotForceClose /\ UNCHANGED certVars
    BY <2>11 DEF SnapshotForceClose
  <2>12. CASE JoinAndClose /\ UNCHANGED certVars
    BY <2>12 DEF JoinAndClose
  <2>13. CASE JoinAndRestart /\ UNCHANGED certVars
    BY <2>13 DEF JoinAndRestart
  <2> QED
    BY <1>2, <2>1, <2>2, <2>3, <2>4, <2>5, <2>6, <2>7,
       <2>8, <2>9, <2>10, <2>11, <2>12, <2>13 DEF GuiNext
<1>3. CASE Closed \/ UNCHANGED vars
  BY <1>3 DEF Closed, vars, viewVars, certVars, autoVars, netVars, brokerVars, promptVars
<1> QED
  BY <1>1, <1>2, <1>3 DEF Next

-----------------------------------------------------------------------------
\* The invariant holds at the start, and every step keeps it.
LEMMA InvInit == Init => IInv
<1> SUFFICES ASSUME Init
             PROVE  IInv
  OBVIOUS
<1>1. PromptInv
  <2>1. posted \in Seq(Nat) /\ Len(posted) = 0
    BY EmptySeq DEF Init
  <2>2. prompt = 0 /\ pending = 0 /\ dialog = 0 /\ worker = "start" /\ released \in BOOLEAN
    BY DEF Init, ViewInit
  <2> QED
    BY <2>1, <2>2 DEF PromptInv
<1>2. AskedInv /\ DetectInv /\ CloseInv
  BY DEF Init, ViewInit, AskedInv, DetectInv, CloseInv
<1> QED
  BY <1>1, <1>2, TrustInit DEF IInv

\* Every step keeps the whole of it.
LEMMA InvStep == IInv /\ [Next]_vars => IInv'
BY TrustStep, PromptStep, AskedStep, DetectStep, CloseStep DEF IInv

\* So it holds in every state.
LEMMA Invariant == Spec => []IInv
BY InvInit, InvStep, PTL DEF Spec

-----------------------------------------------------------------------------
\* No session without trust: whatever the BMC presents, the user answers, the registry
\* remembers and the peer resumes, a session that is up is up on a certificate that the
\* system, a pin of the host or the user has vouched for (cert_trust_evaluate()).
THEOREM TrustCorrect == Spec => []SessionIsTrusted
<1>1. IInv => SessionIsTrusted
  BY DEF IInv, TrustInv, LinkInv, Trusted, SessionIsTrusted
<1> QED
  BY <1>1, Invariant, PTL

\* The dialog that is up has a call of show_cert_prompt() that waits for it and whose
\* references it may write through, and a call that waits has a dialog to come or an answer.
THEOREM DialogCorrect == Spec => []DialogHasCaller
<1>1. IInv => DialogHasCaller
  <2> SUFFICES ASSUME IInv
               PROVE  DialogHasCaller
    OBVIOUS
  <2>1. DOMAIN posted = 1 .. Len(posted)
    BY LenProperties DEF IInv, PromptInv
  <2> QED
    BY <2>1 DEF IInv, PromptInv, DialogHasCaller
<1> QED
  BY <1>1, Invariant, PTL

\* The user is never asked about a certificate that he has accepted, in no later handshake
\* and no later run (TrustBroker::approved).
THEOREM AskedCorrect == Spec => []AskedOnce
<1>1. IInv => AskedOnce
  BY DEF IInv, PromptInv, AskedInv, AskedOnce
<1> QED
  BY <1>1, Invariant, PTL

\* When the viewer is gone so are its threads, the detection's as well as the session's
\* (run_viewer(), ~AutoDetection and hosted_stop_network()).
THEOREM ViewerCorrect == Spec => []NothingOutlivesViewer
<1>1. IInv => NothingOutlivesViewer
  BY DEF IInv, CloseInv, NothingOutlivesViewer
<1> QED
  BY <1>1, Invariant, PTL

-----------------------------------------------------------------------------
\* The launcher (LauncherHosts), for any number of hosts, of edits, of probes and of
\* restarts.

Rows == [id : Ids, url : Nat \ {0}, credentials : Nat, status : Statuses]
Values == [exists : BOOLEAN, url : Nat, credentials : Nat]

\* A list of rows in the order of their names, with one row for each host.
InOrder(table) == \A i, j \in 1 .. Len(table) : i < j => Before(table[i], table[j])
OneEach(table) == \A i, j \in 1 .. Len(table) : i # j => table[i].id # table[j].id
IsList(table) == table \in Seq(Rows) /\ InOrder(table) /\ OneEach(table)

\* Two that differ in what the probes say at most.
SameHosts(table, other) ==
  /\ other \in Seq(Rows) /\ Len(other) = Len(table)
  /\ \A i \in 1 .. Len(table) :
       /\ other[i].id = table[i].id
       /\ other[i].url = table[i].url
       /\ other[i].credentials = table[i].credentials

-----------------------------------------------------------------------------
\* Sorting.

\* Before is a strict order, in which rows of different hosts have their places.
LEMMA BeforeOrders ==
  ASSUME NEW a, a.id \in Nat, a.url \in Nat,
         NEW b, b.id \in Nat, b.url \in Nat,
         NEW c, c.id \in Nat, c.url \in Nat
  PROVE  /\ ~Before(a, a)
         /\ ~(Before(a, b) /\ Before(b, a))
         /\ Before(a, b) /\ Before(b, c) => Before(a, c)
         /\ a.id # b.id => Before(a, b) \/ Before(b, a)
BY DEF Before

\* The rows that come before one, and how many they are.
Earlier(set, row) == {other \in set : Before(other, row)}
Place(set, row) == Cardinality({other \in set : Before(other, row)})

\* The place of a row is the number of the rows before it.
LEMMA PlaceIs == \A set, row : Place(set, row) = Cardinality(Earlier(set, row))
BY DEF Place, Earlier

\* The place of a row is that of no other one, and there are as many places as rows.
LEMMA RanksGrow ==
  ASSUME NEW set, IsFiniteSet(set), \A x \in set : x.id \in Nat /\ x.url \in Nat,
         NEW a \in set, NEW b \in set
  PROVE  /\ Cardinality(Earlier(set, a)) \in Nat
         /\ Cardinality(Earlier(set, a)) < Cardinality(set)
         /\ Before(a, b) => Cardinality(Earlier(set, a)) < Cardinality(Earlier(set, b))
<1>1. /\ Earlier(set, a) \in SUBSET (set \ {a})
      /\ Earlier(set, b) \in SUBSET set
  BY BeforeOrders DEF Earlier
<1>2. /\ IsFiniteSet(set \ {a}) /\ Cardinality(set \ {a}) = Cardinality(set) - 1
      /\ Cardinality(set) \in Nat /\ Cardinality(set \ {a}) \in Nat
  BY FS_RemoveElement, FS_CardinalityType
<1>3. /\ IsFiniteSet(Earlier(set, a)) /\ Cardinality(Earlier(set, a)) <= Cardinality(set \ {a})
      /\ Cardinality(Earlier(set, a)) \in Nat
  BY <1>1, <1>2, FS_Subset, FS_CardinalityType
<1>4. IsFiniteSet(Earlier(set, b)) /\ Cardinality(Earlier(set, b)) \in Nat
  BY <1>1, FS_Subset, FS_CardinalityType
<1>5. ASSUME Before(a, b)
      PROVE  Cardinality(Earlier(set, a)) < Cardinality(Earlier(set, b))
  <2>1. Earlier(set, a) \in SUBSET Earlier(set, b)
    BY <1>5, BeforeOrders DEF Earlier
  <2>2. a \in Earlier(set, b) /\ a \notin Earlier(set, a)
    BY <1>1, <1>5 DEF Earlier
  <2>3. /\ Cardinality(Earlier(set, a)) <= Cardinality(Earlier(set, b))
        /\ Cardinality(Earlier(set, b)) = Cardinality(Earlier(set, a))
             => Earlier(set, b) = Earlier(set, a)
    BY <1>4, <2>1, FS_Subset
  <2> QED
    BY <1>3, <1>4, <2>2, <2>3
<1> QED
  BY <1>2, <1>3, <1>5

\* Sorting a set of rows gives a list of them.
LEMMA SortedIs ==
  ASSUME NEW set, IsFiniteSet(set), set \subseteq Rows,
         \A a, b \in set : a.id = b.id => a = b
  PROVE  /\ IsList(Sorted(set))
         /\ \A i \in 1 .. Len(Sorted(set)) : Sorted(set)[i] \in set
         /\ \A row \in set : \E i \in 1 .. Len(Sorted(set)) : Sorted(set)[i] = row
<1> DEFINE n == Cardinality(set)
           rank == [row \in set |-> Cardinality(Earlier(set, row)) + 1]
           s == Sorted(set)
<1>1. \A x \in set : x.id \in Nat /\ x.url \in Nat
  BY LauncherAssumption DEF Rows, Ids
<1>2. n \in Nat /\ IsFiniteSet(1 .. n) /\ Cardinality(1 .. n) = n
  BY FS_CardinalityType, FS_Interval
<1>3. \A row \in set : rank[row] \in 1 .. n /\ rank[row] = Cardinality(Earlier(set, row)) + 1
  BY <1>1, <1>2, RanksGrow
<1>4. \A a, b \in set : Before(a, b) => rank[a] < rank[b]
  <2> SUFFICES ASSUME NEW a \in set, NEW b \in set, Before(a, b)
               PROVE  rank[a] < rank[b]
    OBVIOUS
  <2>1. /\ Cardinality(Earlier(set, a)) \in Nat /\ Cardinality(Earlier(set, b)) \in Nat
        /\ Cardinality(Earlier(set, a)) < Cardinality(Earlier(set, b))
    BY <1>1, RanksGrow
  <2> QED
    BY <1>3, <2>1
<1> HIDE DEF n, rank
<1>5. \A a, b \in set : a # b => rank[a] # rank[b]
  <2> SUFFICES ASSUME NEW a \in set, NEW b \in set, a # b
               PROVE  rank[a] # rank[b]
    OBVIOUS
  <2>1. Before(a, b) \/ Before(b, a)
    BY <1>1, BeforeOrders
  <2>2. rank[a] \in Nat /\ rank[b] \in Nat
    BY <1>2, <1>3
  <2> QED
    BY <1>4, <2>1, <2>2
<1>6. rank \in Injection(set, 1 .. n)
  <2>1. rank \in [set -> 1 .. n]
    BY <1>3 DEF rank
  <2> QED
    BY <1>5, <2>1 DEF Injection, IsInjective
<1>7. \A i \in 1 .. n : \E row \in set : rank[row] = i
  <2>1. rank \in Surjection(set, 1 .. n)
    BY <1>2, <1>6, FS_Injection DEF n
  <2> QED
    BY <2>1 DEF Surjection
<1>8. s = [i \in 1 .. n |-> CHOOSE row \in set : Place(set, row) = i - 1]
  BY DEF Sorted, Place, n
<1>9. \A i \in 1 .. n : s[i] \in set /\ rank[s[i]] = i
  <2> SUFFICES ASSUME NEW i \in 1 .. n
               PROVE  s[i] \in set /\ rank[s[i]] = i
    OBVIOUS
  <2>1. PICK row \in set : rank[row] = i
    BY <1>7
  <2>2. Cardinality(Earlier(set, row)) + 1 = i /\ Cardinality(Earlier(set, row)) \in Nat
    BY <1>1, <1>3, <2>1, RanksGrow
  <2>3. Place(set, row) = i - 1
    BY <2>2, PlaceIs
  <2>4. s[i] \in set /\ Place(set, s[i]) = i - 1
    BY <1>8, <2>3
  <2>5. Cardinality(Earlier(set, s[i])) = i - 1
    BY <2>4, PlaceIs
  <2> QED
    BY <1>2, <1>3, <2>4, <2>5
<1> HIDE DEF s
<1>10. /\ s \in Seq(Rows) /\ Len(s) = n
  <2>1. s = [i \in 1 .. n |-> s[i]]
    BY <1>8
  <2>2. \A i \in 1 .. n : s[i] \in Rows
    BY <1>9
  <2>3. s \in [1 .. n -> Rows]
    BY <2>1, <2>2
  <2> QED
    BY <1>2, <2>3, LenProperties
<1>11. \A i, j \in 1 .. n : i < j => Before(s[i], s[j])
  <2> SUFFICES ASSUME NEW i \in 1 .. n, NEW j \in 1 .. n, i < j
               PROVE  Before(s[i], s[j])
    OBVIOUS
  <2>1. s[i] # s[j] /\ s[i] \in set /\ s[j] \in set /\ rank[s[i]] = i /\ rank[s[j]] = j
    BY <1>2, <1>9
  <2>2. Before(s[i], s[j]) \/ Before(s[j], s[i])
    BY <1>1, <2>1, BeforeOrders
  <2>3. Before(s[j], s[i]) => j < i
    BY <1>4, <2>1
  <2> QED
    BY <1>2, <2>2, <2>3
<1>12. \A i, j \in 1 .. n : i # j => s[i].id # s[j].id
  <2> SUFFICES ASSUME NEW i \in 1 .. n, NEW j \in 1 .. n, i # j
               PROVE  s[i].id # s[j].id
    OBVIOUS
  <2>1. s[i] # s[j] /\ s[i] \in set /\ s[j] \in set
    BY <1>9
  <2> QED
    BY <2>1
<1>13. \A row \in set : \E i \in 1 .. n : s[i] = row
  <2> SUFFICES ASSUME NEW row \in set
               PROVE  s[rank[row]] = row
    BY <1>3
  <2>1. rank[row] \in 1 .. n /\ s[rank[row]] \in set /\ rank[s[rank[row]]] = rank[row]
    BY <1>3, <1>9
  <2> QED
    BY <1>5, <2>1
<1> QED
  BY <1>9, <1>10, <1>11, <1>12, <1>13 DEF IsList, InOrder, OneEach, s

\* A list is what sorting its rows gives.
LEMMA ListIsSorted ==
  ASSUME NEW s, IsList(s)
  PROVE  s = Sorted(ToSet(s))
<1> DEFINE n == Len(s)
           T == ToSet(s)
<1>1. /\ n \in Nat /\ s \in [1 .. n -> Rows] /\ DOMAIN s = 1 .. n
      /\ \A i, j \in 1 .. n : i < j => Before(s[i], s[j])
      /\ \A i \in 1 .. n : s[i].id \in Nat /\ s[i].url \in Nat
  <2>1. s \in Seq(Rows)
    BY DEF IsList
  <2>2. n \in Nat /\ s \in [1 .. n -> Rows] /\ DOMAIN s = 1 .. n
    BY <2>1, LenProperties
  <2>3. \A row \in Rows : row.id \in Nat /\ row.url \in Nat
    BY LauncherAssumption DEF Rows, Ids
  <2> HIDE DEF n
  <2>4. \A i, j \in 1 .. n : i < j => Before(s[i], s[j])
    BY DEF IsList, InOrder, n
  <2> QED
    BY <2>2, <2>3, <2>4
<1>2. T = {s[i] : i \in 1 .. n}
  BY <1>1 DEF ToSet
<1> HIDE DEF n, T
<1>3. \A i, j \in 1 .. n : Before(s[i], s[j]) <=> i < j
  <2> SUFFICES ASSUME NEW i \in 1 .. n, NEW j \in 1 .. n, Before(s[i], s[j]), ~(i < j)
               PROVE  FALSE
    BY <1>1
  <2>1. CASE i = j
    BY <1>1, <2>1, BeforeOrders
  <2>2. CASE j < i
    BY <1>1, <2>2, BeforeOrders
  <2> QED
    BY <1>1, <2>1, <2>2
<1>4. \A i, j \in 1 .. n : i # j => s[i] # s[j]
  BY <1>1, <1>3
<1>5. ASSUME NEW k \in 0 .. n
      PROVE  Cardinality({s[i] : i \in 1 .. k}) = k
  <2> DEFINE f == [i \in 1 .. k |-> s[i]]
             first == {s[i] : i \in 1 .. k}
  <2>1. f \in Bijection(1 .. k, first)
    <3>1. f \in [1 .. k -> first] /\ \A i \in 1 .. k : f[i] = s[i]
      OBVIOUS
    <3>2. \A i, j \in 1 .. k : f[i] = f[j] => i = j
      BY <1>1, <1>4, <3>1
    <3>3. \A x \in first : \E i \in 1 .. k : f[i] = x
      OBVIOUS
    <3> HIDE DEF f, first
    <3> QED
      BY <3>1, <3>2, <3>3 DEF Bijection, Injection, Surjection, IsInjective
  <2>2. ExistsBijection(1 .. k, first)
    BY <2>1 DEF ExistsBijection
  <2>3. k \in Nat
    BY <1>1
  <2> HIDE DEF first
  <2>4. Cardinality(first) = k
    BY <2>2, <2>3, FS_CountingElements
  <2> QED
    BY <2>4 DEF first
<1>6. Cardinality(T) = n
  BY <1>1, <1>2, <1>5
<1>7. \A i \in 1 .. n : Cardinality(Earlier(T, s[i])) = i - 1
  <2> SUFFICES ASSUME NEW i \in 1 .. n
               PROVE  Cardinality(Earlier(T, s[i])) = i - 1
    OBVIOUS
  <2>1. Earlier(T, s[i]) = {s[k] : k \in 1 .. i - 1}
    <3>1. ASSUME NEW x \in Earlier(T, s[i])
          PROVE  x \in {s[k] : k \in 1 .. i - 1}
      <4>1. PICK k \in 1 .. n : x = s[k]
        BY <1>2, <3>1 DEF Earlier
      <4>2. k < i
        BY <1>3, <3>1, <4>1 DEF Earlier
      <4> QED
        BY <1>1, <4>1, <4>2
    <3>2. ASSUME NEW k \in 1 .. i - 1
          PROVE  s[k] \in Earlier(T, s[i])
      BY <1>1, <1>2, <1>3 DEF Earlier
    <3> QED
      BY <3>1, <3>2
  <2>2. i - 1 \in 0 .. n
    BY <1>1
  <2> QED
    BY <1>5, <2>1, <2>2
<1>8. \A i \in 1 .. n :
        (CHOOSE row \in T : Place(T, row) = i - 1) = s[i]
  <2> SUFFICES ASSUME NEW i \in 1 .. n
               PROVE  (CHOOSE row \in T : Place(T, row) = i - 1) = s[i]
    OBVIOUS
  <2>1. s[i] \in T /\ Place(T, s[i]) = i - 1
    BY <1>2, <1>7, PlaceIs
  <2>2. ASSUME NEW row \in T, Place(T, row) = i - 1
        PROVE  row = s[i]
    <3>1. PICK k \in 1 .. n : row = s[k]
      BY <1>2
    <3>2. Place(T, s[k]) = k - 1
      BY <1>7, PlaceIs
    <3>3. k - 1 = i - 1
      BY <2>2, <3>1, <3>2
    <3>4. k = i
      BY <3>3
    <3> QED
      BY <3>1, <3>4
  <2> QED
    BY <2>1, <2>2
<1>9. Sorted(T) = [i \in 1 .. n |-> s[i]]
  <2>1. Sorted(T) = [i \in 1 .. n |-> CHOOSE row \in T : Place(T, row) = i - 1]
    BY <1>6 DEF Sorted, Place
  <2> QED
    BY <1>8, <2>1
<1> QED
  BY <1>1, <1>9 DEF T

Below == {pair \in Nat \X Nat : pair[1] < pair[2]}

\* A set of natural numbers has a least one.
LEMMA LeastPlace ==
  ASSUME NEW T, T \subseteq Nat, T # {}
  PROVE  \E m \in T : \A k \in T : m <= k
<1>1. IsWellFoundedOn(Below, Nat)
  BY NatLessThanWellFounded, Zenon DEF OpToRel, Below
<1>2. PICK m \in T : \A k \in T : ~ (<<k, m>> \in Below)
  BY <1>1, WFMin
<1>3. \A k \in T : ~ (k < m)
  BY <1>2 DEF Below
<1> QED
  BY <1>3

\* What a list is without one of its places.
LEMMA Removed ==
  ASSUME NEW S, NEW s \in Seq(S), NEW at \in 1 .. Len(s)
  PROVE  /\ RemoveAt(s, at) \in Seq(S) /\ Len(s) \in Nat
         /\ Len(RemoveAt(s, at)) = Len(s) - 1
         /\ \A i \in 1 .. Len(s) - 1 :
              RemoveAt(s, at)[i] = IF i < at THEN s[i] ELSE s[i + 1]
<1> DEFINE a == SubSeq(s, 1, at - 1)
           b == SubSeq(s, at + 1, Len(s))
<1>1. Len(s) \in Nat /\ at \in 1 .. Len(s)
  BY LenProperties
<1>2. /\ a \in Seq(S) /\ Len(a) = at - 1
      /\ \A i \in 1 .. at - 1 : a[i] = s[i]
  BY <1>1, SubSeqProperties
<1>3. /\ b \in Seq(S) /\ Len(b) = Len(s) - at
      /\ \A i \in 1 .. Len(s) - at : b[i] = s[at + i]
  BY <1>1, SubSeqProperties
<1>4. RemoveAt(s, at) = a \o b
  BY DEF RemoveAt
<1> HIDE DEF a, b
<1>5. /\ a \o b \in Seq(S) /\ Len(a \o b) = Len(a) + Len(b)
      /\ \A i \in 1 .. Len(a) + Len(b) :
           (a \o b)[i] = IF i <= Len(a) THEN a[i] ELSE b[i - Len(a)]
  BY <1>2, <1>3, ConcatProperties
<1>6. \A i \in 1 .. Len(s) - 1 : (a \o b)[i] = IF i < at THEN s[i] ELSE s[i + 1]
  <2> SUFFICES ASSUME NEW i \in 1 .. Len(s) - 1
               PROVE  (a \o b)[i] = IF i < at THEN s[i] ELSE s[i + 1]
    OBVIOUS
  <2>1. (a \o b)[i] = IF i <= at - 1 THEN a[i] ELSE b[i - (at - 1)]
    BY <1>1, <1>2, <1>3, <1>5
  <2>2. CASE i < at
    BY <1>1, <1>2, <2>1, <2>2
  <2>3. CASE ~(i < at)
    <3>1. i - (at - 1) \in 1 .. Len(s) - at /\ at + (i - (at - 1)) = i + 1
      BY <1>1, <2>3
    <3>2. b[i - (at - 1)] = s[i + 1]
      BY <1>3, <3>1
    <3> QED
      BY <1>1, <2>1, <2>3, <3>2
  <2> QED
    BY <2>2, <2>3
<1> QED
  BY <1>1, <1>2, <1>3, <1>4, <1>5, <1>6

\* And with one more.
LEMMA Inserted ==
  ASSUME NEW S, NEW s \in Seq(S), NEW at \in 1 .. Len(s) + 1, NEW new \in S
  PROVE  /\ InsertAt(s, at, new) \in Seq(S) /\ Len(s) \in Nat
         /\ Len(InsertAt(s, at, new)) = Len(s) + 1
         /\ \A i \in 1 .. Len(s) + 1 :
              InsertAt(s, at, new)[i] =
                IF i < at THEN s[i] ELSE IF i = at THEN new ELSE s[i - 1]
<1> DEFINE a == SubSeq(s, 1, at - 1)
           b == SubSeq(s, at, Len(s))
           c == a \o <<new>>
<1>1. Len(s) \in Nat /\ at \in 1 .. Len(s) + 1
  BY LenProperties
<1>2. /\ a \in Seq(S) /\ Len(a) = at - 1
      /\ \A i \in 1 .. at - 1 : a[i] = s[i]
  BY <1>1, SubSeqProperties
<1>3. /\ b \in Seq(S) /\ Len(b) = Len(s) + 1 - at
      /\ \A i \in 1 .. Len(s) + 1 - at : b[i] = s[at + i - 1]
  BY <1>1, SubSeqProperties
<1>4. InsertAt(s, at, new) = c \o b
  BY DEF InsertAt
<1> HIDE DEF a, b
<1>5. /\ <<new>> \in Seq(S) /\ Len(<<new>>) = 1 /\ <<new>>[1] = new
  OBVIOUS
<1>6. /\ c \in Seq(S) /\ Len(c) = at
      /\ \A i \in 1 .. at : c[i] = IF i < at THEN s[i] ELSE new
  <2>1. /\ c \in Seq(S) /\ Len(c) = Len(a) + 1
        /\ \A i \in 1 .. Len(a) + 1 :
             c[i] = IF i <= Len(a) THEN a[i] ELSE <<new>>[i - Len(a)]
    BY <1>2, <1>5, ConcatProperties
  <2> HIDE DEF c
  <2>2. \A i \in 1 .. at : c[i] = IF i < at THEN s[i] ELSE new
    BY <1>1, <1>2, <1>5, <2>1
  <2> QED
    BY <1>1, <1>2, <2>1, <2>2
<1> HIDE DEF c
<1>7. /\ c \o b \in Seq(S) /\ Len(c \o b) = Len(c) + Len(b)
      /\ \A i \in 1 .. Len(c) + Len(b) :
           (c \o b)[i] = IF i <= Len(c) THEN c[i] ELSE b[i - Len(c)]
  BY <1>3, <1>6, ConcatProperties
<1>8. \A i \in 1 .. Len(s) + 1 :
        (c \o b)[i] = IF i < at THEN s[i] ELSE IF i = at THEN new ELSE s[i - 1]
  BY <1>1, <1>3, <1>6, <1>7
<1> QED
  BY <1>1, <1>3, <1>4, <1>6, <1>7, <1>8

\* The place for a new row in a list (lower_bound).
LEMMA InsertionPlace ==
  ASSUME IsList(rows), NEW row \in Rows
  PROVE  /\ InsertionRow(row) \in 1 .. Len(rows) + 1
         /\ \A i \in 1 .. Len(rows) : Before(rows[i], row) <=> i < InsertionRow(row)
<1> DEFINE n == Len(rows)
           T == {i \in 1 .. n + 1 : i = n + 1 \/ ~Before(rows[i], row)}
<1>1. /\ n \in Nat /\ DOMAIN rows = 1 .. n
      /\ \A i \in 1 .. n : rows[i] \in Rows
  BY LenProperties, ElementOfSeq DEF IsList
<1>2. \A some \in Rows : some.id \in Nat /\ some.url \in Nat
  BY LauncherAssumption DEF Rows, Ids
<1>3. \A i, j \in 1 .. n : i < j => Before(rows[i], rows[j])
  BY DEF IsList, InOrder
<1>4. InsertionRow(row) = 1 + Cardinality({i \in 1 .. n : Before(rows[i], row)})
  BY <1>1 DEF InsertionRow
<1> HIDE DEF n
<1>5. PICK p \in T : \A k \in T : p <= k
  <2>1. T \subseteq Nat /\ n + 1 \in T
    BY <1>1
  <2> HIDE DEF T
  <2> QED
    BY <2>1, LeastPlace
<1>6. p \in 1 .. n + 1
  BY <1>5
<1>7. \A i \in 1 .. n : Before(rows[i], row) <=> i < p
  <2>1. ASSUME NEW i \in 1 .. n, i < p
        PROVE  Before(rows[i], row)
    BY <1>1, <1>5, <1>6, <2>1
  <2>2. ASSUME NEW i \in 1 .. n, ~(i < p), Before(rows[i], row)
        PROVE  FALSE
    <3>1. p \in 1 .. n /\ ~Before(rows[p], row)
      BY <1>1, <1>5, <1>6, <2>2
    <3>2. i # p
      BY <2>2, <3>1
    <3>3. p < i
      BY <1>1, <2>2, <3>1, <3>2
    <3>4. Before(rows[p], rows[i])
      BY <1>3, <3>1, <3>3
    <3> QED
      BY <1>1, <1>2, <2>2, <3>1, <3>4, BeforeOrders
  <2> QED
    BY <2>1, <2>2
<1>8. {i \in 1 .. n : Before(rows[i], row)} = 1 .. p - 1
  BY <1>1, <1>6, <1>7
<1>9. Cardinality(1 .. p - 1) = p - 1
  BY <1>1, <1>6, FS_Interval
<1>10. InsertionRow(row) = p
  <2>1. InsertionRow(row) = 1 + Cardinality(1 .. p - 1)
    BY <1>4, <1>8
  <2> QED
    BY <1>1, <1>6, <1>9, <2>1
<1> QED
  BY <1>6, <1>7, <1>10 DEF n

\* A row that is inserted in its place leaves a list.
LEMMA InsertedIs ==
  ASSUME IsList(rows), NEW row \in Rows,
         \A i \in 1 .. Len(rows) : rows[i].id # row.id
  PROVE  LET table == InsertAt(rows, InsertionRow(row), row)
         IN  /\ IsList(table)
             /\ \A i \in 1 .. Len(table) :
                  table[i] = row \/ \E k \in 1 .. Len(rows) : table[i] = rows[k]
             /\ \A k \in 1 .. Len(rows) : \E i \in 1 .. Len(table) : table[i] = rows[k]
             /\ \E i \in 1 .. Len(table) : table[i] = row
<1> DEFINE n == Len(rows)
           p == InsertionRow(row)
           table == InsertAt(rows, p, row)
<1>1. /\ p \in 1 .. n + 1
      /\ \A i \in 1 .. n : Before(rows[i], row) <=> i < p
  BY InsertionPlace
<1>2. /\ rows \in Seq(Rows)
      /\ \A i, j \in 1 .. n : i < j => Before(rows[i], rows[j])
      /\ \A i, j \in 1 .. n : i # j => rows[i].id # rows[j].id
  BY DEF IsList, InOrder, OneEach
<1>3. /\ n \in Nat /\ \A i \in 1 .. n : rows[i] \in Rows
  BY <1>2, LenProperties, ElementOfSeq
<1>4. \A some \in Rows : some.id \in Nat /\ some.url \in Nat
  BY LauncherAssumption DEF Rows, Ids
<1> HIDE DEF n, p
<1>5. /\ table \in Seq(Rows) /\ Len(table) = n + 1
      /\ \A i \in 1 .. n + 1 :
           table[i] = IF i < p THEN rows[i] ELSE IF i = p THEN row ELSE rows[i - 1]
  BY <1>1, <1>2, Inserted DEF n
<1> HIDE DEF table
<1>6. \A i \in 1 .. n : ~(i < p) => Before(row, rows[i])
  <2> SUFFICES ASSUME NEW i \in 1 .. n, ~(i < p)
               PROVE  Before(row, rows[i])
    OBVIOUS
  <2>1. ~Before(rows[i], row) /\ rows[i].id # row.id
    BY <1>1 DEF n
  <2> QED
    BY <1>3, <1>4, <2>1, BeforeOrders
<1>7. \A i, j \in 1 .. n + 1 : i < j => Before(table[i], table[j])
  <2> SUFFICES ASSUME NEW i \in 1 .. n + 1, NEW j \in 1 .. n + 1, i < j
               PROVE  Before(table[i], table[j])
    OBVIOUS
  <2>1. CASE j < p
    BY <1>1, <1>2, <1>3, <1>5, <2>1
  <2>2. CASE j = p
    <3>1. table[i] = rows[i] /\ table[j] = row /\ i \in 1 .. n /\ i < p
      BY <1>1, <1>3, <1>5, <2>2
    <3> QED
      BY <1>1, <3>1
  <2>3. CASE p < j /\ i = p
    <3>1. table[i] = row /\ table[j] = rows[j - 1] /\ j - 1 \in 1 .. n /\ ~(j - 1 < p)
      BY <1>1, <1>3, <1>5, <2>3
    <3> QED
      BY <1>6, <3>1
  <2>4. CASE p < j /\ i < p
    <3>1. table[i] = rows[i] /\ table[j] = rows[j - 1] /\ j - 1 \in 1 .. n /\ i \in 1 .. n
          /\ i < j - 1
      BY <1>1, <1>3, <1>5, <2>4
    <3> QED
      BY <1>2, <3>1
  <2>5. CASE p < j /\ p < i
    <3>1. table[i] = rows[i - 1] /\ table[j] = rows[j - 1] /\ j - 1 \in 1 .. n
          /\ i - 1 \in 1 .. n /\ i - 1 < j - 1
      BY <1>1, <1>3, <1>5, <2>5
    <3> QED
      BY <1>2, <3>1
  <2> QED
    BY <1>1, <1>3, <2>1, <2>2, <2>3, <2>4, <2>5
<1>8. \A i \in 1 .. n + 1 : table[i] = row \/ \E k \in 1 .. n : table[i] = rows[k]
  <2> SUFFICES ASSUME NEW i \in 1 .. n + 1, i # p
               PROVE  \E k \in 1 .. n : table[i] = rows[k]
    BY <1>5
  <2>1. CASE i < p
    BY <1>1, <1>3, <1>5, <2>1
  <2>2. CASE p < i
    <3>1. i - 1 \in 1 .. n /\ table[i] = rows[i - 1]
      BY <1>1, <1>3, <1>5, <2>2
    <3> QED
      BY <3>1
  <2> QED
    BY <1>1, <1>3, <2>1, <2>2
<1>9. \A k \in 1 .. n : \E i \in 1 .. n + 1 : table[i] = rows[k]
  <2> SUFFICES ASSUME NEW k \in 1 .. n
               PROVE  \E i \in 1 .. n + 1 : table[i] = rows[k]
    OBVIOUS
  <2>1. CASE k < p
    <3>1. k \in 1 .. n + 1 /\ table[k] = rows[k]
      BY <1>1, <1>3, <1>5, <2>1
    <3> QED
      BY <3>1
  <2>2. CASE ~(k < p)
    <3>1. k + 1 \in 1 .. n + 1 /\ table[k + 1] = rows[k]
      BY <1>1, <1>3, <1>5, <2>2
    <3> QED
      BY <3>1
  <2> QED
    BY <2>1, <2>2
<1>10. p \in 1 .. n + 1 /\ table[p] = row
  BY <1>1, <1>3, <1>5 DEF n
<1>11. \A i \in 1 .. n + 1 : table[i] \in Rows
  BY <1>3, <1>8
<1>12. \A i, j \in 1 .. n + 1 : i # j => table[i].id # table[j].id
  <2> SUFFICES ASSUME NEW i \in 1 .. n + 1, NEW j \in 1 .. n + 1, i < j
               PROVE  table[i].id # table[j].id
    BY <1>3
  <2>1. table[i] # table[j]
    <3>1. Before(table[i], table[j])
      BY <1>7
    <3> QED
      BY <1>4, <1>11, <3>1, BeforeOrders
  <2> QED
    <3>1. CASE table[i] = row
      BY <1>8, <2>1, <3>1 DEF n
    <3>2. CASE table[j] = row
      BY <1>8, <2>1, <3>2 DEF n
    <3>3. CASE table[i] # row /\ table[j] # row
      <4>1. PICK a \in 1 .. n : table[i] = rows[a]
        BY <1>8, <3>3
      <4>2. PICK b \in 1 .. n : table[j] = rows[b]
        BY <1>8, <3>3
      <4>3. a # b
        BY <2>1, <4>1, <4>2
      <4> QED
        BY <1>2, <4>1, <4>2, <4>3
    <3> QED
      BY <3>1, <3>2, <3>3
<1>13. IsList(table)
  BY <1>5, <1>7, <1>12 DEF IsList, InOrder, OneEach
<1> QED
  BY <1>5, <1>8, <1>9, <1>10, <1>13 DEF table, p, n

-----------------------------------------------------------------------------
\* The list.

\* What the rows say of the store.
StoreInv ==
  /\ store \in [Ids -> Values]
  /\ hosts \in Nat
  /\ \A id \in Ids : hosts < id => store[id] = NoKey /\ id \notin torn
  /\ \A i \in 1 .. Len(rows) : rows[i].id <= hosts
  /\ \A i \in 1 .. Len(rows) :
       rows[i].id \notin torn => store[rows[i].id] = Key(rows[i].url, rows[i].credentials)
  /\ \A id \in Ids \ torn :
       (\A i \in 1 .. Len(rows) : rows[i].id # id) => store[id] = NoKey

\* And of each other.
AddressInv ==
  \A i, j \in 1 .. Len(rows) :
    i # j /\ rows[i].url = rows[j].url => rows[i].id \in leftover \/ rows[j].id \in leftover

\* Failures are counted while the last answer was one.
FailInv ==
  /\ failures \in [Ids -> Nat]
  /\ \A id \in Ids : 0 < failures[id] => id \in failedLast

ListInv == IsList(rows) /\ StoreInv /\ AddressInv
LauncherInv == ListInv /\ FailInv

\* A list without duplicates stays one whatever the probes say.
LEMMA SameIsList ==
  ASSUME NEW table, IsList(table), NEW other, SameHosts(table, other)
  PROVE  IsList(other)
BY DEF IsList, SameHosts, InOrder, OneEach, Before

\* What a row is.
LEMMA RowIs ==
  ASSUME NEW id \in Ids, NEW url \in Nat \ {0}, NEW credentials \in Nat,
         NEW status \in Statuses
  PROVE  /\ Row(id, url, credentials, status) \in Rows
         /\ Row(id, url, credentials, status).id = id
         /\ Row(id, url, credentials, status).url = url
         /\ Row(id, url, credentials, status).credentials = credentials
         /\ Row(id, url, credentials, status).status = status
BY DEF Row, Rows

\* What a key is.
LEMMA KeyIs ==
  ASSUME NEW url \in Nat, NEW credentials \in Nat
  PROVE  /\ Key(url, credentials) \in Values /\ NoKey \in Values
         /\ Key(url, credentials).url = url
         /\ NoKey.url = 0
BY DEF Key, NoKey, Values

\* The rows that start() makes of the store.
LEMMA Loaded ==
  ASSUME store \in [Ids -> Values]
  PROVE  /\ IsList(LoadHosts)
         /\ \A i \in 1 .. Len(LoadHosts) :
              /\ LoadHosts[i].id \in Ids
              /\ Readable(LoadHosts[i].id)
              /\ LoadHosts[i] = ReadHost(LoadHosts[i].id)
         /\ \A id \in Ids :
              Readable(id) =>
                \E i \in 1 .. Len(LoadHosts) : LoadHosts[i].id = id
<1> DEFINE some == {i \in Ids : Readable(i)}
           set == {ReadHost(id) : id \in some}
<1>1. \A id \in some : ReadHost(id) \in Rows /\ ReadHost(id).id = id
  <2> SUFFICES ASSUME NEW id \in Ids, Readable(id)
               PROVE  ReadHost(id) \in Rows /\ ReadHost(id).id = id
    OBVIOUS
  <2>1. store[id].url \in Nat \ {0} /\ store[id].credentials \in Nat /\ "unknown" \in Statuses
    BY DEF Values, Statuses, Readable
  <2> QED
    BY <2>1, RowIs DEF ReadHost
<1>2. set \subseteq Rows /\ \A a, b \in set : a.id = b.id => a = b
  BY <1>1
<1>3. IsFiniteSet(set)
  <2>1. IsFiniteSet(some)
    <3>1. IsFiniteSet(Ids) /\ some \in SUBSET Ids
      BY FS_Interval, LauncherAssumption DEF Ids
    <3> QED
      BY <3>1, FS_Subset
  <2> DEFINE f == [id \in some |-> ReadHost(id)]
  <2>2. f \in Surjection(some, set)
    BY DEF Surjection
  <2> QED
    BY <2>1, <2>2, FS_Surjection
<1>4. LoadHosts = Sorted(set)
  BY DEF LoadHosts
<1>5. /\ IsList(LoadHosts)
      /\ \A i \in 1 .. Len(LoadHosts) : LoadHosts[i] \in set
      /\ \A row \in set : \E i \in 1 .. Len(LoadHosts) : LoadHosts[i] = row
  BY <1>2, <1>3, <1>4, SortedIs
<1>6. \A i \in 1 .. Len(LoadHosts) :
        /\ LoadHosts[i].id \in Ids
        /\ Readable(LoadHosts[i].id)
        /\ LoadHosts[i] = ReadHost(LoadHosts[i].id)
  BY <1>1, <1>5
<1>7. \A id \in Ids :
        Readable(id) =>
          \E i \in 1 .. Len(LoadHosts) : LoadHosts[i].id = id
  BY <1>1, <1>5
<1> QED
  BY <1>5, <1>6, <1>7

\* What becomes of the rows when probes are started for them.
LEMMA ProbesStarted ==
  ASSUME NEW table, IsList(table), NEW flying, StartProbes(table, flying)
  PROVE  /\ SameHosts(table, rows') /\ IsList(rows')
         /\ \A i \in 1 .. Len(table) : rows'[i].status \in {table[i].status, "checking"}
<1>1. /\ table \in Seq(Rows) /\ Len(table) \in Nat /\ DOMAIN table = 1 .. Len(table)
      /\ \A i \in 1 .. Len(table) : table[i] \in Rows
  BY LenProperties, ElementOfSeq DEF IsList
<1>2. rows' = [i \in 1 .. Len(table) |->
                 IF table[i].id \notin flying /\ table[i].status = "unknown"
                 THEN [table[i] EXCEPT !.status = "checking"] ELSE table[i]]
  BY <1>1 DEF StartProbes
<1>3. \A i \in 1 .. Len(table) :
        /\ rows'[i] \in Rows
        /\ rows'[i].id = table[i].id
        /\ rows'[i].url = table[i].url
        /\ rows'[i].credentials = table[i].credentials
        /\ rows'[i].status \in {table[i].status, "checking"}
  <2> SUFFICES ASSUME NEW i \in 1 .. Len(table)
               PROVE  /\ rows'[i] \in Rows
                      /\ rows'[i].id = table[i].id
                      /\ rows'[i].url = table[i].url
                      /\ rows'[i].credentials = table[i].credentials
                      /\ rows'[i].status \in {table[i].status, "checking"}
    OBVIOUS
  <2>1. rows'[i] \in {table[i], [table[i] EXCEPT !.status = "checking"]}
    BY <1>2
  <2>2. table[i] \in Rows
    BY <1>1
  <2> HIDE DEF Statuses
  <2>3. "checking" \in Statuses
    BY DEF Statuses
  <2> QED
    BY <2>1, <2>2, <2>3 DEF Rows
<1>4. rows' \in Seq(Rows) /\ Len(rows') = Len(table)
  <2>1. rows' = [i \in 1 .. Len(table) |-> rows'[i]]
    BY <1>2
  <2>2. rows' \in [1 .. Len(table) -> Rows]
    BY <1>3, <2>1
  <2> QED
    BY <1>1, <2>2, LenProperties
<1>5. SameHosts(table, rows')
  BY <1>3, <1>4 DEF SameHosts
<1> QED
  BY <1>3, <1>5, SameIsList

\* Where a row of a host is.
LEMMA RowAt ==
  ASSUME IsList(rows), NEW id, HasRow(id)
  PROVE  /\ IndexForId(id) \in 1 .. Len(rows)
         /\ rows[IndexForId(id)].id = id
         /\ rows[IndexForId(id)] \in Rows
         /\ id \in Ids
         /\ Len(rows) \in Nat
<1>1. /\ DOMAIN rows = 1 .. Len(rows) /\ Len(rows) \in Nat
      /\ \A i \in 1 .. Len(rows) : rows[i] \in Rows
  BY LenProperties, ElementOfSeq DEF IsList
<1>2. IndexForId(id) \in 1 .. Len(rows) /\ rows[IndexForId(id)].id = id
  BY <1>1 DEF HasRow, IndexForId
<1> QED
  BY <1>1, <1>2 DEF Rows

\* A step that leaves the hosts alone.
LEMMA HostsSame ==
  ASSUME ListInv, SameHosts(rows, rows'), UNCHANGED <<store, torn, leftover, hosts>>
  PROVE  ListInv'
<1>1. IsList(rows')
  BY SameIsList DEF ListInv
<1>2. StoreInv'
  BY DEF ListInv, StoreInv, SameHosts
<1>3. AddressInv'
  BY DEF ListInv, AddressInv, SameHosts
<1> QED
  BY <1>1, <1>2, <1>3 DEF ListInv

\* A write that failed half way or altogether, of a host that is there or comes to be.
LEMMA HalfWritten ==
  ASSUME ListInv, NEW id \in Ids, SameHosts(rows, rows'), UNCHANGED leftover,
         hosts' \in Nat, hosts <= hosts', id <= hosts',
         store' \in [Ids -> Values],
         \A other \in Ids \ {id} :
           store'[other] = store[other] /\ (other \in torn' <=> other \in torn),
         id \in torn' \/ (store' = store /\ torn' = torn)
  PROVE  ListInv'
<1>1. IsList(rows')
  BY SameIsList DEF ListInv
<1>2. AddressInv'
  BY DEF ListInv, AddressInv, SameHosts
<1>3. /\ \A i \in 1 .. Len(rows) : rows[i] \in Rows
      /\ \A i \in 1 .. Len(rows) : rows[i].id \in Ids
  <2>1. \A i \in 1 .. Len(rows) : rows[i] \in Rows
    BY ElementOfSeq DEF ListInv, IsList
  <2>2. \A row \in Rows : row.id \in Ids
    BY DEF Rows
  <2> QED
    BY <2>1, <2>2
<1>4. /\ Len(rows') = Len(rows)
      /\ \A i \in 1 .. Len(rows) :
           /\ rows'[i].id = rows[i].id /\ rows'[i].url = rows[i].url
           /\ rows'[i].credentials = rows[i].credentials
  BY DEF SameHosts
<1>5. /\ hosts \in Nat /\ \A some \in Ids : some \in Int
  BY DEF ListInv, StoreInv, Ids
<1>6. \A some \in Ids : hosts' < some => store'[some] = NoKey /\ some \notin torn'
  <2> SUFFICES ASSUME NEW some \in Ids, hosts' < some
               PROVE  store'[some] = NoKey /\ some \notin torn'
    OBVIOUS
  <2>1. hosts < some /\ some # id
    BY <1>5
  <2>2. store[some] = NoKey /\ some \notin torn
    BY <2>1 DEF ListInv, StoreInv
  <2> QED
    BY <2>1, <2>2
<1>7. \A i \in 1 .. Len(rows') : rows'[i].id <= hosts'
  <2> SUFFICES ASSUME NEW i \in 1 .. Len(rows)
               PROVE  rows[i].id <= hosts'
    BY <1>4
  <2>1. rows[i].id <= hosts /\ rows[i].id \in Int
    BY <1>3, <1>5 DEF ListInv, StoreInv
  <2> QED
    BY <1>5, <2>1
<1>8. \A i \in 1 .. Len(rows') :
        rows'[i].id \notin torn' =>
          store'[rows'[i].id] = Key(rows'[i].url, rows'[i].credentials)
  <2> SUFFICES ASSUME NEW i \in 1 .. Len(rows), rows[i].id \notin torn'
               PROVE  store'[rows[i].id] = Key(rows[i].url, rows[i].credentials)
    BY <1>4
  <2>1. rows[i].id \notin torn => store[rows[i].id] = Key(rows[i].url, rows[i].credentials)
    BY DEF ListInv, StoreInv
  <2> QED
    BY <1>3, <2>1
<1>9. \A some \in Ids \ torn' :
        (\A i \in 1 .. Len(rows') : rows'[i].id # some) => store'[some] = NoKey
  <2> SUFFICES ASSUME NEW some \in Ids \ torn', \A i \in 1 .. Len(rows) : rows[i].id # some
               PROVE  store'[some] = NoKey
    BY <1>4
  <2>1. some \notin torn => store[some] = NoKey
    BY DEF ListInv, StoreInv
  <2> QED
    BY <2>1
<1> QED
  BY <1>1, <1>2, <1>6, <1>7, <1>8, <1>9 DEF ListInv, StoreInv

\* A write that succeeded, of a host whose address is new or the one it has.
LEMMA WrittenWhole ==
  ASSUME ListInv, NEW id \in Ids, NEW url \in Nat, NEW credentials \in Nat,
         UNCHANGED leftover, IsList(rows'),
         hosts' \in Nat, hosts <= hosts', id <= hosts',
         store' \in [Ids -> Values],
         \A other \in Ids \ {id} :
           store'[other] = store[other] /\ (other \in torn' <=> other \in torn),
         id \notin torn' /\ store'[id] = Key(url, credentials),
         \A j \in 1 .. Len(rows') :
           \/ rows'[j].id = id /\ rows'[j].url = url /\ rows'[j].credentials = credentials
           \/ \E i \in 1 .. Len(rows) :
                /\ rows[i].id # id /\ rows'[j].id = rows[i].id /\ rows'[j].url = rows[i].url
                /\ rows'[j].credentials = rows[i].credentials,
         \A i \in 1 .. Len(rows) :
           rows[i].id # id => \E j \in 1 .. Len(rows') : rows'[j].id = rows[i].id,
         \E j \in 1 .. Len(rows') : rows'[j].id = id,
         \/ \A i \in 1 .. Len(rows) : rows[i].url # url
         \/ \E i \in 1 .. Len(rows) : rows[i].id = id /\ rows[i].url = url
  PROVE  ListInv'
<1>1. /\ \A i \in 1 .. Len(rows) : rows[i] \in Rows
      /\ \A i \in 1 .. Len(rows) : rows[i].id \in Ids
  <2>1. \A i \in 1 .. Len(rows) : rows[i] \in Rows
    BY ElementOfSeq DEF ListInv, IsList
  <2>2. \A row \in Rows : row.id \in Ids
    BY DEF Rows
  <2> QED
    BY <2>1, <2>2
<1>2. /\ hosts \in Nat /\ \A some \in Ids : some \in Int
  BY DEF ListInv, StoreInv, Ids
<1>3. \A some \in Ids : hosts' < some => store'[some] = NoKey /\ some \notin torn'
  <2> SUFFICES ASSUME NEW some \in Ids, hosts' < some
               PROVE  store'[some] = NoKey /\ some \notin torn'
    OBVIOUS
  <2>1. hosts < some /\ some # id
    BY <1>2
  <2>2. store[some] = NoKey /\ some \notin torn
    BY <2>1 DEF ListInv, StoreInv
  <2> QED
    BY <2>1, <2>2
<1>4. \A j \in 1 .. Len(rows') : rows'[j].id <= hosts'
  <2> SUFFICES ASSUME NEW j \in 1 .. Len(rows'), rows'[j].id # id
               PROVE  rows'[j].id <= hosts'
    OBVIOUS
  <2>1. PICK i \in 1 .. Len(rows) : rows'[j].id = rows[i].id
    OBVIOUS
  <2>2. rows[i].id <= hosts /\ rows[i].id \in Int
    BY <1>1, <1>2 DEF ListInv, StoreInv
  <2> QED
    BY <1>2, <2>1, <2>2
<1>5. \A j \in 1 .. Len(rows') :
        rows'[j].id \notin torn' =>
          store'[rows'[j].id] = Key(rows'[j].url, rows'[j].credentials)
  <2> SUFFICES ASSUME NEW j \in 1 .. Len(rows'), rows'[j].id \notin torn'
               PROVE  store'[rows'[j].id] = Key(rows'[j].url, rows'[j].credentials)
    OBVIOUS
  <2>1. CASE rows'[j].id = id /\ rows'[j].url = url /\ rows'[j].credentials = credentials
    BY <2>1
  <2>2. ASSUME NEW i \in 1 .. Len(rows),
               rows[i].id # id /\ rows'[j].id = rows[i].id /\ rows'[j].url = rows[i].url,
               rows'[j].credentials = rows[i].credentials
        PROVE  store'[rows'[j].id] = Key(rows'[j].url, rows'[j].credentials)
    <3>1. rows[i].id \notin torn => store[rows[i].id] = Key(rows[i].url, rows[i].credentials)
      BY DEF ListInv, StoreInv
    <3> QED
      BY <1>1, <2>2, <3>1
  <2> QED
    BY <2>1, <2>2
<1>6. \A some \in Ids \ torn' :
        (\A j \in 1 .. Len(rows') : rows'[j].id # some) => store'[some] = NoKey
  <2> SUFFICES ASSUME NEW some \in Ids \ torn', \A j \in 1 .. Len(rows') : rows'[j].id # some
               PROVE  store'[some] = NoKey
    OBVIOUS
  <2>1. some # id
    OBVIOUS
  <2>2. \A i \in 1 .. Len(rows) : rows[i].id # some
    BY <2>1
  <2>3. some \notin torn => store[some] = NoKey
    BY <2>2 DEF ListInv, StoreInv
  <2> QED
    BY <2>1, <2>3
<1>7. StoreInv'
  BY <1>3, <1>4, <1>5, <1>6 DEF StoreInv
<1>8. AddressInv'
  <2> SUFFICES ASSUME NEW j \in 1 .. Len(rows'), NEW k \in 1 .. Len(rows'), j # k,
                      rows'[j].url = rows'[k].url
               PROVE  rows'[j].id \in leftover \/ rows'[k].id \in leftover
    BY DEF AddressInv
  <2>1. rows'[j].id # rows'[k].id
    BY DEF IsList, OneEach
  <2>2. ASSUME NEW i \in 1 .. Len(rows), rows[i].id # id, rows[i].url = url
        PROVE  rows[i].id \in leftover \/ id \in leftover
    <3>1. PICK own \in 1 .. Len(rows) : rows[own].id = id /\ rows[own].url = url
      BY <2>2
    <3> QED
      BY <2>2, <3>1 DEF ListInv, AddressInv
  <2>3. CASE rows'[j].id = id
    <3>1. rows'[j].url = url
      BY <2>3
    <3>2. PICK i \in 1 .. Len(rows) :
            rows[i].id # id /\ rows'[k].id = rows[i].id /\ rows'[k].url = rows[i].url
      BY <2>1, <2>3
    <3> QED
      BY <2>2, <2>3, <3>1, <3>2
  <2>4. CASE rows'[k].id = id
    <3>1. rows'[k].url = url
      BY <2>4
    <3>2. PICK i \in 1 .. Len(rows) :
            rows[i].id # id /\ rows'[j].id = rows[i].id /\ rows'[j].url = rows[i].url
      BY <2>1, <2>4
    <3> QED
      BY <2>2, <2>4, <3>1, <3>2
  <2>5. CASE rows'[j].id # id /\ rows'[k].id # id
    <3>1. PICK a \in 1 .. Len(rows) : rows'[j].id = rows[a].id /\ rows'[j].url = rows[a].url
      BY <2>5
    <3>2. PICK b \in 1 .. Len(rows) : rows'[k].id = rows[b].id /\ rows'[k].url = rows[b].url
      BY <2>5
    <3>3. a # b
      BY <2>1, <3>1, <3>2
    <3>4. rows[a].url = rows[b].url
      BY <3>1, <3>2
    <3>5. rows[a].id \in leftover \/ rows[b].id \in leftover
      BY <3>3, <3>4 DEF ListInv, AddressInv
    <3> QED
      BY <3>1, <3>2, <3>5
  <2> QED
    BY <2>3, <2>4, <2>5
<1> QED
  BY <1>7, <1>8 DEF ListInv

\* What SaveHost does to the store.
LEMMA Saved ==
  ASSUME store \in [Ids -> Values], NEW id \in Ids,
         NEW url \in Nat, NEW credentials \in Nat,
         NEW written \in Written, SaveHost(id, url, credentials, written)
  PROVE  /\ store' \in [Ids -> Values] /\ leftover' = leftover
         /\ \A other \in Ids \ {id} :
              store'[other] = store[other] /\ (other \in torn' <=> other \in torn)
         /\ written = "all" => id \notin torn' /\ store'[id] = Key(url, credentials)
         /\ written # "all" => id \in torn' \/ (store' = store /\ torn' = torn)
<1>1. store[id].url \in Nat /\ store[id].credentials \in Nat
  BY DEF Values
<1>2. CASE written = "nothing"
  <2>1. /\ store' = [store EXCEPT ![id] = store[id]]
        /\ torn' = torn /\ leftover' = leftover
    BY <1>2 DEF SaveHost
  <2> QED
    BY <1>2, <2>1
<1>3. CASE written = "type"
  <2>1. /\ store' = [store EXCEPT ![id] = Key(store[id].url, store[id].credentials)]
        /\ torn' = torn \cup {id} /\ leftover' = leftover
    BY <1>3 DEF SaveHost
  <2> QED
    BY <1>1, <1>3, <2>1, KeyIs
<1>4. CASE written = "url"
  <2>1. /\ store' = [store EXCEPT ![id] = Key(url, store[id].credentials)]
        /\ torn' = torn \cup {id} /\ leftover' = leftover
    BY <1>4 DEF SaveHost
  <2> QED
    BY <1>1, <1>4, <2>1, KeyIs
<1>5. CASE written = "all"
  <2>1. /\ store' = [store EXCEPT ![id] = Key(url, credentials)]
        /\ torn' = torn \ {id} /\ leftover' = leftover
    BY <1>5 DEF SaveHost
  <2> QED
    BY <1>5, <2>1, KeyIs
<1> QED
  BY <1>2, <1>3, <1>4, <1>5 DEF Written

\* addHost().
LEMMA AddStep ==
  ASSUME ListInv,
         NEW url \in Addresses, NEW credentials \in Credentials, AddHost(url, credentials)
  PROVE  ListInv'
<1> DEFINE id == hosts + 1
           row == Row(id, url, credentials, "unknown")
           table == InsertAt(rows, InsertionRow(row), row)
<1>1. /\ url \in Nat \ {0} /\ credentials \in Nat /\ "unknown" \in Statuses
      /\ hosts \in Nat /\ hosts < MaxHosts /\ MaxHosts \in Nat
  BY LauncherAssumption DEF AddHost, Statuses, ListInv, StoreInv
<1>2. id \in Ids
  BY <1>1 DEF Ids
<1>3. /\ row \in Rows /\ row.id = id /\ row.url = url /\ row.credentials = credentials
  BY <1>1, <1>2, RowIs
<1>4. PICK written \in Written :
        /\ SaveHost(id, url, credentials, written)
        /\ IF written = "all" THEN StartProbes(table, inFlight)
                              ELSE UNCHANGED <<rows, inFlight, probes>>
  BY DEF AddHost
<1>5. /\ store' \in [Ids -> Values] /\ leftover' = leftover
      /\ \A other \in Ids \ {id} :
           store'[other] = store[other] /\ (other \in torn' <=> other \in torn)
      /\ written = "all" => id \notin torn' /\ store'[id] = Key(url, credentials)
      /\ written # "all" => id \in torn' \/ (store' = store /\ torn' = torn)
  BY <1>1, <1>2, <1>4, Saved DEF ListInv, StoreInv
<1>6. hosts' = hosts + 1
  BY DEF AddHost
<1>7. IsList(rows)
  BY DEF ListInv
<1>8. \A i \in 1 .. Len(rows) : rows[i].id # id
  <2> SUFFICES ASSUME NEW i \in 1 .. Len(rows), rows[i].id = id
               PROVE  FALSE
    OBVIOUS
  <2>1. rows[i].id <= hosts
    BY DEF ListInv, StoreInv
  <2> QED
    BY <1>1, <2>1
<1>9. \A i \in 1 .. Len(rows) : rows[i].url # url
  <2>1. DOMAIN rows = 1 .. Len(rows)
    BY <1>7, LenProperties DEF IsList
  <2> QED
    BY <2>1 DEF AddHost, UrlTaken
<1> HIDE DEF id, row
<1>10. hosts' \in Nat /\ hosts <= hosts' /\ id <= hosts'
  BY <1>1, <1>6 DEF id
<1>11. CASE written # "all"
  <2>1. rows' = rows
    BY <1>4, <1>11
  <2>2. SameHosts(rows, rows')
    BY <1>7, <2>1 DEF SameHosts, IsList
  <2> QED
    BY <1>2, <1>5, <1>10, <1>11, <2>2, HalfWritten
<1>12. CASE written = "all"
  <2>1. /\ IsList(table)
        /\ \A i \in 1 .. Len(table) :
             table[i] = row \/ \E k \in 1 .. Len(rows) : table[i] = rows[k]
        /\ \A k \in 1 .. Len(rows) : \E i \in 1 .. Len(table) : table[i] = rows[k]
        /\ \E i \in 1 .. Len(table) : table[i] = row
    BY <1>3, <1>7, <1>8, InsertedIs
  <2> HIDE DEF table
  <2>2. SameHosts(table, rows') /\ IsList(rows')
    BY <1>4, <1>12, <2>1, ProbesStarted
  <2>3. /\ Len(rows') = Len(table)
        /\ \A i \in 1 .. Len(table) :
             /\ rows'[i].id = table[i].id /\ rows'[i].url = table[i].url
             /\ rows'[i].credentials = table[i].credentials
    BY <2>2 DEF SameHosts
  <2>4. \A j \in 1 .. Len(rows') :
           \/ rows'[j].id = id /\ rows'[j].url = url /\ rows'[j].credentials = credentials
           \/ \E i \in 1 .. Len(rows) :
                /\ rows[i].id # id /\ rows'[j].id = rows[i].id /\ rows'[j].url = rows[i].url
                /\ rows'[j].credentials = rows[i].credentials
    <3> TAKE j \in 1 .. Len(rows')
    <3>1. CASE table[j] = row
      BY <1>3, <2>3, <3>1
    <3>2. ASSUME NEW i \in 1 .. Len(rows), table[j] = rows[i]
          PROVE  /\ rows[i].id # id /\ rows'[j].id = rows[i].id /\ rows'[j].url = rows[i].url
                 /\ rows'[j].credentials = rows[i].credentials
      BY <1>8, <2>3, <3>2
    <3> QED
      BY <2>1, <2>3, <3>1, <3>2
  <2>5. \A i \in 1 .. Len(rows) :
           rows[i].id # id => \E j \in 1 .. Len(rows') : rows'[j].id = rows[i].id
    <3> SUFFICES ASSUME NEW i \in 1 .. Len(rows)
                 PROVE  \E j \in 1 .. Len(rows') : rows'[j].id = rows[i].id
      OBVIOUS
    <3>1. PICK j \in 1 .. Len(table) : table[j] = rows[i]
      BY <2>1
    <3> QED
      BY <2>3, <3>1
  <2>6. \E j \in 1 .. Len(rows') : rows'[j].id = id
    <3>1. PICK j \in 1 .. Len(table) : table[j] = row
      BY <2>1
    <3> QED
      BY <1>3, <2>3, <3>1
  <2>7. ListInv /\ IsList(rows') /\ leftover' = leftover
    BY <1>5, <2>2
  <2>8. id \notin torn' /\ store'[id] = Key(url, credentials)
    BY <1>5, <1>12
  <2>9. url \in Nat /\ credentials \in Nat
    BY <1>1
  <2> QED
    BY <1>2, <1>5, <1>9, <1>10, <2>4, <2>5, <2>6, <2>7, <2>8, <2>9, WrittenWhole, ZenonT(60)
<1> QED
  BY <1>11, <1>12

\* What is in a list of which one row has been edited, and sorted.
LEMMA EditedIs ==
  ASSUME IsList(rows), NEW at \in 1 .. Len(rows), NEW row \in Rows,
         row.id = rows[at].id
  PROVE  LET table == Sorted(ToSet([rows EXCEPT ![at] = row]))
         IN  /\ IsList(table)
             /\ \A j \in 1 .. Len(table) :
                  table[j] = row \/ \E i \in 1 .. Len(rows) : i # at /\ table[j] = rows[i]
             /\ \A i \in 1 .. Len(rows) : i # at => \E j \in 1 .. Len(table) : table[j] = rows[i]
             /\ \E j \in 1 .. Len(table) : table[j] = row
<1> DEFINE edited == [rows EXCEPT ![at] = row]
           set == ToSet(edited)
           n == Len(rows)
<1>1. /\ n \in Nat /\ DOMAIN rows = 1 .. n
      /\ \A i \in 1 .. n : rows[i] \in Rows
  BY LenProperties, ElementOfSeq DEF IsList
<1>2. \A i, j \in 1 .. n : i # j => rows[i].id # rows[j].id
  BY DEF IsList, OneEach
<1> HIDE DEF n
<1>3. /\ DOMAIN edited = 1 .. n
      /\ \A i \in 1 .. n : edited[i] = IF i = at THEN row ELSE rows[i]
  BY <1>1
<1> HIDE DEF edited
<1>4. set = {edited[i] : i \in 1 .. n}
  BY <1>3 DEF ToSet
<1> HIDE DEF set
<1>5. set \subseteq Rows
  BY <1>1, <1>3, <1>4
<1>6. \A a, b \in set : a.id = b.id => a = b
  <2> SUFFICES ASSUME NEW a \in set, NEW b \in set, a.id = b.id
               PROVE  a = b
    OBVIOUS
  <2>1. PICK i \in 1 .. n : a = edited[i]
    BY <1>4
  <2>2. PICK j \in 1 .. n : b = edited[j]
    BY <1>4
  <2>3. edited[i].id = rows[i].id /\ edited[j].id = rows[j].id
    BY <1>3
  <2>4. i = j
    BY <1>2, <2>1, <2>2, <2>3
  <2> QED
    BY <2>1, <2>2, <2>4
<1>7. IsFiniteSet(set)
  <2> DEFINE f == [i \in 1 .. n |-> edited[i]]
  <2>1. f \in Surjection(1 .. n, set)
    BY <1>4 DEF Surjection
  <2>2. IsFiniteSet(1 .. n)
    BY <1>1, FS_Interval
  <2> QED
    BY <2>1, <2>2, FS_Surjection
<1>8. /\ IsList(Sorted(set))
      /\ \A i \in 1 .. Len(Sorted(set)) : Sorted(set)[i] \in set
      /\ \A some \in set : \E i \in 1 .. Len(Sorted(set)) : Sorted(set)[i] = some
  BY <1>5, <1>6, <1>7, SortedIs
<1>9. \A x \in set : x = row \/ \E i \in 1 .. n : i # at /\ x = rows[i]
  BY <1>3, <1>4
<1>10. row \in set /\ \A i \in 1 .. n : i # at => rows[i] \in set
  <2>1. at \in 1 .. n
    BY DEF n
  <2> QED
    BY <1>3, <1>4, <2>1
<1> QED
  BY <1>8, <1>9, <1>10 DEF n, set, edited

\* updateHost().
LEMMA UpdateStep ==
  ASSUME ListInv, NEW id \in Ids,
         NEW url \in Addresses, NEW credentials \in Credentials,
         UpdateHost(id, url, credentials)
  PROVE  ListInv'
<1> DEFINE at == IndexForId(id)
           changed == rows[at].url # url
           flying == IF changed THEN inFlight \ {id} ELSE inFlight
           status == IF changed THEN "unknown" ELSE rows[at].status
           row == Row(id, url, credentials, status)
           table == Sorted(ToSet([rows EXCEPT ![at] = row]))
<1>1. IsList(rows)
  BY DEF ListInv
<1>2. /\ at \in 1 .. Len(rows) /\ rows[at].id = id /\ rows[at] \in Rows
  BY <1>1, RowAt DEF UpdateHost
<1>3. /\ url \in Nat \ {0} /\ credentials \in Nat /\ status \in Statuses
      /\ hosts \in Nat
  BY <1>2, LauncherAssumption DEF Statuses, ListInv, StoreInv, Rows
<1>4. PICK written \in Written :
        /\ SaveHost(id, url, credentials, written)
        /\ IF written = "all" /\ changed
           THEN StartProbes(table, flying)
           ELSE rows' = IF written = "all" THEN table ELSE rows
  BY DEF UpdateHost
<1>5. /\ store' \in [Ids -> Values] /\ leftover' = leftover
      /\ \A other \in Ids \ {id} :
           store'[other] = store[other] /\ (other \in torn' <=> other \in torn)
      /\ written = "all" => id \notin torn' /\ store'[id] = Key(url, credentials)
      /\ written # "all" => id \in torn' \/ (store' = store /\ torn' = torn)
  BY <1>3, <1>4, Saved DEF ListInv, StoreInv
<1>6. hosts' = hosts /\ id <= hosts
  BY <1>2 DEF UpdateHost, ListInv, StoreInv
<1>7. changed => \A i \in 1 .. Len(rows) : rows[i].url # url
  <2>1. DOMAIN rows = 1 .. Len(rows)
    BY <1>1, LenProperties DEF IsList
  <2> QED
    BY <2>1 DEF UpdateHost, UrlTaken
<1>8. /\ row \in Rows /\ row.id = id /\ row.url = url /\ row.credentials = credentials
  BY <1>3, RowIs
<1> HIDE DEF row
<1>9. /\ IsList(table)
      /\ \A j \in 1 .. Len(table) :
           table[j] = row \/ \E i \in 1 .. Len(rows) : i # at /\ table[j] = rows[i]
      /\ \A i \in 1 .. Len(rows) : i # at => \E j \in 1 .. Len(table) : table[j] = rows[i]
      /\ \E j \in 1 .. Len(table) : table[j] = row
  BY <1>1, <1>2, <1>8, EditedIs
<1> HIDE DEF at, table, flying
<1>10. hosts' \in Nat /\ hosts <= hosts' /\ id <= hosts'
  BY <1>3, <1>6
<1>11. CASE written # "all"
  <2>1. rows' = rows
    BY <1>4, <1>11
  <2>2. SameHosts(rows, rows')
    BY <1>1, <2>1 DEF SameHosts, IsList
  <2> QED
    BY <1>5, <1>10, <1>11, <2>2, HalfWritten
<1>12. CASE written = "all"
  <2>1. SameHosts(table, rows') /\ IsList(rows')
    <3>1. CASE changed
      BY <1>4, <1>9, <1>12, <3>1, ProbesStarted
    <3>2. CASE ~changed
      <4>1. rows' = table
        BY <1>4, <1>12, <3>2
      <4> QED
        BY <1>9, <4>1 DEF SameHosts, IsList
    <3> QED
      BY <3>1, <3>2
  <2>2. /\ Len(rows') = Len(table)
        /\ \A i \in 1 .. Len(table) :
             /\ rows'[i].id = table[i].id /\ rows'[i].url = table[i].url
             /\ rows'[i].credentials = table[i].credentials
    BY <2>1 DEF SameHosts
  <2>3. \A i \in 1 .. Len(rows) : rows[i].id # id <=> i # at
    BY <1>1, <1>2 DEF IsList, OneEach
  <2>4. \A j \in 1 .. Len(rows') :
           \/ rows'[j].id = id /\ rows'[j].url = url /\ rows'[j].credentials = credentials
           \/ \E i \in 1 .. Len(rows) :
                /\ rows[i].id # id /\ rows'[j].id = rows[i].id /\ rows'[j].url = rows[i].url
                /\ rows'[j].credentials = rows[i].credentials
    <3> TAKE j \in 1 .. Len(rows')
    <3>1. CASE table[j] = row
      BY <1>8, <2>2, <3>1
    <3>2. ASSUME NEW i \in 1 .. Len(rows), i # at, table[j] = rows[i]
          PROVE  /\ rows[i].id # id /\ rows'[j].id = rows[i].id /\ rows'[j].url = rows[i].url
                 /\ rows'[j].credentials = rows[i].credentials
      BY <2>2, <2>3, <3>2
    <3> QED
      BY <1>9, <2>2, <3>1, <3>2
  <2>5. \A i \in 1 .. Len(rows) :
           rows[i].id # id => \E j \in 1 .. Len(rows') : rows'[j].id = rows[i].id
    <3> SUFFICES ASSUME NEW i \in 1 .. Len(rows), rows[i].id # id
                 PROVE  \E j \in 1 .. Len(rows') : rows'[j].id = rows[i].id
      OBVIOUS
    <3>1. PICK j \in 1 .. Len(table) : table[j] = rows[i]
      BY <1>9, <2>3
    <3> QED
      BY <2>2, <3>1
  <2>6. \E j \in 1 .. Len(rows') : rows'[j].id = id
    <3>1. PICK j \in 1 .. Len(table) : table[j] = row
      BY <1>9
    <3> QED
      BY <1>8, <2>2, <3>1
  <2>7. \/ \A i \in 1 .. Len(rows) : rows[i].url # url
        \/ \E i \in 1 .. Len(rows) : rows[i].id = id /\ rows[i].url = url
    BY <1>2, <1>7
  <2> HIDE DEF changed, status
  <2>8. /\ ListInv /\ IsList(rows') /\ leftover' = leftover
        /\ url \in Nat /\ credentials \in Nat
    BY <1>3, <1>5, <2>1
  <2>9. id \notin torn' /\ store'[id] = Key(url, credentials)
    BY <1>5, <1>12
  <2> QED
    BY <1>5, <1>10, <2>4, <2>5, <2>6, <2>7, <2>8, <2>9, WrittenWhole, ZenonT(60)
<1> QED
  BY <1>11, <1>12

\* quickConnect() with credentials to save.
LEMMA CredentialsStep ==
  ASSUME ListInv, NEW id \in Ids,
         NEW credentials \in Credentials, SaveCredentials(id, credentials)
  PROVE  ListInv'
<1> DEFINE at == IndexForId(id)
           url == rows[at].url
<1>1. IsList(rows)
  BY DEF ListInv
<1>2. /\ at \in 1 .. Len(rows) /\ rows[at].id = id /\ rows[at] \in Rows
  BY <1>1, RowAt DEF SaveCredentials
<1>3. url \in Nat /\ credentials \in Nat /\ hosts \in Nat
  BY <1>2, LauncherAssumption DEF ListInv, StoreInv, Rows
<1>4. PICK written \in Written :
        /\ SaveHost(id, url, credentials, written)
        /\ rows' = IF written = "all" THEN [rows EXCEPT ![at].credentials = credentials] ELSE rows
  BY DEF SaveCredentials
<1> HIDE DEF at
<1>5. /\ store' \in [Ids -> Values] /\ leftover' = leftover
      /\ \A other \in Ids \ {id} :
           store'[other] = store[other] /\ (other \in torn' <=> other \in torn)
      /\ written = "all" => id \notin torn' /\ store'[id] = Key(url, credentials)
      /\ written # "all" => id \in torn' \/ (store' = store /\ torn' = torn)
  BY <1>3, <1>4, Saved DEF ListInv, StoreInv
<1>6. hosts' = hosts /\ id <= hosts
  BY <1>2 DEF SaveCredentials, ListInv, StoreInv
<1>7. hosts' \in Nat /\ hosts <= hosts' /\ id <= hosts'
  BY <1>3, <1>6
<1>8. CASE written # "all"
  <2>1. rows' = rows
    BY <1>4, <1>8
  <2>2. SameHosts(rows, rows')
    BY <1>1, <2>1 DEF SameHosts, IsList
  <2> QED
    BY <1>5, <1>7, <1>8, <2>2, HalfWritten
<1>9. CASE written = "all"
  <2>1. /\ rows \in Seq(Rows) /\ Len(rows) \in Nat /\ DOMAIN rows = 1 .. Len(rows)
        /\ \A i \in 1 .. Len(rows) : rows[i] \in Rows
    BY <1>1, LenProperties, ElementOfSeq DEF IsList
  <2>2. rows' = [rows EXCEPT ![at].credentials = credentials]
    BY <1>4, <1>9
  <2>3. [rows[at] EXCEPT !.credentials = credentials] \in Rows
    BY <1>2, <1>3 DEF Rows
  <2>4. rows' \in Seq(Rows) /\ Len(rows') = Len(rows)
    BY <1>2, <2>1, <2>2, <2>3, ExceptSeq
  <2>5. \A i \in 1 .. Len(rows) :
          /\ rows'[i].id = rows[i].id /\ rows'[i].url = rows[i].url
          /\ rows'[i].credentials = IF i = at THEN credentials ELSE rows[i].credentials
    <3> SUFFICES ASSUME NEW i \in 1 .. Len(rows)
                 PROVE  /\ rows'[i].id = rows[i].id /\ rows'[i].url = rows[i].url
                        /\ rows'[i].credentials =
                             IF i = at THEN credentials ELSE rows[i].credentials
      OBVIOUS
    <3>1. rows[i] \in Rows
      BY <2>1
    <3>2. CASE i = at
      <4>1. rows'[i] = [rows[i] EXCEPT !.credentials = credentials]
        BY <2>1, <2>2, <3>2
      <4> QED
        BY <3>1, <3>2, <4>1 DEF Rows
    <3>3. CASE i # at
      BY <2>1, <2>2, <3>3
    <3> QED
      BY <3>2, <3>3
  <2>6. IsList(rows')
    BY <1>1, <2>4, <2>5 DEF IsList, InOrder, OneEach, Before
  <2>7. \A i \in 1 .. Len(rows) : rows[i].id # id <=> i # at
    BY <1>1, <1>2 DEF IsList, OneEach
  <2>8. \A j \in 1 .. Len(rows') :
           \/ rows'[j].id = id /\ rows'[j].url = url /\ rows'[j].credentials = credentials
           \/ \E i \in 1 .. Len(rows) :
                /\ rows[i].id # id /\ rows'[j].id = rows[i].id /\ rows'[j].url = rows[i].url
                /\ rows'[j].credentials = rows[i].credentials
    BY <1>2, <2>4, <2>5, <2>7
  <2>9. \A i \in 1 .. Len(rows) :
           rows[i].id # id => \E j \in 1 .. Len(rows') : rows'[j].id = rows[i].id
    BY <2>4, <2>5
  <2>10. \E j \in 1 .. Len(rows') : rows'[j].id = id
    BY <1>2, <2>4, <2>5
  <2>11. \E i \in 1 .. Len(rows) : rows[i].id = id /\ rows[i].url = url
    BY <1>2
  <2>12. ListInv /\ leftover' = leftover
    BY <1>5
  <2>13. id \notin torn' /\ store'[id] = Key(url, credentials)
    BY <1>5, <1>9
  <2> HIDE DEF url
  <2> QED
    BY <1>3, <1>5, <1>7, <2>6, <2>8, <2>9, <2>10, <2>11, <2>12, <2>13, WrittenWhole, ZenonT(60)
<1> QED
  BY <1>8, <1>9

\* deleteHost().
LEMMA DeleteStep ==
  ASSUME ListInv, NEW id \in Ids, DeleteHost(id)
  PROVE  ListInv'
<1> DEFINE at == IndexForId(id)
<1>1. IsList(rows)
  BY DEF ListInv
<1>2. /\ at \in 1 .. Len(rows) /\ rows[at].id = id /\ rows[at] \in Rows
      /\ Len(rows) \in Nat
  BY <1>1, RowAt DEF DeleteHost
<1>3. hosts' = hosts /\ leftover' = leftover
  BY DEF DeleteHost
<1>4. CASE UNCHANGED <<rows, store, torn>>
  <2>1. SameHosts(rows, rows')
    BY <1>1, <1>4 DEF SameHosts, IsList
  <2> QED
    BY <1>3, <1>4, <2>1, HostsSame
<1>5. CASE /\ rows' = RemoveAt(rows, at)
           /\ store' = [store EXCEPT ![id] = NoKey] /\ torn' = torn \ {id}
  <2> HIDE DEF at
  <2> DEFINE n == Len(rows)
             old == [i \in 1 .. n - 1 |-> IF i < at THEN i ELSE i + 1]
  <2>1. /\ rows' \in Seq(Rows) /\ Len(rows') = n - 1
        /\ \A i \in 1 .. n - 1 : rows'[i] = IF i < at THEN rows[i] ELSE rows[i + 1]
    BY <1>1, <1>2, <1>5, Removed DEF IsList
  <2>2. \A i \in 1 .. n - 1 : old[i] \in 1 .. n /\ old[i] # at /\ rows'[i] = rows[old[i]]
    BY <1>2, <2>1
  <2>3. \A i, j \in 1 .. n - 1 : i < j => old[i] < old[j]
    BY <1>2
  <2>4. \A i \in 1 .. n : i # at => \E j \in 1 .. n - 1 : old[j] = i
    <3> SUFFICES ASSUME NEW i \in 1 .. n, i # at
                 PROVE  \E j \in 1 .. n - 1 : old[j] = i
      OBVIOUS
    <3>1. CASE i < at
      <4>1. i \in 1 .. n - 1 /\ old[i] = i
        BY <1>2, <3>1
      <4> QED
        BY <4>1
    <3>2. CASE at < i
      <4>1. i - 1 \in 1 .. n - 1 /\ old[i - 1] = i
        BY <1>2, <3>2
      <4> QED
        BY <4>1
    <3> QED
      BY <1>2, <3>1, <3>2
  <2> HIDE DEF old, n
  <2>5. \A i \in 1 .. n : rows[i].id # id <=> i # at
    BY <1>1, <1>2 DEF IsList, OneEach, n
  <2>6. n \in Nat /\ \A i, j \in 1 .. n - 1 : i # j => old[i] # old[j]
    <3>1. n \in Nat
      BY <1>2 DEF n
    <3>2. \A i, j \in 1 .. n - 1 : i # j => i < j \/ j < i
      BY <3>1
    <3>3. \A i \in 1 .. n - 1 : old[i] \in Int
      BY <2>2, <3>1
    <3> QED
      BY <2>3, <3>1, <3>2, <3>3
  <2>7. IsList(rows')
    <3>1. InOrder(rows')
      BY <1>1, <2>1, <2>2, <2>3 DEF IsList, InOrder, n
    <3>2. OneEach(rows')
      <4> SUFFICES ASSUME NEW i \in 1 .. n - 1, NEW j \in 1 .. n - 1, i # j
                   PROVE  rows'[i].id # rows'[j].id
        BY <2>1 DEF OneEach
      <4>1. old[i] # old[j] /\ old[i] \in 1 .. Len(rows) /\ old[j] \in 1 .. Len(rows)
        BY <2>2, <2>6 DEF n
      <4>2. rows[old[i]].id # rows[old[j]].id
        BY <1>1, <4>1 DEF IsList, OneEach
      <4> QED
        BY <2>2, <4>2
    <3> QED
      BY <2>1, <3>1, <3>2 DEF IsList
  <2>8. /\ store \in [Ids -> Values] /\ store' \in [Ids -> Values]
        /\ store'[id] = NoKey
        /\ \A other \in Ids \ {id} : store'[other] = store[other]
    BY <1>5, KeyIs DEF ListInv, StoreInv
  <2>9. StoreInv'
    <3>1. \A some \in Ids : hosts' < some => store'[some] = NoKey /\ some \notin torn'
      BY <1>3, <1>5, <2>8 DEF ListInv, StoreInv
    <3>2. \A i \in 1 .. Len(rows') : rows'[i].id <= hosts'
      BY <1>3, <2>1, <2>2 DEF ListInv, StoreInv, n
    <3>3. \A i \in 1 .. Len(rows') :
            rows'[i].id \notin torn' =>
              store'[rows'[i].id] = Key(rows'[i].url, rows'[i].credentials)
      <4> SUFFICES ASSUME NEW i \in 1 .. n - 1, rows'[i].id \notin torn'
                   PROVE  store'[rows'[i].id] = Key(rows'[i].url, rows'[i].credentials)
        BY <2>1
      <4>1. rows'[i] = rows[old[i]] /\ rows[old[i]].id # id /\ old[i] \in 1 .. n
        BY <2>2, <2>5
      <4>2. rows[old[i]].id \in Ids
        <5>1. rows[old[i]] \in Rows
          BY <1>1, <4>1, ElementOfSeq DEF IsList, n
        <5> QED
          BY <5>1 DEF Rows
      <4>3. store[rows[old[i]].id] = Key(rows[old[i]].url, rows[old[i]].credentials)
        BY <1>5, <4>1 DEF ListInv, StoreInv, n
      <4> QED
        BY <2>8, <4>1, <4>2, <4>3
    <3>4. \A some \in Ids \ torn' :
            (\A i \in 1 .. Len(rows') : rows'[i].id # some) => store'[some] = NoKey
      <4> SUFFICES ASSUME NEW some \in Ids \ torn', some # id,
                          \A j \in 1 .. n - 1 : rows'[j].id # some
                   PROVE  store'[some] = NoKey
        BY <2>1, <2>8
      <4>1. \A i \in 1 .. n : rows[i].id # some
        BY <1>2, <2>2, <2>4
      <4>2. store[some] = NoKey
        BY <1>5, <4>1 DEF ListInv, StoreInv, n
      <4> QED
        BY <2>8, <4>2
    <3>5. store' \in [Ids -> Values] /\ hosts' \in Nat
      BY <1>3, <2>8 DEF ListInv, StoreInv
    <3> QED
      BY <3>1, <3>2, <3>3, <3>4, <3>5 DEF StoreInv
  <2>10. AddressInv'
    <3> SUFFICES ASSUME NEW i \in 1 .. n - 1, NEW j \in 1 .. n - 1, i # j,
                        rows'[i].url = rows'[j].url
                 PROVE  rows'[i].id \in leftover \/ rows'[j].id \in leftover
      BY <1>3, <2>1 DEF AddressInv
    <3>1. /\ rows'[i] = rows[old[i]] /\ rows'[j] = rows[old[j]] /\ old[i] # old[j]
          /\ old[i] \in 1 .. n /\ old[j] \in 1 .. n
      BY <2>2, <2>6
    <3> QED
      BY <3>1 DEF ListInv, AddressInv, n
  <2> QED
    BY <2>7, <2>9, <2>10 DEF ListInv
<1> QED
  BY <1>4, <1>5 DEF DeleteHost, RemoveKey

\* The launcher is started again.
LEMMA RestartStep ==
  ASSUME ListInv, Restart
  PROVE  ListInv'
<1>1. /\ IsList(LoadHosts)
      /\ \A i \in 1 .. Len(LoadHosts) :
           /\ LoadHosts[i].id \in Ids
           /\ Readable(LoadHosts[i].id)
           /\ LoadHosts[i] = ReadHost(LoadHosts[i].id)
      /\ \A id \in Ids :
           Readable(id) =>
             \E i \in 1 .. Len(LoadHosts) : LoadHosts[i].id = id
  BY Loaded DEF ListInv, StoreInv
<1>2. /\ rows' = LoadHosts /\ store' = store /\ torn' = torn /\ hosts' = hosts
      /\ leftover' = leftover \cup torn
  BY DEF Restart
<1> DEFINE n == Len(LoadHosts)
<1>3. \A id \in Ids : Readable(id) => store[id] # NoKey
  BY KeyIs DEF Readable
<1> HIDE DEF LoadHosts
<1>4. \A i \in 1 .. n : /\ LoadHosts[i].url = store[LoadHosts[i].id].url
                        /\ LoadHosts[i].credentials = store[LoadHosts[i].id].credentials
  <2>1. \A id \in Ids : /\ ReadHost(id).url = store[id].url
                        /\ ReadHost(id).credentials = store[id].credentials
    BY DEF ReadHost, Row
  <2> QED
    BY <1>1, <2>1
<1>5. \A id \in Ids \ torn :
        store[id] # NoKey =>
          \E i \in 1 .. Len(rows) :
            rows[i].id = id /\ store[id] = Key(rows[i].url, rows[i].credentials)
  <2> SUFFICES ASSUME NEW id \in Ids \ torn, store[id] # NoKey
               PROVE  \E i \in 1 .. Len(rows) :
                        rows[i].id = id /\ store[id] = Key(rows[i].url, rows[i].credentials)
    OBVIOUS
  <2>1. PICK i \in 1 .. Len(rows) : rows[i].id = id
    BY DEF ListInv, StoreInv
  <2>2. store[id] = Key(rows[i].url, rows[i].credentials)
    BY <2>1 DEF ListInv, StoreInv
  <2> QED
    BY <2>1, <2>2
<1>6. StoreInv'
  <2>1. \A id \in Ids : hosts' < id => store'[id] = NoKey /\ id \notin torn'
    BY <1>2 DEF ListInv, StoreInv
  <2>2. \A i \in 1 .. Len(rows') : rows'[i].id <= hosts'
    <3> SUFFICES ASSUME NEW i \in 1 .. n
                 PROVE  LoadHosts[i].id <= hosts
      BY <1>2
    <3>1. /\ LoadHosts[i].id \in Ids /\ store[LoadHosts[i].id] # NoKey
          /\ ~(hosts < LoadHosts[i].id)
      BY <1>1, <1>3 DEF ListInv, StoreInv
    <3> QED
      BY <3>1 DEF Ids, ListInv, StoreInv
  <2>3. \A i \in 1 .. Len(rows') :
          rows'[i].id \notin torn' =>
            store'[rows'[i].id] = Key(rows'[i].url, rows'[i].credentials)
    <3> SUFFICES ASSUME NEW i \in 1 .. n, LoadHosts[i].id \notin torn
                 PROVE  store[LoadHosts[i].id] =
                          Key(LoadHosts[i].url, LoadHosts[i].credentials)
      BY <1>2
    <3>1. LoadHosts[i].id \in Ids /\ store[LoadHosts[i].id] # NoKey
      BY <1>1, <1>3
    <3>2. PICK k \in 1 .. Len(rows) :
            store[LoadHosts[i].id] = Key(rows[k].url, rows[k].credentials)
      BY <1>5, <3>1
    <3>3. /\ LoadHosts[i].url = rows[k].url
          /\ LoadHosts[i].credentials = rows[k].credentials
      BY <1>4, <3>2 DEF Key
    <3> QED
      BY <3>2, <3>3
  <2>4. \A id \in Ids \ torn' :
          (\A i \in 1 .. Len(rows') : rows'[i].id # id) => store'[id] = NoKey
    <3> SUFFICES ASSUME NEW id \in Ids \ torn, \A i \in 1 .. n : LoadHosts[i].id # id,
                        store[id] # NoKey
                 PROVE  FALSE
      BY <1>2
    <3>1. PICK k \in 1 .. Len(rows) : store[id] = Key(rows[k].url, rows[k].credentials)
      BY <1>5
    <3>2. rows[k].url # 0
      <4>1. rows[k] \in Rows
        BY ElementOfSeq DEF ListInv, IsList
      <4> QED
        BY <4>1 DEF Rows
    <3>3. Readable(id)
      BY <3>1, <3>2 DEF Readable, Key
    <3> QED
      BY <1>1, <3>3
  <2> QED
    BY <1>2, <2>1, <2>2, <2>3, <2>4 DEF ListInv, StoreInv
<1>7. AddressInv'
  <2> SUFFICES ASSUME NEW i \in 1 .. n, NEW j \in 1 .. n, i # j,
                      LoadHosts[i].url = LoadHosts[j].url,
                      LoadHosts[i].id \notin torn, LoadHosts[j].id \notin torn
               PROVE  LoadHosts[i].id \in leftover \/ LoadHosts[j].id \in leftover
    BY <1>2 DEF AddressInv
  <2>1. LoadHosts[i].id # LoadHosts[j].id
    BY <1>1 DEF IsList, OneEach
  <2>2. PICK a \in 1 .. Len(rows) :
          /\ rows[a].id = LoadHosts[i].id
          /\ store[LoadHosts[i].id] = Key(rows[a].url, rows[a].credentials)
    BY <1>1, <1>3, <1>5
  <2>3. PICK b \in 1 .. Len(rows) :
          /\ rows[b].id = LoadHosts[j].id
          /\ store[LoadHosts[j].id] = Key(rows[b].url, rows[b].credentials)
    BY <1>1, <1>3, <1>5
  <2>4. rows[a].url = rows[b].url
    BY <1>4, <2>2, <2>3 DEF Key
  <2>5. rows[a].id \in leftover \/ rows[b].id \in leftover
    BY <2>1, <2>2, <2>3, <2>4 DEF ListInv, AddressInv
  <2> QED
    BY <2>2, <2>3, <2>5
<1> QED
  BY <1>1, <1>2, <1>6, <1>7 DEF ListInv

\* The first start.
LEMMA ListInit ==
  ASSUME LauncherInit
  PROVE  ListInv
<1>1. PICK url \in Addresses, credentials \in Credentials :
        store = [id \in Ids |-> IF id <= hosts THEN Key(url, credentials) ELSE NoKey]
  BY DEF LauncherInit
<1>2. /\ hosts \in 0 .. 1 /\ rows = LoadHosts /\ torn = {} /\ leftover = {}
  BY DEF LauncherInit
<1>3. url \in Nat \ {0} /\ credentials \in Nat
  BY LauncherAssumption
<1>4. /\ store \in [Ids -> Values]
      /\ \A id \in Ids :
           store[id] = IF id <= hosts THEN Key(url, credentials) ELSE NoKey
  BY <1>1, <1>3, KeyIs
<1>5. /\ IsList(rows)
      /\ \A i \in 1 .. Len(rows) :
           /\ rows[i].id \in Ids
           /\ Readable(rows[i].id)
           /\ rows[i] = ReadHost(rows[i].id)
      /\ \A id \in Ids : Readable(id) => \E i \in 1 .. Len(rows) : rows[i].id = id
  BY <1>2, <1>4, Loaded
<1>6. \A id \in Ids : Readable(id) <=> id <= hosts
  BY <1>3, <1>4, KeyIs DEF Readable
<1>7. \A i \in 1 .. Len(rows) : rows[i].url = url /\ rows[i].credentials = credentials
  <2> SUFFICES ASSUME NEW i \in 1 .. Len(rows)
               PROVE  rows[i].url = url /\ rows[i].credentials = credentials
    OBVIOUS
  <2>1. store[rows[i].id] = Key(url, credentials)
    BY <1>4, <1>5, <1>6
  <2>2. rows[i] = Row(rows[i].id, store[rows[i].id].url, store[rows[i].id].credentials, "unknown")
    BY <1>5 DEF ReadHost
  <2>3. rows[i] = Row(rows[i].id, url, credentials, "unknown")
    BY <2>1, <2>2 DEF Key
  <2> QED
    BY <2>3 DEF Row
<1>8. \A id \in Ids : id \in Nat
  BY DEF Ids
<1>9. StoreInv
  <2>1. \A id \in Ids : hosts < id => store[id] = NoKey /\ id \notin torn
    BY <1>2, <1>4, <1>8
  <2>2. \A i \in 1 .. Len(rows) : rows[i].id <= hosts
    BY <1>5, <1>6
  <2>3. \A i \in 1 .. Len(rows) : store[rows[i].id] = Key(rows[i].url, rows[i].credentials)
    BY <1>4, <1>5, <1>6, <1>7
  <2>4. \A id \in Ids \ torn :
          (\A i \in 1 .. Len(rows) : rows[i].id # id) => store[id] = NoKey
    BY <1>4, <1>5, <1>6
  <2> QED
    BY <1>2, <1>4, <2>1, <2>2, <2>3, <2>4 DEF StoreInv
<1>10. AddressInv
  <2> SUFFICES ASSUME NEW i \in 1 .. Len(rows), NEW j \in 1 .. Len(rows), i # j
               PROVE  FALSE
    BY DEF AddressInv
  <2>1. /\ rows[i].id # rows[j].id
        /\ rows[i].id \in Ids /\ rows[j].id \in Ids
        /\ rows[i].id <= hosts /\ rows[j].id <= hosts
    BY <1>5, <1>6 DEF IsList, OneEach
  <2> QED
    BY <1>2, <2>1 DEF Ids
<1> QED
  BY <1>5, <1>9, <1>10 DEF ListInv

\* A probe answers.
LEMMA AnswerStep ==
  ASSUME ListInv, UpdateReachability
  PROVE  SameHosts(rows, rows')
<1>1. IsList(rows)
  BY DEF ListInv
<1>2. /\ rows \in Seq(Rows) /\ Len(rows) \in Nat /\ DOMAIN rows = 1 .. Len(rows)
      /\ \A i \in 1 .. Len(rows) : rows[i] \in Rows
  BY <1>1, LenProperties, ElementOfSeq DEF IsList
<1> DEFINE id == Head(answers).id
           at == IndexForId(id)
<1>3. CASE ~HasRow(id)
  <2>1. rows' = rows
    BY <1>3 DEF UpdateReachability
  <2> QED
    BY <1>2, <2>1 DEF SameHosts
<1>4. CASE HasRow(id)
  <2>1. at \in 1 .. Len(rows)
    BY <1>1, <1>4, RowAt
  <2>2. PICK status \in Statuses : rows' = [rows EXCEPT ![at].status = status]
    <3>1. rows' = [rows EXCEPT ![at].status =
                     IF Head(answers).online THEN "online"
                     ELSE IF Tolerated(rows[at], failures[id] + 1) THEN rows[at].status
                     ELSE "offline"]
      BY <1>4 DEF UpdateReachability
    <3>2. /\ rows[at].status \in Statuses
          /\ "online" \in Statuses /\ "offline" \in Statuses
      BY <1>2, <2>1 DEF Rows, Statuses
    <3> QED
      BY <3>1, <3>2
  <2> HIDE DEF at, Statuses
  <2>3. rows[at] \in Rows
    BY <1>2, <2>1
  <2>4. [rows[at] EXCEPT !.status = status] \in Rows
    BY <2>3 DEF Rows
  <2>5. rows' \in Seq(Rows) /\ Len(rows') = Len(rows)
    BY <1>2, <2>1, <2>2, <2>4, ExceptSeq
  <2>6. \A i \in 1 .. Len(rows) : /\ rows'[i].id = rows[i].id
                                  /\ rows'[i].url = rows[i].url
                                  /\ rows'[i].credentials = rows[i].credentials
    <3> SUFFICES ASSUME NEW i \in 1 .. Len(rows)
                 PROVE  /\ rows'[i].id = rows[i].id
                        /\ rows'[i].url = rows[i].url
                        /\ rows'[i].credentials = rows[i].credentials
      OBVIOUS
    <3>1. CASE i = at
      <4>1. rows'[i] = [rows[i] EXCEPT !.status = status]
        BY <1>2, <2>1, <2>2, <3>1
      <4> QED
        BY <2>3, <3>1, <4>1 DEF Rows
    <3>2. CASE i # at
      BY <1>2, <2>2, <3>2
    <3> QED
      BY <3>1, <3>2
  <2> QED
    BY <2>5, <2>6 DEF SameHosts
<1> QED
  BY <1>3, <1>4

\* What does not edit the list.
Unedited ==
  \/ \E i \in DOMAIN probes : RunProbe(i)
  \/ \E id \in Ids : ConnectHost(id)
  \/ ViewerNext
  \/ UNCHANGED launcherVars

\* It touches neither the rows nor what is saved of them.
LEMMA UneditedIs ==
  ASSUME Unedited
  PROVE  UNCHANGED <<rows, failures, failedLast, store, torn, leftover, hosts>>
BY DEF Unedited, RunProbe, ConnectHost, ViewerNext, ViewerProcess,
   ViewerStep, ViewerExits, SavePinnedCert, SaveWindowRect,
   SaveKeyboardLayout, launcherVars, rowVars, storeVars

\* The steps, one by one.
LEMMA Steps ==
  ASSUME [LauncherNext]_launcherVars
  PROVE  \/ \E url \in Addresses, credentials \in Credentials : AddHost(url, credentials)
         \/ \E id \in Ids, url \in Addresses, credentials \in Credentials :
              UpdateHost(id, url, credentials)
         \/ \E id \in Ids, credentials \in Credentials :
              SaveCredentials(id, credentials)
         \/ \E id \in Ids : DeleteHost(id)
         \/ ProbeTimer \/ UpdateReachability \/ Restart \/ Unedited
BY DEF LauncherNext, EditNext, Unedited

\* Every step keeps the list and the store together.
LEMMA ListStep ==
  ASSUME ListInv, [LauncherNext]_launcherVars
  PROVE  ListInv'
<1>1. CASE \E url \in Addresses, credentials \in Credentials : AddHost(url, credentials)
  BY <1>1, AddStep
<1>2. CASE \E id \in Ids, url \in Addresses, credentials \in Credentials :
             UpdateHost(id, url, credentials)
  BY <1>2, UpdateStep
<1>3. CASE \E id \in Ids, credentials \in Credentials :
             SaveCredentials(id, credentials)
  BY <1>3, CredentialsStep
<1>4. CASE \E id \in Ids : DeleteHost(id)
  BY <1>4, DeleteStep
<1>5. CASE ProbeTimer
  <2>1. /\ StartProbes(rows, inFlight) /\ IsList(rows)
        /\ UNCHANGED <<store, torn, leftover, hosts>>
    BY <1>5 DEF ProbeTimer, storeVars, ListInv
  <2>2. SameHosts(rows, rows')
    BY <2>1, ProbesStarted
  <2> QED
    BY <2>1, <2>2, HostsSame
<1>6. CASE UpdateReachability
  <2>1. UNCHANGED <<store, torn, leftover, hosts>>
    BY <1>6 DEF UpdateReachability, storeVars
  <2> QED
    BY <1>6, <2>1, AnswerStep, HostsSame
<1>7. CASE Restart
  BY <1>7, RestartStep
<1>8. CASE Unedited
  <2>1. UNCHANGED <<rows, store, torn, leftover, hosts>>
    BY <1>8, UneditedIs
  <2>2. SameHosts(rows, rows')
    BY <2>1 DEF SameHosts, ListInv, IsList
  <2> QED
    BY <2>1, <2>2, HostsSame
<1> QED
  BY <1>1, <1>2, <1>3, <1>4, <1>5, <1>6, <1>7, <1>8, Steps

\* A failure is not forgotten while it counts.
LEMMA FailStep ==
  ASSUME IsList(rows), FailInv, [LauncherNext]_launcherVars
  PROVE  FailInv'
<1>1. CASE \E url \in Addresses, credentials \in Credentials : AddHost(url, credentials)
  <2>1. UNCHANGED <<failures, failedLast>>
    BY <1>1 DEF AddHost
  <2> QED
    BY <2>1 DEF FailInv
<1>2. ASSUME NEW id \in Ids, NEW url \in Addresses, NEW credentials \in Credentials,
             UpdateHost(id, url, credentials)
      PROVE  FailInv'
  <2>1. \/ failures' = failures /\ failedLast' = failedLast
        \/ /\ failures' = [failures EXCEPT ![id] = 0]
           /\ failedLast' = failedLast \/ failedLast' = failedLast \ {id}
    BY <1>2, Zenon DEF UpdateHost
  <2> QED
    BY <2>1 DEF FailInv
<1>3. CASE \E id \in Ids, credentials \in Credentials :
             SaveCredentials(id, credentials)
  <2>1. UNCHANGED <<failures, failedLast>>
    BY <1>3 DEF SaveCredentials
  <2> QED
    BY <2>1 DEF FailInv
<1>4. ASSUME NEW id \in Ids, DeleteHost(id)
      PROVE  FailInv'
  <2>1. \/ UNCHANGED <<failures, failedLast>>
        \/ failures' = [failures EXCEPT ![id] = 0] /\ failedLast' = failedLast \ {id}
    BY <1>4 DEF DeleteHost
  <2> QED
    BY <2>1 DEF FailInv
<1>5. CASE ProbeTimer
  <2>1. UNCHANGED <<failures, failedLast>>
    BY <1>5 DEF ProbeTimer
  <2> QED
    BY <2>1 DEF FailInv
<1>6. CASE UpdateReachability
  <2> DEFINE id == Head(answers).id
  <2>1. CASE ~HasRow(id)
    <3>1. UNCHANGED <<failures, failedLast>>
      BY <1>6, <2>1 DEF UpdateReachability
    <3> QED
      BY <3>1 DEF FailInv
  <2>2. CASE HasRow(id)
    <3>1. id \in Ids
      BY <2>2, RowAt
    <3>2. /\ failures' = [failures EXCEPT ![id] =
                            IF Head(answers).online THEN 0
                            ELSE IF failures[id] + 1 > 2 THEN 2 ELSE failures[id] + 1]
          /\ failedLast' = IF Head(answers).online THEN failedLast \ {id}
                                                  ELSE failedLast \cup {id}
      BY <1>6, <2>2 DEF UpdateReachability
    <3> HIDE DEF id
    <3> QED
      BY <3>1, <3>2 DEF FailInv
  <2> QED
    BY <2>1, <2>2
<1>7. CASE Restart
  <2>1. failures' = [id \in Ids |-> 0]
    BY <1>7 DEF Restart
  <2> QED
    BY <2>1 DEF FailInv
<1>8. CASE Unedited
  <2>1. UNCHANGED <<failures, failedLast>>
    BY <1>8, UneditedIs
  <2> QED
    BY <2>1 DEF FailInv
<1> QED
  BY <1>1, <1>2, <1>3, <1>4, <1>5, <1>6, <1>7, <1>8, Steps

\* The two invariants hold together in every state.
THEOREM LauncherInductive == LauncherSpec => []LauncherInv
<1>1. LauncherInit => LauncherInv
  <2> SUFFICES ASSUME LauncherInit PROVE LauncherInv
    OBVIOUS
  <2>1. FailInv
    BY DEF LauncherInit, FailInv
  <2> QED
    BY <2>1, ListInit DEF LauncherInv
<1>2. LauncherInv /\ [LauncherNext]_launcherVars => LauncherInv'
  BY ListStep, FailStep DEF LauncherInv, ListInv
<1> QED
  BY <1>1, <1>2, PTL DEF LauncherSpec

\* What the launcher shows is what it has saved, sorted, with one row for each address, whatever
\* the registry, the viewers and the restarts do meanwhile (addHost(), updateHost(),
\* deleteHost(), quickConnect(), start()).
THEOREM ListCorrect == LauncherSpec => []ListIsSound
<1>1. LauncherInv => ListIsSound
  <2> SUFFICES ASSUME ListInv PROVE ListIsSound
    BY DEF LauncherInv
  <2>1. IsList(rows) /\ DOMAIN rows = 1 .. Len(rows)
    BY LenProperties DEF ListInv, IsList
  <2>2. rows = Sorted(ToSet(rows))
    BY <2>1, ListIsSorted
  <2>3. \A id \in Ids \ torn :
          IF HasRow(id)
          THEN LET row == rows[IndexForId(id)] IN store[id] = Key(row.url, row.credentials)
          ELSE store[id] = NoKey
    <3> SUFFICES ASSUME NEW id \in Ids \ torn
                 PROVE  IF HasRow(id)
                        THEN store[id] = Key(rows[IndexForId(id)].url,
                                             rows[IndexForId(id)].credentials)
                        ELSE store[id] = NoKey
      OBVIOUS
    <3>1. CASE HasRow(id)
      <4>1. IndexForId(id) \in 1 .. Len(rows) /\ rows[IndexForId(id)].id = id
        BY <2>1, <3>1, RowAt
      <4> QED
        BY <3>1, <4>1 DEF ListInv, StoreInv
    <3>2. CASE ~HasRow(id)
      BY <2>1, <3>2 DEF HasRow, ListInv, StoreInv
    <3> QED
      BY <3>1, <3>2
  <2>4. AddressesAreUnique
    BY <2>1 DEF AddressesAreUnique, ListInv, AddressInv
  <2> QED
    BY <2>2, <2>3, <2>4 DEF ListIsSound, RowsMatchStore
<1> QED
  BY <1>1, LauncherInductive, PTL

\* Who is offline after a step was so before it.
Unfallen ==
  \A j \in 1 .. Len(rows') :
    rows'[j].status = "offline" =>
      \E k \in 1 .. Len(rows) : rows[k].id = rows'[j].id /\ rows[k].status = "offline"

\* A host that is added has not been asked yet.
LEMMA UnfallenAdd ==
  ASSUME ListInv,
         NEW url \in Addresses, NEW credentials \in Credentials, AddHost(url, credentials)
  PROVE  Unfallen
<1> DEFINE id == hosts + 1
           row == Row(id, url, credentials, "unknown")
           table == InsertAt(rows, InsertionRow(row), row)
<1>1. /\ url \in Nat \ {0} /\ credentials \in Nat /\ "unknown" \in Statuses /\ id \in Ids
      /\ hosts \in Nat
  BY LauncherAssumption DEF AddHost, Statuses, ListInv, StoreInv, Ids
<1>2. row \in Rows /\ row.id = id /\ row.status = "unknown"
  BY <1>1, RowIs
<1>3. rows' = rows \/ StartProbes(table, inFlight)
  BY DEF AddHost
<1>4. IsList(rows)
  BY DEF ListInv
<1>5. \A i \in 1 .. Len(rows) : rows[i].id # id
  <2> SUFFICES ASSUME NEW i \in 1 .. Len(rows), rows[i].id = id
               PROVE  FALSE
    OBVIOUS
  <2>1. rows[i].id <= hosts
    BY DEF ListInv, StoreInv
  <2> QED
    BY <1>1, <2>1
<1> HIDE DEF row, id
<1>6. CASE rows' = rows
  BY <1>6 DEF Unfallen
<1>7. CASE StartProbes(table, inFlight)
  <2>1. /\ IsList(table)
        /\ \A i \in 1 .. Len(table) :
             table[i] = row \/ \E k \in 1 .. Len(rows) : table[i] = rows[k]
    BY <1>2, <1>4, <1>5, InsertedIs
  <2> HIDE DEF table
  <2>2. /\ Len(rows') = Len(table)
        /\ \A i \in 1 .. Len(table) :
             rows'[i].id = table[i].id /\ rows'[i].status \in {table[i].status, "checking"}
    BY <1>7, <2>1, ProbesStarted DEF SameHosts
  <2> SUFFICES ASSUME NEW j \in 1 .. Len(table), rows'[j].status = "offline"
               PROVE  \E k \in 1 .. Len(rows) :
                        rows[k].id = rows'[j].id /\ rows[k].status = "offline"
    BY <2>2 DEF Unfallen
  <2>3. table[j].status = "offline" /\ rows'[j].id = table[j].id
    BY <2>2
  <2>4. table[j] # row
    BY <1>2, <2>3
  <2> QED
    BY <2>1, <2>3, <2>4
<1> QED
  BY <1>3, <1>6, <1>7

\* A host that is edited keeps what is known of it, or has not been asked yet.
LEMMA UnfallenUpdate ==
  ASSUME ListInv, NEW id \in Ids,
         NEW url \in Addresses, NEW credentials \in Credentials,
         UpdateHost(id, url, credentials)
  PROVE  Unfallen
<1> DEFINE at == IndexForId(id)
           changed == rows[at].url # url
           flying == IF changed THEN inFlight \ {id} ELSE inFlight
           status == IF changed THEN "unknown" ELSE rows[at].status
           row == Row(id, url, credentials, status)
           table == Sorted(ToSet([rows EXCEPT ![at] = row]))
<1>1. IsList(rows)
  BY DEF ListInv
<1>2. /\ at \in 1 .. Len(rows) /\ rows[at].id = id /\ rows[at] \in Rows
  BY <1>1, RowAt DEF UpdateHost
<1>3. /\ url \in Nat \ {0} /\ credentials \in Nat /\ status \in Statuses
      /\ status \in {"unknown", rows[at].status}
  BY <1>2, LauncherAssumption DEF Statuses, Rows
<1>4. rows' = rows \/ rows' = table \/ StartProbes(table, flying)
  BY DEF UpdateHost
<1>5. /\ row \in Rows /\ row.id = id /\ row.status = status
  BY <1>3, RowIs
<1> HIDE DEF row
<1>6. /\ IsList(table)
      /\ \A j \in 1 .. Len(table) :
           table[j] = row \/ \E i \in 1 .. Len(rows) : i # at /\ table[j] = rows[i]
  BY <1>1, <1>2, <1>5, EditedIs
<1> HIDE DEF at, table, flying, status
<1>7. CASE rows' = rows
  BY <1>7 DEF Unfallen
<1>8. CASE rows' = table \/ StartProbes(table, flying)
  <2>1. /\ Len(rows') = Len(table)
        /\ \A i \in 1 .. Len(table) :
             rows'[i].id = table[i].id /\ rows'[i].status \in {table[i].status, "checking"}
    <3>1. CASE rows' = table
      BY <3>1
    <3>2. CASE StartProbes(table, flying)
      BY <1>6, <3>2, ProbesStarted DEF SameHosts
    <3> QED
      BY <1>8, <3>1, <3>2
  <2> SUFFICES ASSUME NEW j \in 1 .. Len(table), rows'[j].status = "offline"
               PROVE  \E k \in 1 .. Len(rows) :
                        rows[k].id = rows'[j].id /\ rows[k].status = "offline"
    BY <2>1 DEF Unfallen
  <2>2. table[j].status = "offline" /\ rows'[j].id = table[j].id
    BY <2>1
  <2>3. CASE table[j] = row
    BY <1>2, <1>3, <1>5, <2>2, <2>3
  <2>4. CASE \E i \in 1 .. Len(rows) : table[j] = rows[i]
    BY <2>2, <2>4
  <2> QED
    BY <1>6, <2>3, <2>4
<1> QED
  BY <1>4, <1>7, <1>8

\* New credentials change nothing else.
LEMMA UnfallenCredentials ==
  ASSUME ListInv, NEW id \in Ids, NEW credentials \in Credentials,
         SaveCredentials(id, credentials)
  PROVE  Unfallen
<1> DEFINE at == IndexForId(id)
<1>1. /\ DOMAIN rows = 1 .. Len(rows) /\ Len(rows) \in Nat
      /\ \A i \in 1 .. Len(rows) : rows[i] \in Rows
  BY LenProperties, ElementOfSeq DEF ListInv, IsList
<1>2. rows' = rows \/ rows' = [rows EXCEPT ![at].credentials = credentials]
  BY DEF SaveCredentials
<1> HIDE DEF at
<1>3. Len(rows') = Len(rows)
  <2>1. DOMAIN rows' = 1 .. Len(rows') /\ Len(rows') \in Nat
    BY CredentialsStep, LenProperties DEF ListInv, IsList
  <2>2. DOMAIN rows' = 1 .. Len(rows)
    BY <1>1, <1>2
  <2>3. \A i \in Nat : i \in 1 .. Len(rows') <=> i \in 1 .. Len(rows)
    BY <2>1, <2>2
  <2> HIDE DEF IsList
  <2>4. ~(Len(rows') < Len(rows))
    BY <1>1, <2>1, <2>3
  <2>5. ~(Len(rows) < Len(rows'))
    BY <1>1, <2>1, <2>3
  <2> DEFINE new == Len(rows')
             old == Len(rows)
  <2>6. new \in Nat /\ old \in Nat /\ ~(new < old) /\ ~(old < new)
    BY <1>1, <2>1, <2>4, <2>5
  <2> HIDE DEF new, old
  <2>7. new = old
    BY <2>6
  <2> QED
    BY <2>7 DEF new, old
<1>4. ASSUME NEW j \in 1 .. Len(rows)
      PROVE  rows'[j].id = rows[j].id /\ rows'[j].status = rows[j].status
  <2>1. rows'[j] = rows[j] \/ rows'[j] = [rows[j] EXCEPT !.credentials = credentials]
    BY <1>1, <1>2
  <2> QED
    BY <1>1, <2>1 DEF Rows
<1> QED
  BY <1>3, <1>4 DEF Unfallen

\* An answer of a probe is what takes a host offline, and only the second in a row takes one
\* that is online.
LEMMA AnswerFells ==
  ASSUME ListInv, FailInv, UpdateReachability,
         NEW i \in 1 .. Len(rows), NEW j \in 1 .. Len(rows'),
         rows[i].id = rows'[j].id, rows[i].status = "online", rows'[j].status = "offline"
  PROVE  rows[i].id \in failedLast /\ ~Head(answers).online
<1> DEFINE id == Head(answers).id
           at == IndexForId(id)
           count == failures[id] + 1
<1>1. /\ DOMAIN rows = 1 .. Len(rows) /\ Len(rows) \in Nat
      /\ \A k \in 1 .. Len(rows) : rows[k] \in Rows
      /\ IsList(rows)
  BY LenProperties, ElementOfSeq DEF ListInv, IsList
<1>2. SameHosts(rows, rows')
  BY AnswerStep
<1>3. j = i
  BY <1>1, <1>2 DEF SameHosts, IsList, OneEach
<1>4. HasRow(id)
  <2>1. rows' # rows
    BY <1>3
  <2> QED
    BY <2>1 DEF UpdateReachability
<1>5. at \in 1 .. Len(rows) /\ rows[at].id = id /\ id \in Ids
  BY <1>1, <1>4, RowAt
<1>6. rows' = [rows EXCEPT ![at].status =
                 IF Head(answers).online THEN "online"
                 ELSE IF Tolerated(rows[at], count) THEN rows[at].status ELSE "offline"]
  BY <1>4 DEF UpdateReachability
<1> HIDE DEF id, at
<1>7. i = at
  <2> SUFFICES ASSUME i # at PROVE FALSE
    OBVIOUS
  <2>1. rows'[i] = rows[i]
    BY <1>1, <1>6
  <2> QED
    BY <1>3, <2>1
<1>8. rows'[i].status = IF Head(answers).online THEN "online"
                        ELSE IF Tolerated(rows[i], count) THEN rows[i].status ELSE "offline"
  <2>1. rows[i] \in Rows /\ i \in DOMAIN rows
    BY <1>1
  <2> QED
    BY <1>6, <1>7, <2>1 DEF Rows
<1>9. ~Head(answers).online /\ ~Tolerated(rows[i], count)
  BY <1>3, <1>8
<1>10. 0 < failures[id]
  BY <1>5, <1>9 DEF Tolerated, OfflineThreshold, FailInv
<1> QED
  BY <1>5, <1>7, <1>9, <1>10 DEF FailInv

\* Nothing else takes one.
LEMMA NothingElseFells ==
  ASSUME ListInv, [LauncherNext]_launcherVars, ~UpdateReachability
  PROVE  Unfallen
<1>1. CASE \E url \in Addresses, credentials \in Credentials : AddHost(url, credentials)
  BY <1>1, UnfallenAdd
<1>2. CASE \E id \in Ids, url \in Addresses, credentials \in Credentials :
             UpdateHost(id, url, credentials)
  BY <1>2, UnfallenUpdate
<1>3. CASE \E id \in Ids, credentials \in Credentials :
             SaveCredentials(id, credentials)
  BY <1>3, UnfallenCredentials
<1>4. ASSUME NEW id \in Ids, DeleteHost(id)
      PROVE  Unfallen
  <2>1. CASE rows' = rows
    BY <2>1 DEF Unfallen
  <2>2. CASE rows' = RemoveAt(rows, IndexForId(id))
    <3>1. /\ IndexForId(id) \in 1 .. Len(rows) /\ rows \in Seq(Rows)
      BY <1>4, RowAt DEF DeleteHost, ListInv, IsList
    <3>2. /\ Len(rows) \in Nat /\ Len(rows') = Len(rows) - 1
          /\ \A i \in 1 .. Len(rows) - 1 :
               rows'[i] = IF i < IndexForId(id) THEN rows[i] ELSE rows[i + 1]
      BY <2>2, <3>1, Removed
    <3>3. \A i \in 1 .. Len(rows') : \E k \in 1 .. Len(rows) : rows'[i] = rows[k]
      <4> SUFFICES ASSUME NEW i \in 1 .. Len(rows) - 1
                   PROVE  \E k \in 1 .. Len(rows) : rows'[i] = rows[k]
        BY <3>2
      <4>1. i \in 1 .. Len(rows) /\ i + 1 \in 1 .. Len(rows)
        BY <3>2
      <4> QED
        BY <3>2, <4>1
    <3> QED
      BY <3>3 DEF Unfallen
  <2> QED
    BY <1>4, <2>1, <2>2 DEF DeleteHost
<1>5. CASE ProbeTimer
  <2>1. StartProbes(rows, inFlight) /\ IsList(rows)
    BY <1>5 DEF ProbeTimer, ListInv
  <2>2. /\ Len(rows') = Len(rows)
        /\ \A i \in 1 .. Len(rows) :
             rows'[i].id = rows[i].id /\ rows'[i].status \in {rows[i].status, "checking"}
    BY <2>1, ProbesStarted DEF SameHosts
  <2> QED
    BY <2>2 DEF Unfallen
<1>6. CASE Restart
  <2>1. rows' = LoadHosts
    BY <1>6 DEF Restart
  <2>2. \A i \in 1 .. Len(LoadHosts) : LoadHosts[i] = ReadHost(LoadHosts[i].id)
    BY Loaded DEF ListInv, StoreInv
  <2>3. \A id : ReadHost(id).status = "unknown"
    BY DEF ReadHost, Row
  <2> HIDE DEF LoadHosts
  <2>4. \A i \in 1 .. Len(LoadHosts) : LoadHosts[i].status = "unknown"
    BY <2>2, <2>3
  <2> QED
    BY <2>1, <2>4 DEF Unfallen
<1>7. CASE Unedited
  <2>1. rows' = rows
    BY <1>7, UneditedIs
  <2> QED
    BY <2>1 DEF Unfallen
<1> QED
  BY <1>1, <1>2, <1>3, <1>4, <1>5, <1>6, <1>7, Steps

\* A host that is online is shown offline after two failures in a row, and by an answer
\* (update_reachability()).
THEOREM OfflineCorrect == LauncherSpec => OfflineNeedsTwoFailures
<1> DEFINE Falls ==
      \A i \in DOMAIN rows, j \in DOMAIN rows' :
        rows[i].id = rows'[j].id /\ rows[i].status = "online" /\ rows'[j].status = "offline"
          => rows[i].id \in failedLast /\ ~Head(answers).online
<1>1. ASSUME LauncherInv, LauncherInv', [LauncherNext]_launcherVars
      PROVE  Falls
  <2>1. /\ DOMAIN rows = 1 .. Len(rows) /\ DOMAIN rows' = 1 .. Len(rows')
        /\ OneEach(rows)
    BY <1>1, LenProperties DEF LauncherInv, ListInv, IsList
  <2> SUFFICES ASSUME NEW i \in 1 .. Len(rows), NEW j \in 1 .. Len(rows'),
                      rows[i].id = rows'[j].id, rows[i].status = "online",
                      rows'[j].status = "offline"
               PROVE  rows[i].id \in failedLast /\ ~Head(answers).online
    BY <2>1
  <2>2. CASE UpdateReachability
    BY <1>1, <2>2, AnswerFells DEF LauncherInv
  <2>3. CASE ~UpdateReachability
    <3>1. PICK k \in 1 .. Len(rows) : rows[k].id = rows'[j].id /\ rows[k].status = "offline"
      BY <1>1, <2>3, NothingElseFells DEF LauncherInv, Unfallen
    <3> QED
      BY <2>1, <3>1 DEF OneEach
  <2> QED
    BY <2>2, <2>3
<1>2. LauncherInv /\ LauncherInv' /\ [LauncherNext]_launcherVars => [Falls]_launcherVars
  BY <1>1
<1> QED
  BY <1>2, LauncherInductive, PTL DEF LauncherSpec, OfflineNeedsTwoFailures

=============================================================================
