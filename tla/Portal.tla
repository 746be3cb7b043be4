------------------------------- MODULE Portal -------------------------------
(***************************************************************************)
(* Accounts, one-time passwords, content and feeds together, and what must *)
(* hold between what is in Redis, what is in the database and what clients *)
(* were given, although no handler holds a lock from its read to its write.*)
(***************************************************************************)
EXTENDS Live

\* A registered customer with a session, and a code on its way to the phone;
\* the other phones are not registered.
Init ==
  LET p == CHOOSE x \in Phones : TRUE IN
  /\ otp = [x \in Phones |-> IF x = p THEN [code |-> 0, attempts |-> 0, ttl |-> TRUE] ELSE Null]
  /\ lock = {}
  /\ user = [x \in Phones |-> IF x = p
               THEN [role |-> "customer", is_active |-> TRUE, password |-> 0,
                     center |-> Null, profile |-> 0, avatar |-> 0] ELSE Null]
  /\ token = [t \in Ids |-> IF t = 0
               THEN [user |-> p, by |-> "login", parent |-> Null, active |-> TRUE,
                     enabled |-> TRUE, read |-> 0, born |-> 0] ELSE Null]
  /\ audit = << >>
  /\ page = {} /\ cache = Null /\ device = {}
  /\ sock = [b \in Sockets |-> NoSocket] /\ published = {}
  /\ req = [c \in Clients |-> Idle]
  /\ arrived = 0 /\ log = << >> /\ disturbed = {}
  /\ guesses = [k \in Ids |-> 0] /\ admitted = [k \in Ids |-> {}]
  /\ scene \in Scenes

Handles(c) == OtpNext(c) \/ AccountsNext(c) \/ LiveNext(c)

Next ==
  \/ \E c \in Clients : Handles(c) \/ Abort(c)
  \/ \E p \in Phones : OtpExpires(p) \/ LockExpires(p)
  \/ CacheExpires
  \/ \E b \in Sockets : WsNext(b)

\* Redis expires what has an expiry, an event loop runs its tasks, and a
\* handler goes on or its request is aborted.
Fairness ==
  /\ WF_vars(CacheExpires)
  /\ \A c \in Clients : WF_vars(req[c] # Idle /\ (Handles(c) \/ Abort(c)))
  /\ \A b \in Sockets : WF_vars(WsForward(b)) /\ WF_vars(WsClose(b))

Spec == Init /\ [][Next]_vars /\ Fairness

-----------------------------------------------------------------------------
\* Every table, record and request is of its kind.
TypeOK ==
  /\ otp \in [Phones -> OtpRecord \cup {Null}] /\ lock \subseteq Phones
  /\ user \in [Phones -> User \cup {Null}]
  /\ token \in [Ids -> RefreshToken \cup {Null}]
  /\ \A i \in DOMAIN audit :
       \/ audit[i].column = "role" /\ audit[i] \in AuditOf("role", Roles)
       \/ audit[i].column = "is_active" /\ audit[i] \in AuditOf("is_active", BOOLEAN)
  /\ page \subseteq ContentPage /\ device \subseteq Device
  /\ sock \in [Sockets -> Socket]
  /\ \A b \in Sockets : sock[b].owed \subseteq published
  /\ arrived \in 0 .. MaxReq

(***************************************************************************)
(* One-time passwords.                                                     *)
(***************************************************************************)
\* "Consume immediately so it can't be reused": a code lets a second request
\* in only if that one had arrived before the first deleted the code.
CodeAdmitsOnce ==
  \A k \in Ids : \A a, b \in admitted[k] : a.id < b.id => b.id <= a.upto

\* However requests overlap, the record of a code counts every wrong guess
\* that was answered; and a record at the limit is about to go, unless
\* requests met over it or one died.
WrongGuessesAreCounted ==
  \A p \in Rows(otp) :
    /\ otp[p].code # Null => guesses[otp[p].code] <= otp[p].attempts
    /\ otp[p].attempts >= MaxAttempts => InHand(p) \/ p \in disturbed

\* Between requests a phone has a whole record, code and expiry, and none
\* while it is locked.  Only what overlapped, died or expired half way leaves
\* a code without an expiry, a count without a code, or a code behind a lock.
OtpRecordIsWhole ==
  \A p \in Rows(otp) :
    ~InHand(p) /\ p \notin disturbed =>
      otp[p].code # Null /\ otp[p].ttl /\ p \notin lock

(***************************************************************************)
(* Sessions.                                                               *)
(***************************************************************************)
\* The i-th commit ended the session of t: a logout or a rotation of it, or a
\* password reset of its user.
EndedBy(t, i) ==
  /\ i > token[t].born
  /\ \/ log[i].op \in {"logout", "refresh"} /\ log[i].key = t
     \/ log[i].op = "reset_confirm" /\ log[i].key = token[t].user

\* "Every existing refresh cookie must die", and a cookie is exchanged once:
\* an ended session is not active, and what was rotated from it was read
\* before its end, by a rotation that overlapped.
EndedSessionsStayEnded ==
  \A t \in Rows(token) : \A i \in DOMAIN log :
    EndedBy(t, i) =>
      /\ ~token[t].active
      /\ \A s \in Rows(token) : token[s].parent = t => token[s].read < i

\* A session that began on a disabled account began with an SMS code, which
\* does not ask, or while the account was being disabled.
DisabledAccountsGetNoSession ==
  \A t \in Rows(token) :
    \/ token[t].enabled
    \/ token[t].by = "otp_verify"
    \/ \E i \in token[t].read + 1 .. token[t].born - 1 :
         log[i].op = "set_active" /\ log[i].key = token[t].user

\* The audit trail of a column tells its values: each change starts from
\* where the one before ended and the last one is what the row shows, except
\* for changes decided on a row that another change had overtaken.
AuditTellsColumn ==
  LET Of(e, d) == d.user = e.user /\ d.column = e.column
      Clean(e) == \A i \in DOMAIN audit :
                    Of(e, audit[i]) => audit[i].at <= e.read \/ audit[i].at >= e.at
  IN \A i \in DOMAIN audit :
       LET later == {j \in DOMAIN audit : j > i /\ Of(audit[i], audit[j])} IN
       Clean(audit[i]) =>
         IF later = {} THEN user[audit[i].user][audit[i].column] = audit[i].after
         ELSE LET n == CHOOSE j \in later : \A l \in later : j <= l IN
              audit[n].read >= audit[i].at => audit[n].before = audit[i].after

(***************************************************************************)
(* Pages, devices and feeds.                                               *)
(***************************************************************************)
\* One page per slug and one device per user and token, also for requests
\* that looked for the key before any of them inserted it.
RowsHaveUniqueKeys ==
  /\ \A x, y \in page : x.slug = y.slug => x = y
  /\ \A x, y \in device : x.user = y.user /\ x.token = y.token => x = y

\* Nothing drops the cached list when a page changes, but once the changes
\* are over every reader is served the table again.
EditsReachReaders == <>[](cache = Null \/ cache.pages = page)

\* An event published to a subscribed socket reaches it or the socket closes:
\* a feed whose subscription broke does not stay open in silence.
EventsArriveOrSocketCloses ==
  \A b \in Sockets : \A e \in Ids :
    e \in sock[b].owed ~> (e \in sock[b].received \/ sock[b].state = "closed")
=============================================================================
