-------------------------------- MODULE Smtp --------------------------------
(***************************************************************************)
(* The SMTP channel (pkg/notify/smtp.go): the connection that is kept for   *)
(* the next message, and the timer that closes it.  Time is in ticks.      *)
(***************************************************************************)
EXTENDS Integers

CONSTANTS
  IdleTimeout, MinInterval,
  MaxClosers  \* bound: idleClose calls that wait for the lock at a time

ASSUME SmtpAssumption ==
  /\ IdleTimeout \in Nat \ {0} /\ MinInterval \in Nat /\ MaxClosers \in Nat \ {0}

VARIABLES
  lock,     \* is s.mu held, for a message?
  step,     \* where its send stands
  conn,     \* is there a sendCloser?
  timer,    \* ticks to go, 0 when it is not armed
  closers,  \* idleClose calls that the timer started
  last      \* ticks since the last message, up to MinInterval

smtpVars == <<lock, step, conn, timer, closers, last>>

SmtpInit ==
  /\ lock = FALSE /\ step = "none" /\ conn = FALSE
  /\ timer = 0 /\ closers = 0 /\ last = MinInterval

Release == lock' = FALSE /\ step' = "none"

Enter ==
  /\ ~lock
  /\ lock' = TRUE /\ step' = "open"
  /\ UNCHANGED <<conn, timer, closers, last>>

(* The lock is held while the rate is limited.  dial, unless there is a     *)
(* connection, which keeps its timer.                                       *)
Connect ==
  /\ lock /\ step = "open" /\ last = MinInterval
  /\ conn' = TRUE
  /\ timer' = IF conn THEN timer ELSE IdleTimeout
  /\ step' = "transmit"
  /\ UNCHANGED <<lock, closers, last>>

DialFailsLocked == \* mutant: the error returns with the lock held
  /\ lock /\ step = "open" /\ last = MinInterval /\ ~conn
  /\ step' = "none"
  /\ UNCHANGED <<lock, conn, timer, closers, last>>
DialFails ==
  /\ lock /\ step = "open" /\ last = MinInterval /\ ~conn
  /\ Release
  /\ UNCHANGED <<conn, timer, closers, last>>

Transmit ==
  /\ lock /\ step = "transmit"
  /\ last' = 0 /\ timer' = IdleTimeout
  /\ Release
  /\ UNCHANGED <<conn, closers>>

(* The timer stays as it is. *)
TransmitFails ==
  /\ lock /\ step = "transmit"
  /\ conn' = FALSE
  /\ Release
  /\ UNCHANGED <<timer, closers, last>>

idleCloseUnlocked == \* mutant: the lock is not taken
  /\ closers > 0
  /\ conn' = FALSE /\ closers' = closers - 1
  /\ UNCHANGED <<lock, step, timer, last>>
idleClose ==
  /\ closers > 0 /\ ~lock
  /\ conn' = FALSE /\ closers' = closers - 1
  /\ UNCHANGED <<lock, step, timer, last>>

Expires == timer = 1

(* A tick.  A timer that expires starts idleClose. *)
SmtpTick ==
  /\ Expires => closers < MaxClosers
  /\ last' = IF last < MinInterval THEN last + 1 ELSE last
  /\ timer' = IF timer > 0 THEN timer - 1 ELSE 0
  /\ closers' = IF Expires THEN closers + 1 ELSE closers
  /\ UNCHANGED <<lock, step, conn>>

SmtpTypeOK ==
  /\ lock \in BOOLEAN /\ step \in {"none", "open", "transmit"}
  /\ conn \in BOOLEAN
  /\ timer \in 0 .. IdleTimeout
  /\ closers \in 0 .. MaxClosers
  /\ last \in 0 .. MinInterval

=============================================================================
