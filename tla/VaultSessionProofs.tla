--------------------------- MODULE VaultSessionProofs ---------------------------
(***************************************************************************)
(* Theorems about VaultSession: for any number of databases and any number *)
(* of handlers that wait, with audit writes that raise at any of the places*)
(* where the code makes one, and with the tray at any time.                *)
(***************************************************************************)
EXTENDS VaultSession, TLAPS

Entries == [kind : Kinds, handle : Handles \cup {None}, shown : BOOLEAN]

\* The failed login of database d is being reported in s, under nothing but login dialogs
\* and warnings.
Reported(s, d) ==
  \E k \in DOMAIN s :
    /\ s[k].kind = "loginError" /\ s[k].handle = d
    /\ \A j \in DOMAIN s : j > k => s[j].kind \in {"login", "tamper"}

Types ==
  /\ {mgr, db, audit, clip} \subseteq Handles \cup {None}
  /\ stack \in Seq(Entries)

\* What there is, the program can still reach, or it is lost.
Accounted ==
  /\ bridges = loggers
  /\ loggers \subseteq lost \cup ({audit} \ {None})
  /\ clips \subseteq lost \cup ({clip} \ {None})
  /\ openDbs \subseteq lost \cup ({db} \ {None})
  /\ keys \subseteq lost \cup ({db, mgr} \ {None})
  /\ {audit, clip} \subseteq {mgr, None} \cup lost

\* A session that is not lost is whole.
Whole == mgr # None /\ mgr \notin lost => db = mgr /\ mgr \in openDbs \cap keys /\ master = TRUE

\* What can be seen of it.
Visible ==
  /\ audit # None => monitor # "none"
  /\ ~overlay => mgr # None /\ audit # None /\ clip # None /\ tray # "locked" /\ ~panicked

\* There is no session; a database that is not lost is the one of a failed login.
Asking ==
  /\ audit = None /\ clip = None /\ monitor = "none" /\ (master => keys # {})
  /\ db # None /\ db \notin lost => Reported(stack, db) /\ db \notin keys

\* The program has ended.
Ended ==
  /\ UNION {keys, loggers, clips, openDbs} \subseteq lost
  /\ ~master /\ monitor = "none" /\ audit = None /\ clip = None

IInv ==
  /\ Types
  /\ Accounted
  /\ locked = (mgr = None)
  /\ mgr = None => tray # "unlocked" /\ overlay
  /\ running => Whole /\ Visible
  /\ running /\ mgr = None => Asking
  /\ ~running => Ended

Session == <<db, openDbs, keys, master, mgr, locked, audit, clip, bridges, loggers, clips,
             overlay, lost>>

--------------------------------------------------------------------------------
\* The stack.

LEMMA FrontFacts ==
  ASSUME NEW S, NEW s \in Seq(S), s # <<>>
  PROVE  /\ Front(s) \in Seq(S) /\ DOMAIN s = 1..Len(s) /\ Len(s) \in Nat \ {0}
         /\ Last(s) = s[Len(s)] /\ Last(s) \in S
         /\ DOMAIN Front(s) = 1..(Len(s) - 1)
         /\ \A i \in 1..(Len(s) - 1) : Front(s)[i] = s[i]
<1>1. Len(s) \in Nat \ {0} /\ DOMAIN s = 1..Len(s)
  OBVIOUS
<1>2. Front(s) = SubSeq(s, 1, Len(s) - 1)
  BY DEF Front
<1>3. QED
  BY <1>1, <1>2 DEF Last

\* The innermost handler of a failed login that is reported is its own or one above it.
LEMMA ReportedTop ==
  ASSUME NEW s \in Seq(Entries), s # <<>>, NEW d, Reported(s, d)
  PROVE  /\ Last(s).kind \in {"loginError", "login", "tamper"}
         /\ Last(s).kind # "loginError" => Reported(Front(s), d)
<1>1. /\ DOMAIN s = 1..Len(s) /\ Len(s) \in Nat \ {0} /\ Last(s) = s[Len(s)]
      /\ DOMAIN Front(s) = 1..(Len(s) - 1)
      /\ \A i \in 1..(Len(s) - 1) : Front(s)[i] = s[i]
  BY FrontFacts
<1>2. PICK k \in DOMAIN s :
        /\ s[k].kind = "loginError" /\ s[k].handle = d
        /\ \A j \in DOMAIN s : j > k => s[j].kind \in {"login", "tamper"}
  BY DEF Reported
<1>3. Last(s).kind \in {"loginError", "login", "tamper"}
  BY <1>1, <1>2
<1>4. ASSUME Last(s).kind # "loginError"
      PROVE  Reported(Front(s), d)
  <2>1. k \in DOMAIN Front(s) /\ Front(s)[k] = s[k]
    BY <1>1, <1>2, <1>4
  <2>2. \A j \in DOMAIN Front(s) : j \in DOMAIN s /\ Front(s)[j] = s[j]
    BY <1>1
  <2>3. QED
    BY <1>2, <2>1, <2>2 DEF Reported
<1>5. QED
  BY <1>3, <1>4

\* A login dialog or a warning above it.
LEMMA ReportedPush ==
  ASSUME NEW s \in Seq(Entries), NEW d, NEW e \in Entries
  PROVE  /\ Append(s, e) \in Seq(Entries)
         /\ Reported(s, d) /\ e.kind \in {"login", "tamper"} => Reported(Append(s, e), d)
         /\ e.kind = "loginError" /\ e.handle = d => Reported(Append(s, e), d)
<1> DEFINE t == Append(s, e)
<1>1. /\ t \in Seq(Entries) /\ Len(s) \in Nat
      /\ DOMAIN s = 1..Len(s) /\ DOMAIN t = 1..(Len(s) + 1)
      /\ \A i \in 1..Len(s) : t[i] = s[i]
      /\ t[Len(s) + 1] = e
  OBVIOUS
<1> HIDE DEF t
<1>2. ASSUME Reported(s, d), e.kind \in {"login", "tamper"}
      PROVE  Reported(t, d)
  <2>1. PICK k \in DOMAIN s :
          /\ s[k].kind = "loginError" /\ s[k].handle = d
          /\ \A j \in DOMAIN s : j > k => s[j].kind \in {"login", "tamper"}
    BY <1>2 DEF Reported
  <2>2. k \in DOMAIN t /\ t[k] = s[k]
    BY <1>1
  <2>3. ASSUME NEW j \in DOMAIN t, j > k
        PROVE  t[j].kind \in {"login", "tamper"}
    BY <1>1, <1>2, <2>1, <2>3
  <2>4. QED
    BY <2>1, <2>2, <2>3 DEF Reported
<1>3. ASSUME e.kind = "loginError", e.handle = d
      PROVE  Reported(t, d)
  <2>1. Len(s) + 1 \in DOMAIN t /\ \A j \in DOMAIN t : ~(j > Len(s) + 1)
    BY <1>1
  <2>2. QED
    BY <1>1, <1>3, <2>1 DEF Reported
<1>4. QED
  BY <1>1, <1>2, <1>3 DEF t

LEMMA WaitingType ==
  ASSUME NEW kind \in Kinds
  PROVE  Waiting(kind) \in Entries /\ Waiting(kind).kind = kind
  BY DEF Waiting, Entries

--------------------------------------------------------------------------------
\* Steps.

\* Nobody can raise in EventBus.publish: who is subscribed can still log.
LEMMA NobodyRaises ==
  ASSUME IInv
  PROVE  ~PublishRaises
  BY DEF IInv, Accounted, PublishRaises

\* A step that leaves the session, its monitor and the tray as they are.
LEMMA SameSession ==
  ASSUME IInv, running, running', UNCHANGED <<Session, monitor, tray, panicked>>,
         stack' \in Seq(Entries),
         mgr = None /\ Reported(stack, db) => Reported(stack', db)
  PROVE  IInv'
<1>1. Types' /\ Accounted'
  BY DEF IInv, Types, Accounted, Session
<1>2. Whole' /\ Visible'
  BY DEF IInv, Whole, Visible, Session
<1>3. mgr' = None => Asking'
  BY DEF IInv, Asking, Session
<1>4. QED
  BY <1>1, <1>2, <1>3 DEF IInv, Session

\* _logout leaves nothing but what was lost.
LEMMA LogoutInv ==
  ASSUME IInv, running, running', NEW reason, NEW later, Logout(reason, later),
         panicked' = panicked \/ mgr # None,
         stack' \in Seq(Entries),
         mgr = None /\ Reported(stack, db) => Reported(stack', db)
  PROVE  IInv'
<1>1. CASE mgr = None
  BY <1>1, SameSession DEF Logout, sessionVars, vaultVars, serviceVars, Session
<1>2. CASE mgr # None
  <2>1. /\ ClearSensitiveData /\ CloseAudit /\ CloseVault
        /\ db' = None /\ mgr' = None /\ locked' = TRUE /\ overlay' = TRUE /\ tray' = "locked"
        /\ lost' = lost
    BY <1>2, NobodyRaises DEF Logout
  <2>2. Types'
    BY <2>1 DEF Types, CloseAudit, ClearSensitiveData
  <2>3. keys' \subseteq lost' /\ openDbs' \subseteq lost'
    BY <1>2, <2>1 DEF IInv, Accounted, Whole, CloseVault
  <2>4. loggers' \subseteq lost' /\ clips' \subseteq lost' /\ bridges' = loggers'
    BY <2>1 DEF IInv, Accounted, CloseAudit, ClearSensitiveData
  <2>5. Accounted'
    BY <2>1, <2>3, <2>4 DEF Accounted, CloseAudit, ClearSensitiveData
  <2>6. Whole' /\ Visible' /\ Asking'
    BY <2>1 DEF Whole, Visible, Asking, CloseAudit, ClearSensitiveData
  <2>7. QED
    BY <2>1, <2>2, <2>5, <2>6 DEF IInv
<1>3. QED
  BY <1>1, <1>2

\* The innermost dialog of a kind, and what is left when its handler returns.
LEMMA TopFacts ==
  ASSUME IInv, NEW kind, Top(kind)
  PROVE  /\ running /\ stack \in Seq(Entries) /\ stack # <<>> /\ Last(stack).kind = kind
         /\ Front(stack) \in Seq(Entries)
         /\ kind \notin {"loginError", "login", "tamper"} => ~Reported(stack, db)
         /\ kind # "loginError" => (Reported(stack, db) => Reported(Front(stack), db))
<1>1. running /\ stack \in Seq(Entries) /\ stack # <<>> /\ Last(stack).kind = kind
  BY DEF Top, IInv, Types
<1>2. QED
  BY <1>1, FrontFacts, ReportedTop

\* A login dialog or a warning is shown, whatever there is below.
LEMMA NoticeInv ==
  ASSUME IInv, running, running', UNCHANGED <<Session, monitor, tray, panicked>>,
         NEW kind \in {"login", "tamper"},
         stack' \in {stack, Append(stack, Waiting(kind))}
  PROVE  IInv'
<1>1. Waiting(kind) \in Entries /\ Waiting(kind).kind = kind
  BY WaitingType DEF Kinds
<1>2. stack \in Seq(Entries)
  BY DEF IInv, Types
<1>3. /\ Append(stack, Waiting(kind)) \in Seq(Entries)
      /\ Reported(stack, db) => Reported(Append(stack, Waiting(kind)), db)
  BY <1>1, <1>2, ReportedPush
<1>4. QED
  BY <1>2, <1>3, SameSession

LEMMA LoginDueInv ==
  ASSUME IInv, LoginDue
  PROVE  IInv'
  BY NoticeInv DEF LoginDue, sessionVars, vaultVars, serviceVars, panicVars, Session

LEMMA OverlayInv ==
  ASSUME IInv, UnlockFromOverlay
  PROVE  IInv'
  BY NoticeInv DEF UnlockFromOverlay, Human, AskAgain, sessionVars, vaultVars, serviceVars,
     panicVars, Session

LEMMA TamperNoticeInv ==
  ASSUME IInv, TamperNotice
  PROVE  IInv'
  BY NoticeInv DEF TamperNotice, sessionVars, vaultVars, serviceVars, panicVars, Session

LEMMA TrayInv ==
  ASSUME IInv, TrayLockOrUnlock
  PROVE  IInv'
<1> USE DEF TrayLockOrUnlock, Human, panicVars
<1>1. CASE locked
  BY <1>1, NoticeInv DEF AskAgain, sessionVars, vaultVars, serviceVars, Session
<1>2. CASE ~locked
  BY <1>2, LogoutInv DEF IInv, Types
<1>3. QED
  BY <1>1, <1>2

LEMMA LoginCancelledInv ==
  ASSUME IInv, LoginCancelled
  PROVE  IInv'
<1> USE DEF LoginCancelled, Human, vaultVars, panicVars
<1>1. /\ stack' \in Seq(Entries) /\ running /\ running'
      /\ Reported(stack, db) => Reported(stack', db)
  BY TopFacts
<1>2. Types' /\ Accounted'
  BY <1>1 DEF IInv, Types, Accounted
<1>3. Whole' /\ Visible'
  BY <1>1 DEF IInv, Whole, Visible
<1>4. mgr' = None => Asking'
  BY <1>1 DEF IInv, Asking
<1>5. QED
  BY <1>1, <1>2, <1>3, <1>4 DEF IInv

LEMMA FreshFacts ==
  ASSUME NEW h \in Fresh
  PROVE  /\ h \in Handles /\ h # None
         /\ h \notin UNION {openDbs, keys, bridges, loggers, clips} /\ h \notin {db, mgr, audit, clip}
<1>1. h \in Handles /\ h # None
  BY SessionAssumption DEF Fresh
<1>2. h \notin ((UNION {openDbs, keys, bridges, loggers, clips}) \cup {db, mgr, audit, clip}
                 \cup {stack[i].handle : i \in DOMAIN stack})
  BY DEF Fresh
<1>3. QED
  BY <1>1, <1>2

LEMMA LoginSucceedsInv ==
  ASSUME IInv, LoginSucceeds
  PROVE  IInv'
<1> USE DEF LoginSucceeds, TopShown
<1>1. stack' \in Seq(Entries) /\ running /\ running'
  BY TopFacts
<1>2. PICK h \in Fresh : FinishUnlock(h)
  OBVIOUS
<1>3. /\ h \in Handles /\ h # None
      /\ h \notin UNION {openDbs, keys, bridges, loggers, clips} /\ h \notin {db, mgr, audit, clip}
  BY <1>2, FreshFacts
<1>4. OpenVault(h)
  BY <1>2 DEF FinishUnlock
<1>5. \/ UNCHANGED <<audit, loggers, bridges, monitor, clip, clips, overlay, tray, panicked>>
      \/ /\ StartAudit(h) /\ monitor' = "watching"
         /\ UNCHANGED <<clip, clips, overlay, tray, panicked>>
      \/ /\ StartAudit(h) /\ monitor' = "watching" /\ panicked' = FALSE /\ StartClipboard(h)
         /\ overlay' = FALSE /\ tray' = "unlocked"
  BY <1>2 DEF FinishUnlock, StartSecurity, StartMonitor, RecoverPanic, panicVars
<1>6. Types'
  BY <1>1, <1>3, <1>4, <1>5 DEF IInv, Types, OpenVault, StartAudit, StartClipboard
<1>7. {db, mgr, audit, clip} \ {None} \subseteq lost' /\ lost \subseteq lost' \cup {h}
  BY <1>3, <1>4 DEF OpenVault
<1>8. /\ openDbs' \subseteq lost' \cup ({db'} \ {None})
      /\ keys' \subseteq lost' \cup ({db', mgr'} \ {None})
  BY <1>3, <1>4, <1>7 DEF IInv, Accounted, OpenVault
<1>9. /\ bridges' = loggers'
      /\ loggers' \subseteq lost' \cup ({audit'} \ {None})
      /\ clips' \subseteq lost' \cup ({clip'} \ {None})
  BY <1>3, <1>5, <1>7 DEF IInv, Accounted, StartAudit, StartClipboard
<1>10. {audit', clip'} \subseteq {mgr', None} \cup lost'
  BY <1>4, <1>5, <1>7 DEF OpenVault, StartAudit, StartClipboard
<1>11. Accounted'
  BY <1>8, <1>9, <1>10 DEF Accounted
<1>12. Whole'
  BY <1>4 DEF Whole, OpenVault
<1>13. Visible'
  BY <1>1, <1>3, <1>4, <1>5 DEF IInv, Visible, OpenVault, StartAudit, StartClipboard
<1>14. mgr' # None /\ locked' = FALSE
  BY <1>3, <1>4 DEF OpenVault
<1>15. QED
  BY <1>1, <1>6, <1>11, <1>12, <1>13, <1>14 DEF IInv

LEMMA LoginFailsInv ==
  ASSUME IInv, LoginFails
  PROVE  IInv'
<1> USE DEF LoginFails, TopShown, serviceVars, panicVars
<1>1. Front(stack) \in Seq(Entries) /\ running /\ running'
  BY TopFacts
<1>2. PICK h \in Fresh :
        /\ db' = h /\ openDbs' = openDbs \cup {h}
        /\ \/ /\ stack' = Append(Front(stack), [kind |-> "loginError", handle |-> h, shown |-> TRUE])
              /\ lost' = (lost \cup ({db} \ {None})) \ {h}
           \/ /\ ~auditOk
              /\ stack' = Front(stack)
              /\ lost' = lost \cup ({db} \ {None}) \cup {h}
  OBVIOUS
<1>3. /\ h \in Handles /\ h # None
      /\ h \notin UNION {openDbs, keys, bridges, loggers, clips} /\ h \notin {db, mgr, audit, clip}
  BY <1>2, FreshFacts
<1> DEFINE e == [kind |-> "loginError", handle |-> h, shown |-> TRUE]
<1>4. e \in Entries /\ e.kind = "loginError" /\ e.handle = h
  BY <1>3 DEF Entries, Kinds
<1> HIDE DEF e
<1>5. stack' \in Seq(Entries) /\ (h \in lost' \/ Reported(stack', h))
  <2>1. CASE stack' = Append(Front(stack), e)
    BY <1>1, <1>4, <2>1, ReportedPush
  <2>2. CASE stack' = Front(stack) /\ h \in lost'
    BY <1>1, <2>2
  <2>3. QED
    BY <1>2, <2>1, <2>2 DEF e
<1>6. (lost \cup ({db} \ {None})) \ {h} \subseteq lost'
  BY <1>2
<1>7. Types'
  BY <1>2, <1>3, <1>5 DEF IInv, Types
<1>8. Accounted'
  BY <1>2, <1>3, <1>6 DEF IInv, Accounted
<1>9. Whole' /\ Visible'
  BY <1>1, <1>3, <1>6 DEF IInv, Whole, Visible
<1>10. mgr' = None => Asking'
  BY <1>1, <1>2, <1>3, <1>5 DEF IInv, Asking
<1>11. QED
  BY <1>1, <1>7, <1>8, <1>9, <1>10 DEF IInv

LEMMA LoginErrorReadInv ==
  ASSUME IInv, LoginErrorRead
  PROVE  IInv'
<1> USE DEF LoginErrorRead, serviceVars, panicVars, Human
<1>1. stack' \in Seq(Entries) /\ running /\ running'
  BY TopFacts
<1>2. /\ db' = None
      /\ openDbs' = openDbs \ ({db} \ {None})
      /\ lost \subseteq lost'
      /\ db # None /\ db \in keys => db \in lost'
  <2>1. CASE db = None
    BY <2>1
  <2>2. CASE db # None
    BY <2>2
  <2>3. QED
    BY <2>1, <2>2
<1>3. Types'
  BY <1>1, <1>2 DEF IInv, Types
<1>4. Accounted'
  BY <1>2 DEF IInv, Accounted
<1>5. Whole' /\ Visible'
  BY <1>1, <1>2 DEF IInv, Whole, Visible
<1>6. mgr' = None => Asking'
  BY <1>1, <1>2 DEF IInv, Asking
<1>7. QED
  BY <1>1, <1>3, <1>4, <1>5, <1>6 DEF IInv

LEMMA OpenDialogInv ==
  ASSUME IInv, NEW op \in Operations, OpenDialog(op)
  PROVE  IInv'
<1> USE DEF OpenDialog, Human
<1>1. Waiting(op) \in Entries /\ stack \in Seq(Entries)
  BY WaitingType DEF Kinds, Operations, IInv, Types
<1>2. stack' \in Seq(Entries)
  BY <1>1
<1>3. QED
  BY <1>2, SameSession DEF sessionVars, vaultVars, serviceVars, panicVars, Session

\* A dialog ends, or another takes its place.
LEMMA DialogInv ==
  ASSUME IInv, NEW kind, Top(kind), kind \notin {"loginError", "login", "tamper"}, running',
         UNCHANGED <<Session, monitor, tray, panicked>>,
         NEW other \in Kinds, stack' \in {Front(stack), Append(Front(stack), Waiting(other))}
  PROVE  IInv'
<1>1. /\ running /\ Front(stack) \in Seq(Entries) /\ ~Reported(stack, db)
  BY TopFacts
<1>2. Waiting(other) \in Entries
  BY WaitingType
<1>3. stack' \in Seq(Entries)
  BY <1>1, <1>2
<1>4. QED
  BY <1>1, <1>3, SameSession

LEMMA DialogEndsInv ==
  ASSUME IInv, DialogEnds
  PROVE  IInv'
<1> USE DEF DialogEnds, Human
<1>1. PICK kind \in Operations \cup {"password", "confirm", "message"} : Top(kind)
  OBVIOUS
<1>2. kind \notin {"loginError", "login", "tamper"} /\ "message" \in Kinds
  BY DEF Operations, Kinds
<1>3. QED
  BY <1>1, <1>2, DialogInv DEF sessionVars, vaultVars, serviceVars, panicVars, Session

LEMMA PasswordWantedInv ==
  ASSUME IInv, PasswordWanted
  PROVE  IInv'
<1> USE DEF PasswordWanted, TopShown, Human
<1>1. "password" \in Kinds
  BY DEF Kinds
<1>2. QED
  BY <1>1, DialogInv DEF sessionVars, vaultVars, serviceVars, panicVars, Session

LEMMA ExportChosenInv ==
  ASSUME IInv, ExportChosen
  PROVE  IInv'
<1> USE DEF ExportChosen, TopShown, Human
<1>1. "confirm" \in Kinds /\ Top("export")
  BY DEF Kinds
<1>2. Front(stack) \in Seq(Entries) /\ Waiting("confirm") \in Entries
  BY <1>1, TopFacts, WaitingType
<1>3. /\ Front(stack) \o <<>> = Front(stack)
      /\ Front(stack) \o <<Waiting("confirm")>> = Append(Front(stack), Waiting("confirm"))
  BY <1>2
<1>4. stack' \in {Front(stack), Append(Front(stack), Waiting("confirm"))}
  BY <1>3
<1>5. QED
  BY <1>1, <1>4, DialogInv DEF sessionVars, vaultVars, serviceVars, panicVars, Session

LEMMA PasswordChangedInv ==
  ASSUME IInv, PasswordChanged
  PROVE  IInv'
<1> USE DEF PasswordChanged, TopShown, Human, serviceVars, panicVars
<1>1. stack' \in Seq(Entries) /\ running /\ running' /\ ~Reported(stack, db)
  BY TopFacts
<1>2. keys' \in {keys, keys \cup {db}} /\ (db = None => keys' = keys)
  OBVIOUS
<1>3. Types'
  BY <1>1 DEF IInv, Types
<1>4. Accounted'
  BY <1>2 DEF IInv, Accounted
<1>5. Whole' /\ Visible'
  BY <1>1, <1>2 DEF IInv, Whole, Visible
<1>6. mgr' = None => Asking'
  BY <1>1 DEF IInv, Asking
<1>7. QED
  BY <1>1, <1>3, <1>4, <1>5, <1>6 DEF IInv

LEMMA SettingsSavedInv ==
  ASSUME IInv, SettingsSaved
  PROVE  IInv'
<1> USE DEF SettingsSaved, TopShown, Human, vaultVars, panicVars
<1>1. stack' \in Seq(Entries) /\ running /\ running' /\ ~Reported(stack, db)
  BY TopFacts
<1>2. \/ UNCHANGED <<monitor, panicked>>
      \/ mgr # None /\ monitor' = "watching" /\ (panicked' = FALSE \/ panicked' = panicked)
  BY DEF StartSecurity, StartMonitor, RecoverPanic
<1>3. Types' /\ Accounted'
  BY <1>1 DEF IInv, Types, Accounted
<1>4. Whole' /\ Visible'
  BY <1>1, <1>2 DEF IInv, Whole, Visible
<1>5. mgr' = None => Asking'
  BY <1>1, <1>2 DEF IInv, Asking
<1>6. QED
  BY <1>1, <1>3, <1>4, <1>5 DEF IInv

\* The tray says busy, or what is true.
LEMMA TrayStep ==
  ASSUME IInv, NEW kind, Top(kind), kind \notin {"loginError", "login", "tamper"}, running',
         UNCHANGED <<Session, monitor, panicked>>,
         tray' = "busy" \/ IdleAgain,
         NEW other \in Kinds, stack' \in {Front(stack), Append(Front(stack), Waiting(other))}
  PROVE  IInv'
<1>1. /\ running /\ Front(stack) \in Seq(Entries) /\ ~Reported(stack, db)
  BY TopFacts
<1>2. stack' \in Seq(Entries)
  BY <1>1, WaitingType
<1>3. Types' /\ Accounted'
  BY <1>2 DEF IInv, Types, Accounted, Session
<1>4. mgr = None => overlay /\ tray' # "unlocked"
  BY DEF IInv, IdleAgain
<1>5. mgr # None => tray' # "locked"
  BY DEF IInv, IdleAgain
<1>6. Whole' /\ Visible'
  BY <1>1, <1>4, <1>5 DEF IInv, Whole, Visible, Session
<1>7. mgr' = None => Asking'
  BY <1>1 DEF IInv, Asking, Session
<1>8. QED
  BY <1>1, <1>3, <1>4, <1>6, <1>7 DEF IInv, Session

LEMMA RunsInv ==
  ASSUME IInv, Runs
  PROVE  IInv'
<1> USE DEF Runs, TopShown, Human
<1>1. PICK kind \in {"confirm", "import"} : Top(kind)
  OBVIOUS
<1>2. "failed" \in Kinds /\ kind \notin {"loginError", "login", "tamper"}
  BY DEF Kinds
<1>3. QED
  BY <1>1, <1>2, TrayStep DEF vaultVars, panicVars, Session

LEMMA FailureReadInv ==
  ASSUME IInv, FailureRead
  PROVE  IInv'
<1> USE DEF FailureRead, Human
<1>1. "failed" \in Kinds
  BY DEF Kinds
<1>2. QED
  BY <1>1, TrayStep DEF vaultVars, panicVars, Session

LEMMA MonitorFiresInv ==
  ASSUME IInv, MonitorFires
  PROVE  IInv'
<1> USE DEF MonitorFires, vaultVars, panicVars
<1>1. mgr # None
  BY DEF IInv, Asking
<1>2. Types' /\ Accounted' /\ Whole' /\ Visible'
  BY DEF IInv, Types, Accounted, Whole, Visible
<1>3. QED
  BY <1>1, <1>2 DEF IInv

LEMMA SecurityLockInv ==
  ASSUME IInv, SecurityLock
  PROVE  IInv'
<1> USE DEF SecurityLock, panicVars
<1>1. running /\ running' /\ stack' = stack /\ stack' \in Seq(Entries)
  BY DEF IInv, Types
<1>2. CASE ~LogWrites
  BY <1>1, <1>2, SameSession DEF sessionVars, vaultVars, serviceVars, Session
<1>3. CASE LogWrites
  BY <1>1, <1>3, LogoutInv
<1>4. QED
  BY <1>2, <1>3

LEMMA PanicInv ==
  ASSUME IInv, Panic
  PROVE  IInv'
<1> USE DEF Panic, Human, CanPanic
<1>1. mgr # None /\ running /\ running' /\ Logout("panic", due) /\ stack \in Seq(Entries)
  BY DEF IInv, Types
<1>2. stack' \in Seq(Entries)
  <2>1. stack' = [i \in 1..Len(stack) |-> [stack[i] EXCEPT !.shown = FALSE]]
    BY <1>1 DEF CloseWindows
  <2>2. ASSUME NEW i \in 1..Len(stack)
        PROVE  [stack[i] EXCEPT !.shown = FALSE] \in Entries
    <3>1. stack[i] \in Entries
      BY <1>1
    <3>2. QED
      BY <3>1 DEF Entries
  <2>3. Len(stack) \in Nat
    BY <1>1
  <2>4. QED
    BY <2>1, <2>2, <2>3
<1>3. QED
  BY <1>1, <1>2, LogoutInv

LEMMA VerifyInv ==
  ASSUME IInv, StartupVerify \/ PeriodicVerify
  PROVE  IInv'
<1> USE DEF NotVerified, vaultVars, panicVars
<1>1. stack \in Seq(Entries) /\ running /\ running' /\ UNCHANGED <<Session, monitor, tray, panicked>>
  BY DEF StartupVerify, PeriodicVerify, IInv, Types, Session
<1>2. stack' = stack \/ (mgr # None /\ stack' = Append(stack, Waiting("message")))
  BY DEF StartupVerify, PeriodicVerify, IInv, Asking
<1>3. Waiting("message") \in Entries
  BY WaitingType DEF Kinds
<1>4. stack' \in Seq(Entries)
  BY <1>1, <1>2, <1>3
<1>5. QED
  BY <1>1, <1>2, <1>4, SameSession

LEMMA TamperReadInv ==
  ASSUME IInv, TamperRead
  PROVE  IInv'
<1> USE DEF TamperRead, Human, panicVars
<1>1. /\ running /\ running' /\ stack' \in Seq(Entries)
      /\ Reported(stack, db) => Reported(stack', db)
  BY TopFacts
<1>2. CASE Logout("audit_tamper", due)
  BY <1>1, <1>2, LogoutInv
<1>3. CASE UNCHANGED <<due, sessionVars>>
  BY <1>1, <1>3, SameSession DEF sessionVars, vaultVars, serviceVars, Session
<1>4. QED
  BY <1>2, <1>3

LEMMA ExitInv ==
  ASSUME IInv, Exit
  PROVE  IInv'
<1> USE DEF Exit, ClearSensitiveData, CloseAudit, CloseVault, panicVars, Human
<1>1. Types'
  BY DEF IInv, Types
<1>2. keys' \subseteq lost'
  <2>1. CASE mgr = None
    BY <2>1 DEF IInv, Accounted
  <2>2. CASE mgr # None
    BY <2>2 DEF IInv, Accounted, Whole
  <2>3. QED
    BY <2>1, <2>2
<1>3. Ended'
  BY <1>2 DEF IInv, Accounted, Ended
<1>4. Accounted'
  BY <1>3 DEF IInv, Accounted, Ended
<1>5. QED
  BY <1>1, <1>3, <1>4 DEF IInv

--------------------------------------------------------------------------------

LEMMA InitInv ==
  ASSUME Init
  PROVE  IInv
<1>1. Types /\ Accounted
  BY DEF Init, Types, Accounted
<1>2. Whole /\ Visible /\ Asking
  BY DEF Init, Whole, Visible, Asking
<1>3. QED
  BY <1>1, <1>2 DEF Init, IInv

LEMMA NextInv ==
  ASSUME IInv, [Next]_vars
  PROVE  IInv'
<1>1. CASE Queued
  BY <1>1, LoginDueInv, SecurityLockInv, VerifyInv, TamperNoticeInv DEF Queued
<1>2. CASE LoginCancelled \/ LoginSucceeds \/ LoginFails \/ LoginErrorRead
  BY <1>2, LoginCancelledInv, LoginSucceedsInv, LoginFailsInv, LoginErrorReadInv
<1>3. CASE TrayLockOrUnlock \/ UnlockFromOverlay
  BY <1>3, TrayInv, OverlayInv
<1>4. CASE (\E op \in Operations : OpenDialog(op)) \/ DialogEnds \/ PasswordWanted \/ PasswordChanged
  BY <1>4, OpenDialogInv, DialogEndsInv, PasswordWantedInv, PasswordChangedInv
<1>5. CASE SettingsSaved \/ ExportChosen \/ Runs \/ FailureRead
  BY <1>5, SettingsSavedInv, ExportChosenInv, RunsInv, FailureReadInv
<1>6. CASE MonitorFires \/ Panic \/ TamperRead \/ Exit
  BY <1>6, MonitorFiresInv, PanicInv, TamperReadInv, ExitInv
<1>7. CASE AuditChanges \/ UNCHANGED vars
  <2>1. UNCHANGED <<running, stack, sessionVars, panicVars>>
    BY <1>7 DEF AuditChanges, vars
  <2>2. QED
    BY <2>1 DEF IInv, Types, Accounted, Whole, Visible, Asking, Ended, sessionVars, vaultVars,
       serviceVars, panicVars
<1>8. QED
  BY <1>1, <1>2, <1>3, <1>4, <1>5, <1>6, <1>7 DEF Next

LEMMA Invariant == Spec => []IInv
<1>1. Init => IInv
  BY InitInv
<1>2. IInv /\ [Next]_vars => IInv'
  BY NextInv
<1>3. QED
  BY <1>1, <1>2, PTL DEF Spec

\* A session that is not lost has its database, key and password and no service of another;
\* with a log there is a monitor, and under an uncovered table everything runs: for any
\* databases, any depth of dialogs, and wherever an audit write raises.
THEOREM AlwaysWhole == Spec => []SessionWhole
<1>1. IInv => SessionWhole
  BY DEF IInv, Accounted, Whole, Visible, SessionWhole
<1>2. QED
  BY <1>1, Invariant, PTL

\* A locked vault and a program that has ended hold nothing but what was lost, and no
\* database but that and the one of a failed login.
THEOREM NothingHeld == Spec => []LockedHoldsNothing
<1>1. ASSUME IInv
      PROVE  LockedHoldsNothing
  <2>1. CASE ~running
    BY <1>1, <2>1 DEF IInv, Accounted, Ended, LockedHoldsNothing
  <2>2. CASE running /\ mgr = None
    <3>1. UNION {keys, bridges, loggers, clips} \subseteq lost
      BY <1>1, <2>2 DEF IInv, Accounted, Asking
    <3>2. Reported(stack, db) => db \in {stack[k].handle : k \in DOMAIN stack}
      BY DEF Reported
    <3>3. openDbs \subseteq lost \cup {stack[k].handle : k \in DOMAIN stack}
      BY <1>1, <2>2, <3>2 DEF IInv, Accounted, Asking
    <3>4. QED
      BY <1>1, <2>2, <3>1, <3>3 DEF IInv, Asking, LockedHoldsNothing
  <2>3. CASE running /\ mgr # None
    BY <2>3 DEF LockedHoldsNothing
  <2>4. QED
    BY <2>1, <2>2, <2>3
<1>2. QED
  BY <1>1, Invariant, PTL

\* After a panic no login is asked for, unless a person asked for it and mistyped the
\* password, or opened the vault and an audit write that raised ended the unlock.
THEOREM Quiet == Spec => QuietAfterPanic
<1>1. ASSUME IInv, [Next]_vars, panicked', "login" \in due' \ due
      PROVE  Top("loginError") \/ (panicked /\ mgr # None /\ overlay)
  <2>1. CASE LoginErrorRead
    BY <2>1 DEF LoginErrorRead
  <2>2. ASSUME NEW reason, NEW later, Logout(reason, later), later \subseteq due, running,
               UNCHANGED panicVars
        PROVE  panicked /\ mgr # None /\ overlay
    <3>1. mgr # None /\ panicked
      BY <1>1, <2>2 DEF Logout, panicVars
    <3>2. overlay = TRUE \/ ~panicked
      BY <1>1, <2>2 DEF IInv, Visible
    <3>3. QED
      BY <3>1, <3>2
  <2>3. CASE TrayLockOrUnlock
    BY <1>1, <2>2, <2>3 DEF TrayLockOrUnlock, Human
  <2>4. CASE SecurityLock
    BY <1>1, <2>2, <2>4 DEF SecurityLock
  <2>5. CASE TamperRead
    BY <1>1, <2>2, <2>5 DEF TamperRead, Human
  <2>6. CASE Panic
    <3>1. Logout("panic", due)
      BY <2>6 DEF Panic
    <3>2. QED
      BY <1>1, <3>1 DEF Logout
  <2>7. CASE LoginSucceeds
    <3>1. due' = due \/ due' = due \cup {"verify"}
      BY <2>7 DEF LoginSucceeds, FinishUnlock
    <3>2. QED
      BY <1>1, <3>1
  <2>8. CASE StartupVerify \/ PeriodicVerify
    BY <1>1, <2>8 DEF StartupVerify, PeriodicVerify
  <2>9. CASE MonitorFires
    BY <1>1, <2>9 DEF MonitorFires
  <2>10. CASE due' \subseteq due
    BY <1>1, <2>10
  <2>11. QED
    BY <1>1, <2>1, <2>3, <2>4, <2>5, <2>6, <2>7, <2>8, <2>9, <2>10
    DEF Next, Queued, LoginDue, TamperNotice, LoginCancelled, LoginFails, OpenDialog, DialogEnds,
        PasswordWanted, PasswordChanged, SettingsSaved, ExportChosen, Runs, FailureRead,
        UnlockFromOverlay, Exit, AuditChanges, vars
<1>2. QED
  BY <1>1, Invariant, PTL DEF Spec, QuietAfterPanic
===============================================================================
