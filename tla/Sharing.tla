--------------------------------- MODULE Sharing ---------------------------------
(***************************************************************************)
(* SharingService and the contacts of KeyExchangeService: an entry goes out*)
(* in a package for one contact key, and a package that comes in is checked*)
(* for its expiry, decrypted, marked as used and saved, in this order.     *)
(*                                                                         *)
(* A handler runs alone on the Tk thread; time passes between its steps,   *)
(* any of them may raise, and the program may be killed.  The changes of a *)
(* contact are one transaction each.                                       *)
(***************************************************************************)
EXTENDS Nonces

CONSTANTS
  Contacts,
  Keys,      \* public keys; the private ones are the receivers'
  Packages,  \* shares, each with its nonce
  Foreign,   \* the packages that other vaults made
  Days,      \* ticks until a share expires
  None       \* no row, nothing delivered, no handler

ContactRows == [key : Keys, verified : BOOLEAN, revoked : BOOLEAN]
Deliveries == [key : Keys, expires : Nat]
Handlers == [step : {"decrypt", "mark", "save", "status"}, package : Packages]
Statuses == {"active", "expired", "revoked", "imported"}

ASSUME SharingAssumption ==
  /\ Foreign \subseteq Packages /\ Days \in Nat
  /\ None \notin ContactRows \cup Deliveries \cup Handlers \cup Statuses

VARIABLES
  contact,    \* the row of a contact: [key, verified, revoked], or None
  activeKeys, \* its rows in contact_keys that are not revoked
  confirmed,  \* history: the keys whose fingerprint the user has confirmed since they were set
  share,      \* the row of a share in shared_entries: its status, or None
  package,    \* what was delivered: [key, expires], or None
  handler,    \* receive_share: [step, package], or None
  accepted,   \* history: how often a package was accepted
  late,       \* history: packages that expired between the check and the mark
  saved       \* the entries saved from each package

contactVars == <<contact, activeKeys, confirmed>>
receiveVars == <<handler, accepted, late, saved>>
sharingVars == <<now, nonces, contactVars, share, package, receiveVars>>

SharingTypeOK ==
  /\ now \in Nat /\ nonces \subseteq [nonce : Packages, expires : Nat]
  /\ contact \in [Contacts -> ContactRows \cup {None}]
  /\ activeKeys \in [Contacts -> SUBSET Keys] /\ confirmed \in [Contacts -> SUBSET Keys]
  /\ share \in [Packages -> Statuses \cup {None}]
  /\ package \in [Packages -> Deliveries \cup {None}]
  /\ handler \in Handlers \cup {None}
  /\ accepted \in [Packages -> Nat] /\ saved \in [Packages -> Nat]
  /\ late \subseteq Packages

SharingInit ==
  /\ contact = [c \in Contacts |-> None]
  /\ activeKeys = [c \in Contacts |-> {}]
  /\ confirmed = [c \in Contacts |-> {}]
  /\ share = [p \in Packages |-> None]
  /\ package = [p \in Packages |-> None]
  /\ handler = None
  /\ accepted = [p \in Packages |-> 0]
  /\ late = {}
  /\ saved = [p \in Packages |-> 0]

--------------------------------------------------------------------------------
\* Contacts

Known(c) == contact[c] # None
Usable(c) == IF Known(c) THEN ~contact[c].revoked ELSE FALSE

AddContact(c, k) ==
  /\ ~Known(c)
  /\ contact' = [contact EXCEPT ![c] = [key |-> k, verified |-> FALSE, revoked |-> FALSE]]
  /\ activeKeys' = [activeKeys EXCEPT ![c] = {k}]
  /\ confirmed' = [confirmed EXCEPT ![c] = {}]

\* verify_contact_fingerprint with the fingerprint of the key k the user was told.
VerifyContact(c, k) ==
  /\ Known(c)
  /\ confirmed' = [confirmed EXCEPT ![c] = @ \cup {k}]
  /\ contact' = [contact EXCEPT ![c].verified = @ \/ k = contact[c].key]
  /\ UNCHANGED activeKeys

\* A slip: the confirmation of the old key stays.
RotateKeepsVerified(c, k) ==
  /\ Known(c)
  /\ activeKeys' = [activeKeys EXCEPT ![c] = {k}]
  /\ contact' = [contact EXCEPT ![c].key = k, ![c].revoked = FALSE]
  /\ confirmed' = [confirmed EXCEPT ![c] = {}]

RotateContact(c, k) ==
  /\ Known(c)
  /\ activeKeys' = [activeKeys EXCEPT ![c] = {k}]
  /\ contact' = [contact EXCEPT ![c] = [key |-> k, verified |-> FALSE, revoked |-> FALSE]]
  /\ confirmed' = [confirmed EXCEPT ![c] = {}]

RevokeContact(c) ==
  /\ Known(c)
  /\ contact' = [contact EXCEPT ![c].revoked = TRUE]
  /\ activeKeys' = [activeKeys EXCEPT ![c] = {}]
  /\ UNCHANGED confirmed

ContactsNext ==
  /\ handler = None
  /\ \E c \in Contacts :
       \/ \E k \in Keys : AddContact(c, k) \/ VerifyContact(c, k) \/ RotateContact(c, k)
       \/ RevokeContact(c)
  /\ UNCHANGED <<now, nonces, share, package, receiveVars>>

--------------------------------------------------------------------------------
\* Sending

\* The dialog offers the keys of the contacts that are not revoked.
Offered == {c \in Contacts : Usable(c)}

AddShare(p) == share' = [share EXCEPT ![p] = "active"]

\* The package reaches the contact, or nobody: the audit fails after the row is written, or
\* the user cancels the dialog that saves the file.
Delivered(p, c) ==
  {package, [package EXCEPT ![p] = [key |-> contact[c].key, expires |-> now + Days]]}

\* share_entry for a contact.
ShareEntry(p, c) ==
  /\ handler = None /\ p \notin Foreign /\ share[p] = None
  /\ c \in Offered
  /\ AddShare(p)
  /\ package' \in Delivered(p, c)
  /\ UNCHANGED <<now, nonces, contactVars, receiveVars>>

\* Another vault makes a package.
ForeignShare(p, k) ==
  /\ p \in Foreign /\ package[p] = None
  /\ package' = [package EXCEPT ![p] = [key |-> k, expires |-> now + Days]]
  /\ UNCHANGED <<now, nonces, contactVars, share, receiveVars>>

RevokeShare(p) ==
  /\ handler = None /\ share[p] # None
  /\ share' = [share EXCEPT ![p] = "revoked"]
  /\ UNCHANGED <<now, nonces, contactVars, package, receiveVars>>

--------------------------------------------------------------------------------
\* Receiving

SetStatusIfLocal(p, status) ==
  share' = IF share[p] = None THEN share ELSE [share EXCEPT ![p] = status]

\* The window takes a package the user has, one at a time.
Handed(p) == handler = None /\ package[p] # None

\* receive_share begins: the package is parsed, and refused when it has expired.
Receive(p) ==
  /\ Handed(p)
  /\ IF package[p].expires <= now
     THEN SetStatusIfLocal(p, "expired") /\ UNCHANGED handler
     ELSE handler' = [step |-> "decrypt", package |-> p] /\ UNCHANGED share
  /\ UNCHANGED <<now, nonces, contactVars, package, accepted, late, saved>>

Goes(from, to) ==
  /\ handler # None /\ handler.step = from
  /\ handler' = IF to = "end" THEN None ELSE [handler EXCEPT !.step = to]

\* The private key the user gives fits, or the package is rejected.
Decrypt(k) ==
  /\ Goes("decrypt", IF k = package[handler.package].key THEN "mark" ELSE "end")
  /\ UNCHANGED <<now, nonces, contactVars, share, package, accepted, late, saved>>

\* mark_nonce_used: a package that was used before ends here.
Mark ==
  LET p == handler.package
  IN /\ Goes("mark", IF NonceUsed(p) THEN "end" ELSE "save")
     /\ IF NonceUsed(p)
        THEN nonces' = Kept /\ UNCHANGED <<accepted, late>>
        ELSE /\ MarkNonce(p, package[p].expires)
             /\ accepted' = [accepted EXCEPT ![p] = @ + 1]
             /\ late' = IF now >= package[p].expires THEN late \cup {p} ELSE late
     /\ UNCHANGED <<now, contactVars, share, package, saved>>

\* The permissions and required fields are checked, then the entry is saved, unless the
\* user only wants to look at it.
SaveReceived ==
  /\ \/ Goes("save", "end") /\ UNCHANGED saved
     \/ Goes("save", "status") /\ saved' = [saved EXCEPT ![handler.package] = @ + 1]
  /\ UNCHANGED <<now, nonces, contactVars, share, package, accepted, late>>

SetImported ==
  /\ Goes("status", "end")
  /\ SetStatusIfLocal(handler.package, "imported")
  /\ UNCHANGED <<now, nonces, contactVars, package, accepted, late, saved>>

\* A step raises, or the program is killed.
ReceiveFails ==
  /\ handler # None
  /\ handler' = None
  /\ UNCHANGED <<now, nonces, contactVars, share, package, accepted, late, saved>>

SharingNext ==
  \/ Tick /\ UNCHANGED <<contactVars, share, package, receiveVars>>
  \/ ContactsNext
  \/ \E p \in Packages :
       \/ \E c \in Contacts : ShareEntry(p, c)
       \/ \E k \in Keys : ForeignShare(p, k)
       \/ RevokeShare(p) \/ Receive(p)
  \/ \E k \in Keys : Decrypt(k)
  \/ Mark \/ SaveReceived \/ SetImported \/ ReceiveFails

SharingSpec == NoncesInit /\ SharingInit /\ [][SharingNext]_sharingVars

--------------------------------------------------------------------------------

\* A package is accepted once, however often it is received, unless it expired while it was
\* being decrypted; until then its nonce is in the table, whatever was received in between.
NoReplay ==
  \A p \in Packages :
    /\ accepted[p] <= 1 \/ p \in late
    /\ accepted[p] > 0 /\ now < package[p].expires => NonceUsed(p)
    /\ saved[p] <= accepted[p]
    /\ share[p] = "imported" => saved[p] > 0

\* Over any sequence of additions, confirmations, rotations and revocations the two tables
\* agree on the key of a contact, a revoked contact has none, and a contact counts as
\* verified only if the user has confirmed the key it has now.
ContactKeySound ==
  \A c \in Contacts :
    Known(c) =>
      /\ activeKeys[c] = IF contact[c].revoked THEN {} ELSE {contact[c].key}
      /\ contact[c].verified => contact[c].key \in confirmed[c]
================================================================================
