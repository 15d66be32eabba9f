------------------------------- MODULE MCWindow -------------------------------
(* What is done in the windows of an open vault, for TLC, one of six components at *)
(* a time: Importer, with files of up to two entries and one of three; Exporter;   *)
(* Sharing, with one contact, two keys, a package of this vault and one of         *)
(* another; QRCode, with an envelope cut in two ways and one of a single frame;    *)
(* SearchTable, with three entries of two categories in pages of one and a text    *)
(* that finds two; AuditViewer, with three events in pages of two.                 *)
EXTENDS Importer, Exporter, Sharing, QRCode, SearchTable, AuditViewer

CONSTANTS x, y, v1, v2, blank, pw, c1, k1, k2, p1, p2, e1, e2, i1, i2, i3, work, home, some

VARIABLE part  \* the component a behaviour is about

\* Importer and Exporter
MCIdentities == {x, y}
MCContents == {v1, v2}
MCSecrets == {pw, Nothing}
E(w, v) == [who |-> w, what |-> v]
File(f, s, e) == [format |-> f, secret |-> s, entries |-> e]
MCFiles ==
  {File("csv", Nothing, e) : e \in UNION {[1..n -> Entries] : n \in 1..2}}
    \cup {File("encrypted_json", pw, <<E(x, v1), E(y, v1), E(x, v2)>>),
          File("csv", Nothing, <<E(x, v1), E(y, blank)>>),
          File("encrypted_json", blank, <<E(y, v1)>>)}
    \cup {File(f, Nothing, <<E(x, v1)>>) : f \in {"unknown", "executable", "too_big", "endless"}}
MCEntryIds == 1..4
MCChosen == SUBSET {x, y, blank}

\* Sharing
MCContacts == {c1}
MCKeys == {k1, k2}
MCPackages == {p1, p2}
MCForeign == {p2}

\* QRCode
Coding(e, n, c) == [envelope |-> e, total |-> n, cut |-> c]
MCCodings == {Coding(e1, 2, 1), Coding(e1, 2, 2), Coding(e1, 1, 3), Coding(e2, 1, 1)}
MCUnsafe == {e2}

\* SearchTable
MCItems == {i1, i2, i3}
MCCategoryOf == [i \in MCItems |-> IF i = i1 THEN home ELSE work]
MCFinds == some :> {i1, i2}

\* AuditViewer
MCEventTypes == {"login", "change"}

Init ==
  /\ part \in {"import", "export", "share", "qr", "search", "viewer"}
  /\ ImportInit /\ ExportInit /\ NoncesInit /\ SharingInit /\ QRInit /\ SearchInit /\ ViewerInit
  /\ part # "import" => vault = [e \in EntryIds |-> Nothing]

listsVars == <<searchVars, viewerVars>>

Next ==
  /\ UNCHANGED part
  /\ \/ part = "import" /\ ImportNext /\ UNCHANGED <<exportVars, sharingVars, qrVars, listsVars>>
     \/ part = "export" /\ ExportNext /\ UNCHANGED <<importVars, sharingVars, qrVars, listsVars>>
     \/ part = "share" /\ SharingNext /\ UNCHANGED <<importVars, exportVars, qrVars, listsVars>>
     \/ /\ part = "qr" /\ QRNext
        /\ UNCHANGED <<importVars, exportVars, contactVars, share, package, receiveVars, listsVars>>
     \/ /\ part = "search" /\ SearchNext
        /\ UNCHANGED <<importVars, exportVars, sharingVars, qrVars, viewerVars>>
     \/ /\ part = "viewer" /\ ViewerNext
        /\ UNCHANGED <<importVars, exportVars, sharingVars, qrVars, searchVars>>

Spec == Init /\ [][Next]_<<importVars, exportVars, sharingVars, qrVars, listsVars, part>>
===============================================================================
