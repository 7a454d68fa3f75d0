-------------------------------- MODULE Mail --------------------------------
(***************************************************************************)
(* What becomes of a Gmail message: the text, the attachments and the      *)
(* stimulus that perception-svc (gmailwatcher/stimulus.go) and the CLI's   *)
(* school-backfill (cli/schoolbackfill.go) make of its MIME tree.          *)
(*                                                                         *)
(* A tree is a function from nodes to parts, with its root at node 1.  A   *)
(* part is a record [name, type, data, parts]: its file name, its MIME     *)
(* type, its body and the nodes of its children.  A body is a text, or     *)
(* Garbled when it is not base64url, Empty without data, NoBody when there *)
(* is none at all.                                                         *)
(***************************************************************************)
EXTENDS Integers, SequencesExt

CONSTANTS
  NoName,    \* a part without a file name
  NoBody, Empty, Garbled,
  NoPayload, \* a message without a MIME tree
  AddressOf, \* AddressOf[h]: the address in the From header h, or h itself
  Failed     \* there is no stimulus: an error

ASSUME BodiesAssumption == Garbled \notin {NoBody, Empty}

\* The root is node 1, and children have greater numbers than their parents.
IsTree(tree) ==
  /\ tree \in Seq(Range(tree)) /\ tree # <<>>
  /\ \A n \in DOMAIN tree :
       /\ tree[n].parts \in Seq(Nat)
       /\ \A i \in DOMAIN tree[n].parts : tree[n].parts[i] \in (n + 1)..Len(tree)

DecodeBody(data) == IF data = NoBody THEN Empty ELSE data

\* findTextParts: the first texts, or an error.
NothingFound == [plain |-> Empty, html |-> Empty, err |-> FALSE]
Unreadable   == [NothingFound EXCEPT !.err = TRUE]
TextFound(type, text) == [NothingFound EXCEPT ![type] = text]

\* What the next child adds: nothing after a plain text or an error.
Merge(found, more) ==
  IF found.err \/ found.plain # Empty THEN found
  ELSE IF more.err THEN Unreadable
  ELSE [more EXCEPT !.html = IF found.html = Empty THEN more.html ELSE found.html]

\* The loop over the children.
FirstFound(results) ==
  LET upto[k \in 0..Len(results)] ==
        IF k = 0 THEN NothingFound ELSE Merge(upto[k - 1], results[k])
  IN  upto[Len(results)]

IsText(part) == part.type \in {"plain", "html"}

\* A part, given what was found in its children.
FoundIn(part, results) ==
  IF part.name = NoName /\ IsText(part)
  THEN IF DecodeBody(part.data) = Garbled THEN Unreadable
       ELSE TextFound(part.type, DecodeBody(part.data))
  ELSE FirstFound(results)

FindTextParts(tree) ==
  LET in[n \in DOMAIN tree] ==
        FoundIn(tree[n], [i \in DOMAIN tree[n].parts |-> in[tree[n].parts[i]]])
  IN  in[1]

\* The CLI's copy: file names are not looked at, a garbled body is empty.
BackfillFoundIn(part, results) ==
  IF IsText(part)
  THEN TextFound(part.type, IF part.data = Garbled THEN Empty ELSE DecodeBody(part.data))
  ELSE FirstFound(results)

FindBackfillTextParts(tree) ==
  LET in[n \in DOMAIN tree] ==
        BackfillFoundIn(tree[n], [i \in DOMAIN tree[n].parts |-> in[tree[n].parts[i]]])
  IN  in[1]

\* A mutant: the HTML if there is one.
ExtractBodyHtml(found) == IF found.html # Empty THEN found.html ELSE found.plain

\* The plain text if there is one, else the first HTML.
ExtractBody(found) == IF found.plain # Empty THEN found.plain ELSE found.html

ExtractAttachments(tree) ==
  LET Own(part) == IF part.name # NoName /\ part.data # NoBody THEN <<part.name>>
                                                               ELSE <<>>
      in[n \in DOMAIN tree] ==
        Own(tree[n]) \o FlattenSeq([i \in DOMAIN tree[n].parts |-> in[tree[n].parts[i]]])
  IN  in[1]

ParseFromAddress(header) == AddressOf[header]

GmailStimulus(mail, text, attachments, backfill) ==
  [source |-> mail.id, channel |-> "gmail", sender |-> ParseFromAddress(mail.from),
   text |-> text, attachments |-> attachments, thread |-> mail.thread,
   occurred |-> mail.day, severity |-> Empty, backfill |-> backfill]

\* buildStimulus of gmailwatcher ...
BuildStimulus(mail) ==
  IF mail.payload = NoPayload \/ FindTextParts(mail.payload).err THEN Failed
  ELSE GmailStimulus(mail, ExtractBody(FindTextParts(mail.payload)),
                     ExtractAttachments(mail.payload), FALSE)

\* ... and of the CLI, which leaves the attachments out.
BuildBackfillStimulus(mail) ==
  IF mail.payload = NoPayload THEN Failed
  ELSE GmailStimulus(mail, ExtractBody(FindBackfillTextParts(mail.payload)),
                     <<>>, TRUE)

-----------------------------------------------------------------------------
(* Reference: the bodies of a tree in the order of a reader *)

\* The body parts, outermost first: those that are no files and lie in none
\* that has a text of its own.
BodiesIn(part, results) ==
  IF part.name = NoName /\ IsText(part) THEN <<part>> ELSE FlattenSeq(results)

Bodies(tree) ==
  LET in[n \in DOMAIN tree] ==
        BodiesIn(tree[n], [i \in DOMAIN tree[n].parts |-> in[tree[n].parts[i]]])
  IN  in[1]

\* The places of those that say something.
Written(bodies, type) ==
  {i \in DOMAIN bodies : bodies[i].type = type /\ bodies[i].data \notin {NoBody, Empty}}

FirstText(bodies, type) ==
  IF Written(bodies, type) = {} THEN Empty ELSE bodies[Min(Written(bodies, type))].data

\* "Preferring the first text/plain part found; if none exists, falls back to
\* the first text/html part" (stimulus.go:115-118), an empty part being none.
BestText(tree) ==
  IF Written(Bodies(tree), "plain") # {} THEN FirstText(Bodies(tree), "plain")
  ELSE FirstText(Bodies(tree), "html")
=============================================================================
