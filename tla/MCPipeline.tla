------------------------------ MODULE MCPipeline ------------------------------
(* Pipeline on small instances: five scenarios of one or two sources.      *)
EXTENDS Pipeline

CONSTANTS m1, m2, p1, p2, a1, a2,   \* what comes in
          school, friend,           \* addresses
          txt,                      \* a file name
          plain, html, log,         \* texts
          thread

MCAddressOf == [h \in {school, friend} |-> h]
MCTrailing == [t \in {plain, html, log} |-> IF t = log THEN 3 ELSE 1]

\* An answer lists a date that is over and one to come.
MCExtractions == {<<1, 3>>}

Part(name, type, data) == [name |-> name, type |-> type, data |-> data, parts |-> <<>>]
Multipart(nodes) == [name |-> NoName, type |-> "multipart", data |-> NoBody, parts |-> nodes]

\* A text file before the text, which has an HTML alternative.
SchoolMail ==
  [id |-> m1, from |-> school, thread |-> thread, day |-> 1,
   payload |-> <<Multipart(<<2, 3>>), Part(txt, "plain", log),
                 Multipart(<<4, 5>>), Part(NoName, "html", html),
                 Part(NoName, "plain", plain)>>]

\* An empty text before the HTML, and a picture without a body.
FriendMail ==
  [id |-> m1, from |-> friend, thread |-> thread, day |-> 2,
   payload |-> <<Multipart(<<2, 3, 4>>), Part(NoName, "plain", Empty),
                 Part(NoName, "html", html), Part(txt, "other", NoBody)>>]

BrokenMail ==
  [FriendMail EXCEPT !.id = m2, !.payload = <<Multipart(<<2>>), Part(NoName, "html", Garbled)>>]

Post(id, mode, priority) == [id |-> id, text |-> plain, mode |-> mode, priority |-> priority]

AlertOf(id, channel, severity, day) ==
  [source |-> id, channel |-> channel, sender |-> channel, text |-> log,
   attachments |-> <<>>, thread |-> Empty, occurred |-> day, severity |-> severity,
   backfill |-> FALSE]

MCScenarios ==
  { [mails |-> m1 :> SchoolMail, posts |-> {}, alerts |-> {}],
    [mails |-> m1 :> FriendMail @@ m2 :> BrokenMail,
     posts |-> {Post(p1, "loud", Empty)}, alerts |-> {}],
    [mails |-> <<>>, posts |-> {Post(p1, "note", "high")},
     alerts |-> {AlertOf(a1, "system-monitor", "warning", 2)}],
    [mails |-> <<>>, posts |-> {Post(p2, Empty, Empty)},
     alerts |-> {AlertOf(a1, "log-error", Empty, NoDay)}],
    [mails |-> <<>>, posts |-> {},
     alerts |-> {AlertOf(a1, "log-error", Empty, NoDay),
                 AlertOf(a2, "system-monitor", "ok", 2)}] }
=============================================================================
