------------------------------- MODULE Outbox -------------------------------
(***************************************************************************)
(* What the editor page promises about one post, as seen from the data     *)
(* directory and the server alone: a draft file, the local copy of what    *)
(* was sent, the texts on their way and the texts the server has taken.    *)
(***************************************************************************)
CONSTANTS
    Texts, Blank,
    Torn        \* what a write that was cut off may leave of a text

Text == Texts \cup {Blank}

VARIABLES draft, sent, posting, accepted

vars == <<draft, sent, posting, accepted>>

Init ==
    /\ draft \in Text /\ sent = Blank
    /\ posting = {} /\ accepted = {}

(* The draft file is written or removed; nothing else is touched.          *)
Write(text) ==
    /\ draft' = text
    /\ UNCHANGED <<sent, posting, accepted>>

Post(text) ==
    /\ posting' = posting \cup {text}
    /\ UNCHANGED <<draft, sent, accepted>>

(* A text on its way is taken or refused; another copy of it may follow.   *)
Settle(text) ==
    /\ text \in posting
    /\ posting' \in {posting, posting \ {text}}
    /\ accepted' \in {accepted, accepted \cup {text}}
    /\ UNCHANGED <<draft, sent>>

(* A text the server has taken replaces the draft; storing it may fail, and*)
(* then an earlier copy is kept or torn.                                   *)
File(text) ==
    /\ text \in accepted
    /\ draft' = Blank
    /\ sent' \in {sent, text} \cup Torn[text]
    /\ UNCHANGED <<posting, accepted>>

Next == \E text \in Text : Write(text) \/ Post(text) \/ Settle(text) \/ File(text)

Spec == Init /\ [][Next]_vars
=============================================================================
