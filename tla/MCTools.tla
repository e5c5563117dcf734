------------------------------ MODULE MCTools ------------------------------
\* Small containers of every kind, short texts and a short clock.
EXTENDS Tools
MCLetters == {"a", " ", ",", "\""}
\* The two questions StandardCodeIsRead and EscapedQuoteIsSkipped are about, alone.
First(question) == subject = "codes" /\ spec = "asked nothing" /\ question
CodeSpec == Init /\ [][First(AskStandardCode)]_vars
QuoteSpec == Init /\ [][First(AskEscaped)]_vars
MCWorks == <<3, 5>>
MCRests == <<0, 2>>
=============================================================================
