------------------------------- MODULE MCLaunch -------------------------------
EXTENDS Launch, TLC

CONSTANTS bin, long, cut, gone, here

MCCut == long :> cut

\* One name for all that is gone; what is added to a long path makes it longer.
MCDeleted == [p \in Paths |-> IF p \in Long THEN p ELSE gone]

MCAt == [n \in Names |-> here]

Word(w) == [kind |-> "word", name |-> w]
Option(o) == [kind |-> "option", name |-> o]

\* affc prog.c --include a.h b.h -isystem d --exclude c.h, with a list that takes
\* the file to compile, an option that lacks its argument, one that is given
\* twice and one that is the beginning of two.
MCCommandLines ==
  {<<Word("prog.c"), Option("include"), Word("a.h"), Word("b.h"), Option("-isystem"), Word("d"),
     Option("exclude"), Word("c.h")>>,
   <<Option("include-hidden"), Word("prog.c"), Option("include"), Word("a.h"), Option("-isystem")>>,
   <<Option("include"), Word("prog.c")>>,
   <<Option("quiet"), Word("prog.c"), Option("include"), Option("exclude"), Word("c.h")>>,
   <<Option("include-hidden"), Word("prog.c"), Option("include-hidden")>>,
   <<Word("prog.c"), [kind |-> "ambiguous", name |-> "inc"]>>}
===============================================================================
