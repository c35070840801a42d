------------------------------- MODULE MCRail -------------------------------
\* Rail with small constants.
EXTENDS Rail

\* The words that matter: those of the boxes below the hat.  What is left in
\* other words of boxes that were joined or given back is never read.
LiveWords ==
    <<hat, fre, box, [b \in box |-> <<siz[b], use[b], las[b + siz[b]]>>],
      {<<a, held[a], want[a]>> : a \in {c \in Addr : held[c] > 0}}>>

\* The loop of _rl_free_select, from list i on.
SelectLoop[i \in 1 .. (LastList + 1), s \in 0 .. 4000] ==
    IF i = LastList + 1 THEN LastList
    ELSE IF s < 16 THEN i ELSE SelectLoop[i + 1, (s + 1) \div 2]

\* Select computes what the loop does.
ASSUME SelectIsLoop ==
    \A s \in 5 .. 4000 : Select(s) = IF s = 6 THEN 0 ELSE SelectLoop[1, s]
=============================================================================
