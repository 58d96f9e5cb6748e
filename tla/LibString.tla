----------------------------- MODULE LibString ------------------------------
(***************************************************************************)
(* lib/string.c over a memory m, a sequence of bytes; an address is an      *)
(* index of m and 0 is the null pointer.  A string is the bytes from an     *)
(* address up to the first null byte.  Each loop of the C code goes one     *)
(* byte at a time, so that overlapping ranges behave as they do there.      *)
(***************************************************************************)
EXTENDS Integers, Sequences, FiniteSets, FiniteSetsExt

Nul == 0
NoPtr == 0

RECURSIVE memcpy(_, _, _, _)
memcpy(m, dst, src, size) ==
    IF size = 0 THEN m
    ELSE memcpy([m EXCEPT ![dst] = m[src]], dst + 1, src + 1, size - 1)

\* The loop from the last byte to the first.
RECURSIVE CopyDown(_, _, _, _)
CopyDown(m, dst, src, size) ==
    IF size = 0 THEN m
    ELSE CopyDown([m EXCEPT ![dst + size - 1] = m[src + size - 1]], dst, src, size - 1)

\* A mutant: the direction of the copy is chosen the wrong way.
memmove_up(m, dst, src, size) ==
    IF dst <= src + size THEN [m |-> memcpy(m, dst, src, size), ret |-> dst + size]
    ELSE [m |-> CopyDown(m, dst, src, size), ret |-> dst]

\* The result is where the pointer that was moved along ends up.
memmove(m, dst, src, size) ==
    IF dst < src THEN [m |-> memcpy(m, dst, src, size), ret |-> dst + size]
    ELSE [m |-> CopyDown(m, dst, src, size), ret |-> dst]

RECURSIVE memcmp(_, _, _, _)
memcmp(m, a, b, size) ==
    IF size = 0 THEN 0
    ELSE IF m[a] # m[b] THEN (IF m[a] > m[b] THEN 1 ELSE -1)
    ELSE memcmp(m, a + 1, b + 1, size - 1)

RECURSIVE strcmp(_, _, _)
strcmp(m, a, b) ==
    IF m[a] # Nul /\ m[a] = m[b] THEN strcmp(m, a + 1, b + 1)
    ELSE IF m[a] < m[b] THEN -1 ELSE IF m[a] > m[b] THEN 1 ELSE 0

RECURSIVE memchr(_, _, _, _)
memchr(m, block, ch, size) ==
    IF size = 0 THEN NoPtr
    ELSE IF m[block] = ch THEN block
    ELSE memchr(m, block + 1, ch, size - 1)

RECURSIVE strchr(_, _, _)
strchr(m, s, c) ==
    IF m[s] = c THEN s ELSE IF m[s] = Nul THEN NoPtr ELSE strchr(m, s + 1, c)

RECURSIVE strlen(_, _)
strlen(m, s) == IF m[s] = Nul THEN 0 ELSE 1 + strlen(m, s + 1)

RECURSIVE strnlen(_, _, _)
strnlen(m, s, max) == IF m[s] # Nul /\ max > 0 THEN 1 + strnlen(m, s + 1, max - 1) ELSE 0

RECURSIVE strcspn(_, _, _)
strcspn(m, s, stop) ==
    IF m[s] = Nul \/ strchr(m, stop, m[s]) # NoPtr THEN 0 ELSE 1 + strcspn(m, s + 1, stop)

RECURSIVE strspn(_, _, _)
strspn(m, s, skip) ==
    IF m[s] = Nul \/ strchr(m, skip, m[s]) = NoPtr THEN 0 ELSE 1 + strspn(m, s + 1, skip)

RECURSIVE strpbrk(_, _, _)
strpbrk(m, s, stop) ==
    IF m[s] = Nul THEN NoPtr
    ELSE IF strchr(m, stop, m[s]) # NoPtr THEN s ELSE strpbrk(m, s + 1, stop)

RECURSIVE LastFound(_, _, _, _)
LastFound(m, s, c, p) ==
    IF m[s] = Nul THEN p ELSE LastFound(m, s + 1, c, IF m[s] = c THEN s ELSE p)

strrchr(m, s, c) == LastFound(m, s, c, NoPtr)

strstr(m, haystack, needle) ==
    LET hl == strlen(m, haystack)
        nl == strlen(m, needle)
        hits == {i \in 0..(hl - nl) : memcmp(m, haystack + i, needle, nl) = 0}
    IN  IF hl >= nl /\ hits # {} THEN haystack + Min(hits) ELSE NoPtr

\* The two skipping loops of strtok_r.
RECURSIVE SkipDelimiters(_, _, _)
SkipDelimiters(m, d, s) ==
    IF m[s] # Nul /\ strchr(m, d, m[s]) # NoPtr THEN SkipDelimiters(m, d, s + 1) ELSE s

RECURSIVE SkipToken(_, _, _)
SkipToken(m, d, s) == IF strchr(m, d, m[s]) = NoPtr THEN SkipToken(m, d, s + 1) ELSE s

\* The call's [m, token, save], from the position S or the saved one.
strtok_r(m, s, d) ==
    LET token == SkipDelimiters(m, d, s)
        end == SkipToken(m, d, token)
    IN  IF m[token] = Nul THEN [m |-> m, token |-> NoPtr, save |-> token]
        ELSE IF m[end] # Nul
        THEN [m |-> [m EXCEPT ![end] = Nul], token |-> token, save |-> end + 1]
        ELSE [m |-> m, token |-> token, save |-> end]

\* for (token = strtok_r (s, d, &save); token != NULL; token = strtok_r (NULL, ...)):
\* the tokens as addresses, and the memory at the end.
RECURSIVE Tokens(_, _, _)
Tokens(m, s, d) ==
    LET r == strtok_r(m, s, d)
        rest == Tokens(r.m, r.save, d)
    IN  IF r.token = NoPtr THEN [m |-> r.m, tokens |-> <<>>]
        ELSE [m |-> rest.m, tokens |-> <<r.token>> \o rest.tokens]

RECURSIVE memset(_, _, _, _)
memset(m, dst, value, size) ==
    IF size = 0 THEN m ELSE memset([m EXCEPT ![dst] = value], dst + 1, value, size - 1)

strlcpy(m, dst, src, size) ==
    LET src_len == strlen(m, src)
        n == Min({size - 1, src_len})
    IN  [m |-> IF size > 0 THEN [memcpy(m, dst, src, n) EXCEPT ![dst + n] = Nul] ELSE m,
         ret |-> src_len]

strlcat(m, dst, src, size) ==
    LET src_len == strlen(m, src)
        dst_len == strlen(m, dst)
        n == Min({size - dst_len - 1, src_len})
    IN  [m |-> IF size > 0 /\ dst_len < size
               THEN [memcpy(m, dst + dst_len, src, n) EXCEPT ![dst + dst_len + n] = Nul]
               ELSE m,
         ret |-> src_len + dst_len]
-----------------------------------------------------------------------------
(* Reference definitions. *)

\* The string at S, as a sequence.
StrLen(m, s) == Min({i \in 0..(Len(m) - s) : m[s + i] = Nul})
Str(m, s) == SubSeq(m, s, s + StrLen(m, s) - 1)

\* Lexicographic order on sequences of bytes.
Before(x, y) ==
    \E i \in 1..(Len(x) + 1) :
        /\ \A j \in 1..(i - 1) : j <= Len(y) /\ x[j] = y[j]
        /\ i <= Len(y) /\ (i > Len(x) \/ x[i] < y[i])

\* The start of every maximal run of bytes outside D in the string at S.
TokenStarts(m, s, d) ==
    {p \in s..(s + StrLen(m, s) - 1) :
        m[p] \notin d /\ (p = s \/ m[p - 1] \in d)}
-----------------------------------------------------------------------------
Bytes(m, p, n) == SubSeq(m, p, p + n - 1)

\* What string.c promises of its copying functions on memory M: memmove copies
\* the bytes the source held before the call, overlapping or not, strlcpy and
\* strlcat leave a terminated prefix, and none writes outside its destination.
\* memmove "Returns DST" only when it copies downwards; upwards it returns the end of
\* the destination, which no caller in the kernel looks at.
CopiesRight(m) ==
    \A dst, src \in DOMAIN m : \A n \in 0..(Len(m) - Max({dst, src})) :
        /\ memmove(m, dst, src, n).m =
              [i \in DOMAIN m |-> IF i \in dst..(dst + n - 1) THEN m[src + i - dst] ELSE m[i]]
        /\ memmove(m, dst, src, n).ret = IF dst >= src THEN dst ELSE dst + n
        /\ memset(m, dst, 1, n) = [i \in DOMAIN m |-> IF i \in dst..(dst + n - 1) THEN 1 ELSE m[i]]
        /\ LET c == strlcpy(m, dst, src, n)
           IN  (src + StrLen(m, src) < dst \/ dst + n <= src) =>
               /\ c.ret = StrLen(m, src)
               /\ \A i \in DOMAIN m \ (dst..(dst + n - 1)) : c.m[i] = m[i]
               /\ n > 0 => Str(c.m, dst) = Bytes(m, src, Min({n - 1, c.ret}))
        /\ LET c == strlcat(m, dst, src, n)
               l == StrLen(m, dst)
           IN  (src + StrLen(m, src) < dst \/ dst + Max({n, l + 1}) <= src) =>
               /\ c.ret = l + StrLen(m, src)
               /\ \A i \in DOMAIN m \ (dst..(dst + n - 1)) : c.m[i] = m[i]
               /\ l < n => Str(c.m, dst) = Str(m, dst) \o Bytes(m, src, Min({n - 1 - l, c.ret - l}))

\* What string.c promises of its searches and comparisons: the order is the
\* lexicographic one, each search returns the first (strrchr the last) match.
SearchesRight(m) ==
    \A a, b \in DOMAIN m :
        LET x == Str(m, a)
            y == Str(m, b)
            at == {i \in 0..Len(x) : i + Len(y) <= Len(x) /\ SubSeq(x, i + 1, i + Len(y)) = y}
            in == {i \in 1..Len(x) : \E j \in 1..Len(y) : y[j] = x[i]}
            out == (1..Len(x)) \ in
            First(S, none) == IF S = {} THEN none ELSE Min(S)
        IN  /\ strcmp(m, a, b) = IF x = y THEN 0 ELSE IF Before(x, y) THEN -1 ELSE 1
            /\ strstr(m, a, b) = IF at = {} THEN NoPtr ELSE a + Min(at)
            /\ strcspn(m, a, b) = First(in, Len(x) + 1) - 1
            /\ strspn(m, a, b) = First(out, Len(x) + 1) - 1
            /\ strpbrk(m, a, b) = IF in = {} THEN NoPtr ELSE a + Min(in) - 1
            /\ \A c \in {1, 2} :
                   LET eq == {i \in a..(a + Len(x) - 1) : m[i] = c}
                   IN  /\ strchr(m, a, c) = First(eq, NoPtr)
                       /\ strrchr(m, a, c) = IF eq = {} THEN NoPtr ELSE Max(eq)
                       /\ memchr(m, a, c, Len(x)) = First(eq, NoPtr)
            /\ \A n \in 0..Len(m) : strnlen(m, a, n) = Min({n, Len(x)})

\* What strtok_r promises: on a string that does not hold its delimiters, the
\* loop returns the start of every maximal run of other bytes, in order, each
\* terminated where the run ends.
TokensRight(m) ==
    \A s, d \in DOMAIN m :
        LET del == {m[i] : i \in d..(d + StrLen(m, d) - 1)}
            r == Tokens(m, s, d)
            starts == TokenStarts(m, s, del)
        IN  s + StrLen(m, s) < d =>
            /\ {r.tokens[i] : i \in 1..Len(r.tokens)} = starts
            /\ \A i \in 1..(Len(r.tokens) - 1) : r.tokens[i] < r.tokens[i + 1]
            /\ \A p \in starts :
                   StrLen(r.m, p) = Min({q \in p..(s + StrLen(m, s)) :
                                           m[q] \in del \cup {Nul}}) - p
=============================================================================
