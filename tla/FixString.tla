----------------------------- MODULE FixString ------------------------------
(***************************************************************************)
(* sorm_fix_string of src/sorm.c: doubles the single quotes of a string,   *)
(* from its end to its start, so that the string and the result may share  *)
(* one buffer.  A character is a quote or not; NUL ends a string.  The     *)
(* memory is a function on positions, as C sees it: position 0 is where    *)
(* fixed_string points, and writing position -1 is writing outside it.     *)
(***************************************************************************)
EXTENDS Integers, Sequences, SequencesExt

CONSTANTS
    MaxString, \* bound: length of the strings
    MaxBuffer  \* bound: the parameter len

Chars == {"quote", "other"}

VARIABLES
    string,           \* the argument, as the caller wrote it
    len,              \* the parameter len
    shared,           \* TRUE iff string and fixed_string are the same buffer
    src, dst,         \* what the two pointers point to
    pc, iter, i, fixed_string_len,
    outside           \* positions outside 0 .. len-1 that were written

vars == <<string, len, shared, src, dst, pc, iter, i, fixed_string_len, outside>>

\* The positions the function can reach.
Positions == -1 .. 2 * MaxString

InMemory(s) ==
    [k \in Positions |-> IF k \in 0 .. Len(s) - 1 THEN s[k + 1] ELSE "NUL"]

\* A call on the string s with a buffer of l bytes, which may be the string's
\* own.
Start(s, l, same) ==
    /\ string = s
    /\ len = l
    /\ shared = same
    /\ shared => len > Len(string)
    /\ src = InMemory(string)
    /\ dst = IF shared THEN src ELSE [k \in Positions |-> "NUL"]
    /\ pc = "count"
    /\ iter = 0 /\ i = 0 /\ fixed_string_len = 0
    /\ outside = {}

Init ==
    \E s \in SeqOf(Chars, MaxString), l \in 1 .. MaxBuffer, same \in BOOLEAN :
        Start(s, l, same)

\* Mutant: quotes are not counted.
CountPlain ==
    /\ pc = "count"
    /\ src[iter] # "NUL"
    /\ iter' = iter + 1
    /\ fixed_string_len' = fixed_string_len + 1
    /\ UNCHANGED <<string, len, shared, src, dst, pc, i, outside>>

\* The loop that measures: it moves to the next character before it looks for
\* a quote.
Count ==
    /\ pc = "count"
    /\ src[iter] # "NUL"
    /\ iter' = iter + 1
    /\ fixed_string_len' = fixed_string_len
                           + (IF src[iter + 1] = "quote" THEN 2 ELSE 1)
    /\ UNCHANGED <<string, len, shared, src, dst, pc, i, outside>>

\* Mutant: the terminating NUL is forgotten in the check.
CountedTight ==
    /\ pc = "count"
    /\ src[iter] = "NUL"
    /\ IF fixed_string_len > len
       THEN pc' = "too_long" /\ UNCHANGED i
       ELSE pc' = "copy" /\ i' = fixed_string_len
    /\ UNCHANGED <<string, len, shared, src, dst, iter, fixed_string_len, outside>>

Counted ==
    /\ pc = "count"
    /\ src[iter] = "NUL"
    /\ IF fixed_string_len >= len
       THEN pc' = "too_long" /\ UNCHANGED i
       ELSE pc' = "copy" /\ i' = fixed_string_len
    /\ UNCHANGED <<string, len, shared, src, dst, iter, fixed_string_len, outside>>

\* One round of the loop that copies backwards.
Copy ==
    /\ pc = "copy"
    /\ i >= 0
    /\ LET ch    == src[iter]
           first == IF ch = "quote" THEN i - 1 ELSE i
           new   == [dst EXCEPT ![i] = ch, ![first] = ch]
       IN /\ dst' = new
          /\ src' = IF shared THEN new ELSE src
          /\ i' = first - 1
          /\ outside' = outside \cup ((first .. i) \ (0 .. len - 1))
    /\ iter' = iter - 1
    /\ UNCHANGED <<string, len, shared, pc, fixed_string_len>>

Copied ==
    /\ pc = "copy"
    /\ i < 0
    /\ pc' = "ok"
    /\ UNCHANGED <<string, len, shared, src, dst, iter, i, fixed_string_len, outside>>

Next == Count \/ Counted \/ Copy \/ Copied

Spec == Init /\ [][Next]_vars
-----------------------------------------------------------------------------
\* The string with every quote doubled.
Doubled(s) ==
    FlattenSeq([k \in 1 .. Len(s) |->
                   IF s[k] = "quote" THEN <<"quote", "quote">> ELSE <<s[k]>>])

StartsWithQuote == string # <<>> /\ string[1] = "quote"

\* What src/sorm.h promises of sorm_fix_string.
Fixed ==
    /\ pc = "too_long" => Len(Doubled(string)) >= len
    /\ pc = "ok" => /\ Len(Doubled(string)) < len
                    /\ \A k \in 0 .. Len(Doubled(string)) :
                          dst[k] = InMemory(Doubled(string))[k]
    /\ outside = {}

\* sorm_fix_string returns SORM_TOO_LONG exactly when the doubled string does
\* not fit, else the buffer holds the doubled string, also when source and
\* result share it, and nothing outside the buffer is written: for every string
\* that does not start with a quote.
FixedUnlessLeadingQuote == ~StartsWithQuote => Fixed

\* In a shared buffer the copy never overwrites a character it has still to
\* read: what is left of the source is unchanged.
UnreadKept ==
    pc = "copy" /\ ~StartsWithQuote =>
        \A k \in 0 .. iter : src[k] = InMemory(string)[k]
=============================================================================
