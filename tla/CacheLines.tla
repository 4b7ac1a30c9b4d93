----------------------------- MODULE CacheLines -----------------------------
(* What a set-associative cache array promises its controller: it holds at *)
(* most Assoc lines of each set, a line stays until it is freed, a lock    *)
(* lasts as long as the line, and the line it offers for replacement is    *)
(* not one of those used last.  Ways, tags and replacement bits are hidden *)
(* (CacheMemory refines this module).                                      *)
EXTENDS Naturals, FiniteSets, Sequences, SequencesExt

CONSTANTS Addrs, Sets, SetOf, Contexts, Free,
          Assoc,     \* lines per set
          Span       \* uses of other lines that a used line survives

VARIABLES lines,     \* the lines that are present
          lock,      \* the context that has locked a line, or Free
          used,      \* per set, the lines used last, newest first
          offer      \* per set, the line to replace: empty while there is room

vars == <<lines, lock, used, offer>>

InSet(s, ls) == {a \in ls : SetOf[a] = s}
Full(s, ls)  == Cardinality(InSet(s, ls)) = Assoc
NewestFirst(seq, a) ==
  SubSeq(<<a>> \o RemoveFirst(seq, a), 1, Min({Len(RemoveFirst(seq, a)) + 1, Span}))

Init ==
  /\ lines = {} /\ lock = [a \in Addrs |-> Free]
  /\ used = [s \in Sets |-> <<>>] /\ offer = [s \in Sets |-> {}]

(* The array offers one line of every full set, never a recently used one. *)
Offers ==
  offer' \in [Sets -> SUBSET Addrs]
    /\ \A s \in Sets :
         IF Full(s, lines')
         THEN /\ Cardinality(offer'[s]) = 1
              /\ offer'[s] \subseteq InSet(s, lines') \ ToSet(used'[s])
         ELSE offer'[s] = {}

Use(a) == used' = [used EXCEPT ![SetOf[a]] = NewestFirst(@, a)]

Fill(a) ==
  /\ a \notin lines /\ ~Full(SetOf[a], lines)
  /\ lines' = lines \cup {a} /\ Use(a)
  /\ lock' = [lock EXCEPT ![a] = Free]

Drop(a) ==
  /\ a \in lines
  /\ lines' = lines \ {a}
  /\ lock' = [lock EXCEPT ![a] = Free]
  /\ used' = [used EXCEPT ![SetOf[a]] = RemoveFirst(@, a)]

Touch(a) == a \in lines /\ Use(a) /\ UNCHANGED <<lines, lock>>

Lock(a, c) == a \in lines /\ lock' = [lock EXCEPT ![a] = c] /\ UNCHANGED <<lines, used>>

Release(c) ==
  /\ lock' = [a \in Addrs |-> IF lock[a] = c THEN Free ELSE lock[a]]
  /\ UNCHANGED <<lines, used>>

Next ==
  /\ \/ \E a \in Addrs : Fill(a) \/ Drop(a) \/ Touch(a)
     \/ \E a \in Addrs, c \in Contexts \cup {Free} : Lock(a, c)
     \/ \E c \in Contexts : Release(c)
  /\ Offers

Spec == Init /\ [][Next]_vars
=============================================================================
