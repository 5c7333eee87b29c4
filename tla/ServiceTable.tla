---------------------------- MODULE ServiceTable ----------------------------
(***************************************************************************)
(* The service table of an agent (src/utils/nodes/ServiceTable.cc): a      *)
(* sequence of services, each with the numbers of the children that offer  *)
(* it and their count nb_children, a CORBA::ULong of ULongSize values.     *)
(* The operators take a table and return the table the method leaves.      *)
(* SRVT_ERROR only prints a warning: the methods go on after it.           *)
(***************************************************************************)
EXTENDS Integers, SequencesExt

CONSTANTS ULongSize   \* 2^32 in the program

ASSUME ULongAssumption == ULongSize \in Nat \ {0}

lookupService(T, s) ==
  LET at == {i \in DOMAIN T : T[i].profile = s}
  IN  IF at = {} THEN 0 ELSE Min(at)

\* addService() refuses (-2) a service known with another aggregator.
Mismatch(T, s, agg) ==
  LET ref == lookupService(T, s) IN ref # 0 /\ T[ref].aggregator # agg

addService(T, s, agg, id) ==
  LET ref == lookupService(T, s)
  IN  IF ref = 0
        THEN Append(T, [profile |-> s, aggregator |-> agg,
                        children |-> <<id>>, nb_children |-> 1])
      ELSE IF Contains(T[ref].children, id) THEN T
      ELSE [T EXCEPT ![ref].children = Append(@, id),
                     ![ref].nb_children = @ + 1]

\* An array that loses what is at i: the rest moves down by one place.
Shifted(s, i) == [j \in 1 .. Len(s) - 1 |-> IF j < i THEN s[j] ELSE s[j + 1]]

rmService(T, ref) == Shifted(T, ref)

\* The loop that looks for a child stops behind the last one when it is not
\* listed; the method then removes the service or drops the last child all the
\* same.
Place(s, id) == Min({i \in 1 .. Len(s) : s[i] = id} \cup {Len(s) + 1})
Without(s, id) == Shifted(s, Place(s, id))

\* Mutant: the array is not shifted, so the last child goes.
rmChildService_Unshifted(T, s, id) ==
  LET ref == lookupService(T, s)
  IN  IF ref = 0 THEN T
      ELSE IF T[ref].nb_children <= 1 THEN rmService(T, ref)
      ELSE [T EXCEPT ![ref].children = Shifted(@, Len(@)),
                     ![ref].nb_children = @ - 1]

\* With no service of that profile the method reads matching_children[-1]; a
\* table that survives that is unchanged.
rmChildService(T, s, id) ==
  LET ref == lookupService(T, s)
  IN  IF ref = 0 THEN T
      ELSE IF T[ref].nb_children = 1 THEN rmService(T, ref)
      ELSE [T EXCEPT ![ref].children = Without(@, id),
                     ![ref].nb_children = (@ - 1) % ULongSize]

\* The loop of childUnsubscribe() over the services ss of a child.
rmChildServices(T, ss, id) ==
  LET tab[n \in 0 .. Len(ss)] ==
        IF n = 0 THEN T ELSE rmChildService(tab[n - 1], ss[n], id)
  IN  tab[Len(ss)]

\* The child leaves every service; a service may stay with no child.
rmChild(T, id) ==
  [i \in DOMAIN T |->
     IF Contains(T[i].children, id)
       THEN [T[i] EXCEPT !.children = Without(@, id), !.nb_children = @ - 1]
       ELSE T[i]]

Lists(T, s, id) ==
  LET ref == lookupService(T, s) IN ref # 0 /\ Contains(T[ref].children, id)

\* The count has wrapped around: a loop over the children leaves the array.
Overruns(T, ref) == ref # 0 /\ T[ref].nb_children > Len(T[ref].children)
=============================================================================
