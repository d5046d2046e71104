----------------------------- MODULE BillingProofs -----------------------------
(***************************************************************************)
(* Theorems about Billing: the numbers of the documents, what is paid and  *)
(* credited, the customer entries, the credit limit and the locked period. *)
(*                                                                         *)
(* BillingInv is about the numbers and each invoice by itself; LedgerInv   *)
(* adds that no entry bears a number not yet given, without which a new    *)
(* invoice could find entries of its number already there.  What is owed   *)
(* and what is entered are sums over the whole list, of which a step adds  *)
(* or changes one term.                                                    *)
(*                                                                         *)
(* The readiness controls issue an invoice, pay it and credit it in one    *)
(* step; so the lemmas on numbers, on invoices and on entries are about    *)
(* values, and are used several times for that step.                       *)
(***************************************************************************)
EXTENDS Billing, Sums, SequenceTheorems, TLAPS

-----------------------------------------------------------------------------
\* Numbers: of the invoices, in ns, of the credit notes, in cs, and of all that is
\* not an invoice, in es, given by the counters.

Within(ns, counts) == \A i \in DOMAIN ns : ns[i].n <= counts[ns[i].prefix]
Below(es, counts) == \A x \in es : x.n <= counts[x.prefix]

Distinct(ns) == \A i, j \in DOMAIN ns : ns[i] = ns[j] => i = j

Continuous(ns, es, counts) ==
    \A i \in DOMAIN ns :
       \A k \in ns[i].n..counts[ns[i].prefix] :
          \/ [prefix |-> ns[i].prefix, n |-> k] \in es
          \/ \E j \in DOMAIN ns : ns[j] = [prefix |-> ns[i].prefix, n |-> k]

Numbered(ns, cs, es, counts) ==
    /\ ns \in Seq(Numbers) /\ cs \in Seq(Numbers) /\ es \in SUBSET Numbers
    /\ counts \in [Prefixes -> Nat]
    /\ Within(ns, counts) /\ Below(es, counts)
    /\ Distinct(ns) /\ Distinct(cs)
    /\ \A j \in DOMAIN cs : cs[j] \in es
    /\ \A i \in DOMAIN ns : ns[i] \notin es
    /\ Continuous(ns, es, counts)

\* The next number of a series is above every number of the series.
LEMMA NextNumber ==
    ASSUME NEW counts \in [Prefixes -> Nat], NEW p \in Prefixes
    PROVE  /\ Bump(counts, p) \in [Prefixes -> Nat]
           /\ Bump(counts, p)[p] = counts[p] + 1
           /\ \A q \in Prefixes : q # p => Bump(counts, p)[q] = counts[q]
           /\ Number(Bump(counts, p), p) \in Numbers
           /\ Number(Bump(counts, p), p).prefix = p
           /\ Number(Bump(counts, p), p).n = counts[p] + 1
<1>1. /\ Bump(counts, p) \in [Prefixes -> Nat]
      /\ Bump(counts, p)[p] = counts[p] + 1
      /\ \A q \in Prefixes : q # p => Bump(counts, p)[q] = counts[q]
  BY DEF Bump
<1>. QED
  BY <1>1 DEF Number, Numbers

\* A number already given stays within the counters and is not given again.
LEMMA StillBelow ==
    ASSUME NEW x \in Numbers, NEW counts \in [Prefixes -> Nat], NEW p \in Prefixes,
           x.n <= counts[x.prefix]
    PROVE  x.n <= Bump(counts, p)[x.prefix] /\ x # Number(Bump(counts, p), p)
<1>1. x.n \in Nat /\ x.prefix \in Prefixes
  BY DEF Numbers
<1>2. counts[p] \in Nat /\ counts[x.prefix] \in Nat
  BY <1>1
<1>3. /\ Bump(counts, p)[x.prefix] =
            (IF x.prefix = p THEN counts[p] + 1 ELSE counts[x.prefix])
      /\ Number(Bump(counts, p), p).prefix = p
      /\ Number(Bump(counts, p), p).n = counts[p] + 1
  BY <1>1, NextNumber
<1>4. x.n <= Bump(counts, p)[x.prefix]
  BY <1>1, <1>2, <1>3
<1>5. CASE x.prefix = p
  <2>1. x.n # counts[p] + 1
    BY <1>1, <1>2, <1>5
  <2>. QED
    BY <1>3, <1>4, <2>1
<1>6. CASE x.prefix # p
  BY <1>3, <1>4, <1>6
<1>. QED
  BY <1>5, <1>6

LEMMA StillWithin ==
    ASSUME NEW ns \in Seq(Numbers), NEW counts \in [Prefixes -> Nat], NEW p \in Prefixes,
           Within(ns, counts)
    PROVE  /\ Within(ns, Bump(counts, p))
           /\ \A i \in DOMAIN ns : ns[i] # Number(Bump(counts, p), p)
<1>1. \A i \in DOMAIN ns : ns[i] \in Numbers
  OBVIOUS
<1>. QED
  BY <1>1, StillBelow DEF Within

LEMMA AppendedNumber ==
    ASSUME NEW ns \in Seq(Numbers), NEW x \in Numbers
    PROVE  /\ Append(ns, x) \in Seq(Numbers)
           /\ DOMAIN Append(ns, x) = DOMAIN ns \cup {Len(ns) + 1}
           /\ Append(ns, x)[Len(ns) + 1] = x
           /\ \A i \in DOMAIN ns : Append(ns, x)[i] = ns[i]
OBVIOUS

LEMMA IssueNumber ==
    ASSUME NEW ns, NEW cs, NEW es, NEW counts, Numbered(ns, cs, es, counts), NEW p \in Prefixes
    PROVE  Numbered(Append(ns, Number(Bump(counts, p), p)), cs, es, Bump(counts, p))
<1>. USE DEF Numbered
<1>. DEFINE x == Number(Bump(counts, p), p)
<1>. DEFINE all == Append(ns, x)
<1>. DEFINE after == Bump(counts, p)
<1>0. counts[p] \in Nat
  OBVIOUS
<1>1. /\ after \in [Prefixes -> Nat] /\ after[p] = counts[p] + 1
      /\ \A q \in Prefixes : q # p => after[q] = counts[q]
      /\ x \in Numbers /\ x.prefix = p /\ x.n = counts[p] + 1
  BY NextNumber
<1>2. /\ Within(ns, after) /\ Below(es, after)
      /\ \A i \in DOMAIN ns : ns[i] # x
      /\ x \notin es
  <2>1. Within(ns, after) /\ \A i \in DOMAIN ns : ns[i] # x
    BY StillWithin
  <2>2. ASSUME NEW y \in es
        PROVE  y.n <= after[y.prefix] /\ y # x
    BY StillBelow DEF Below
  <2>. HIDE DEF x, after
  <2>. QED
    BY <2>1, <2>2 DEF Below
<1>. HIDE DEF x, after
<1>3. /\ all \in Seq(Numbers) /\ DOMAIN all = DOMAIN ns \cup {Len(ns) + 1}
      /\ all[Len(ns) + 1] = x
      /\ \A i \in DOMAIN ns : all[i] = ns[i]
  BY <1>1, AppendedNumber
<1>. HIDE DEF all
<1>4. Within(all, after)
  BY <1>0, <1>1, <1>2, <1>3 DEF Within
<1>5. Distinct(all)
  BY <1>2, <1>3 DEF Distinct
<1>6. \A i \in DOMAIN all : all[i] \notin es
  BY <1>2, <1>3
<1>7. Continuous(all, es, after)
  <2>. SUFFICES ASSUME NEW i \in DOMAIN all, NEW k \in all[i].n..after[all[i].prefix]
                PROVE  \/ [prefix |-> all[i].prefix, n |-> k] \in es
                       \/ \E j \in DOMAIN all : all[j] = [prefix |-> all[i].prefix, n |-> k]
    BY DEF Continuous
  <2>1. all[i] \in Numbers
    BY <1>3
  <2>2. all[i].n \in Nat /\ all[i].prefix \in Prefixes /\ after[all[i].prefix] \in Nat /\ k \in Nat
    BY <1>1, <2>1 DEF Numbers
  <2>3. CASE all[i].prefix = p /\ k = counts[p] + 1
    <3>1. x = [prefix |-> p, n |-> k]
      BY <1>1, <2>3 DEF Numbers
    <3>. QED
      BY <1>3, <2>3, <3>1
  <2>4. CASE k <= counts[all[i].prefix] /\ i \in DOMAIN ns
    <3>1. k \in ns[i].n..counts[ns[i].prefix] /\ all[i] = ns[i]
      BY <1>3, <2>2, <2>4
    <3>2. \/ [prefix |-> ns[i].prefix, n |-> k] \in es
          \/ \E j \in DOMAIN ns : ns[j] = [prefix |-> ns[i].prefix, n |-> k]
      BY <2>4, <3>1 DEF Continuous
    <3>. QED
      BY <1>3, <3>1, <3>2
  <2>5. k <= counts[all[i].prefix] \/ (all[i].prefix = p /\ k = counts[p] + 1)
    BY <1>0, <1>1, <2>2
  <2>6. i \in DOMAIN ns \/ (all[i].prefix = p /\ k = counts[p] + 1)
    BY <1>0, <1>1, <1>3, <2>2
  <2>. QED
    BY <2>3, <2>4, <2>5, <2>6
<1>. QED
  BY <1>1, <1>2, <1>3, <1>4, <1>5, <1>6, <1>7 DEF all, x, after

\* A number that goes elsewhere, to a credit note or not.
LEMMA OtherNumber ==
    ASSUME NEW ns, NEW cs, NEW es, NEW counts, Numbered(ns, cs, es, counts), NEW p \in Prefixes
    PROVE  LET x == Number(Bump(counts, p), p) IN
           /\ Numbered(ns, Append(cs, x), es \cup {x}, Bump(counts, p))
           /\ Numbered(ns, cs, es \cup {x}, Bump(counts, p))
<1>. USE DEF Numbered
<1>. DEFINE x == Number(Bump(counts, p), p)
<1>. DEFINE all == Append(cs, x)
<1>. DEFINE after == Bump(counts, p)
<1>. DEFINE more == es \cup {x}
<1>0. counts[p] \in Nat
  OBVIOUS
<1>1. /\ after \in [Prefixes -> Nat]
      /\ \A q \in Prefixes : q # p => after[q] = counts[q]
      /\ after[p] = counts[p] + 1
      /\ x \in Numbers /\ x.prefix = p /\ x.n = counts[p] + 1
  BY NextNumber
<1>2. /\ Within(ns, after) /\ Below(es, after)
      /\ \A i \in DOMAIN ns : ns[i] # x
      /\ x \notin es
  <2>1. Within(ns, after) /\ \A i \in DOMAIN ns : ns[i] # x
    BY StillWithin
  <2>2. ASSUME NEW y \in es
        PROVE  y.n <= after[y.prefix] /\ y # x
    BY StillBelow DEF Below
  <2>. HIDE DEF x, after
  <2>. QED
    BY <2>1, <2>2 DEF Below
<1>. HIDE DEF x, after
<1>3. /\ all \in Seq(Numbers) /\ DOMAIN all = DOMAIN cs \cup {Len(cs) + 1}
      /\ all[Len(cs) + 1] = x
      /\ \A i \in DOMAIN cs : all[i] = cs[i]
  BY <1>1, AppendedNumber
<1>. HIDE DEF all
<1>4. more \in SUBSET Numbers /\ Below(more, after)
  BY <1>1, <1>2 DEF Below
<1>5. Distinct(all)
  <2>1. \A i \in DOMAIN cs : cs[i] # x
    BY <1>2
  <2>. QED
    BY <1>3, <2>1 DEF Distinct
<1>6. /\ \A j \in DOMAIN all : all[j] \in more
      /\ \A j \in DOMAIN cs : cs[j] \in more
      /\ \A i \in DOMAIN ns : ns[i] \notin more
  BY <1>2, <1>3
<1>7. Continuous(ns, more, after)
  <2>. SUFFICES ASSUME NEW i \in DOMAIN ns, NEW k \in ns[i].n..after[ns[i].prefix]
                PROVE  \/ [prefix |-> ns[i].prefix, n |-> k] \in more
                       \/ \E j \in DOMAIN ns : ns[j] = [prefix |-> ns[i].prefix, n |-> k]
    BY DEF Continuous
  <2>1. ns[i] \in Numbers
    OBVIOUS
  <2>2. ns[i].n \in Nat /\ ns[i].prefix \in Prefixes /\ after[ns[i].prefix] \in Nat /\ k \in Nat
        /\ counts[ns[i].prefix] \in Nat
    BY <1>1, <2>1 DEF Numbers
  <2>3. CASE ns[i].prefix = p /\ k = counts[p] + 1
    <3>1. x = [prefix |-> p, n |-> k]
      BY <1>1, <2>3 DEF Numbers
    <3>. QED
      BY <2>3, <3>1
  <2>4. CASE k <= counts[ns[i].prefix]
    <3>1. k \in ns[i].n..counts[ns[i].prefix]
      BY <2>2, <2>4
    <3>. QED
      BY <3>1 DEF Continuous
  <2>5. k <= counts[ns[i].prefix] \/ (ns[i].prefix = p /\ k = counts[p] + 1)
    BY <1>0, <1>1, <2>2
  <2>. QED
    BY <2>3, <2>4, <2>5
<1>. QED
  BY <1>1, <1>2, <1>3, <1>4, <1>5, <1>6, <1>7 DEF all, x, after

-----------------------------------------------------------------------------
\* The customer entries of an invoice number, added up over the whole journal.

EffectOn(js, n) == [e \in DOMAIN js |-> IF js[e].invoice = n THEN js[e].effect ELSE 0]
Ledger(js, n) == SumFunction(EffectOn(js, n))
Reversed(js, n) == \E e \in DOMAIN js : js[e].invoice = n /\ js[e].reversal
EntryNumbers(js) == [e \in DOMAIN js |-> js[e].invoice]

LEMMA EffectType ==
    ASSUME NEW js \in Seq(Entries), NEW n
    PROVE  /\ IsFiniteSet(DOMAIN js)
           /\ EffectOn(js, n) \in [DOMAIN js -> Int]
           /\ Ledger(js, n) \in Int
           /\ EntryNumbers(js) \in Seq(Numbers)
<1>1. IsFiniteSet(DOMAIN js)
  <2>1. DOMAIN js = 1..Len(js) /\ Len(js) \in Nat
    OBVIOUS
  <2>. QED
    BY <2>1, FS_Interval
<1>2. \A e \in DOMAIN js : js[e] \in Entries
  OBVIOUS
<1>3. EffectOn(js, n) \in [DOMAIN js -> Int]
  BY <1>2 DEF EffectOn, Entries
<1>4. Ledger(js, n) \in Int
  <2>. DEFINE f == EffectOn(js, n)
  <2>. HIDE DEF f
  <2>1. f \in [DOMAIN js -> Int]
    BY <1>3 DEF f
  <2>2. SumFunction(f) \in Int
    BY ONLY <1>1, <2>1, SumType
  <2>. QED
    BY <2>2 DEF Ledger, f
<1>5. EntryNumbers(js) \in Seq(Numbers)
  BY <1>2 DEF EntryNumbers, Entries
<1>. QED
  BY <1>1, <1>3, <1>4, <1>5

\* The sum over the entries of the number is the sum over all entries, where the
\* others count for nothing.
LEMMA LedgerSum ==
    ASSUME NEW js \in Seq(Entries), NEW n
    PROVE  SumFunction([e \in {e \in DOMAIN js : js[e].invoice = n} |-> js[e].effect])
             = Ledger(js, n)
<1>. DEFINE S == DOMAIN js
            T == {e \in DOMAIN js : js[e].invoice = n}
            f == EffectOn(js, n)
            g == [e \in T |-> js[e].effect]
<1>1. IsFiniteSet(S) /\ f \in [S -> Int]
  BY EffectType
<1>2. T \in SUBSET S /\ \A e \in S \ T : f[e] = 0
  BY DEF EffectOn
<1>3. g = [e \in T |-> f[e]]
  BY DEF EffectOn
<1>. HIDE DEF S, T, f, g
<1>4. SumFunction(g) = SumFunction(f)
  BY ONLY <1>1, <1>2, <1>3, SumSupport
<1>. QED
  BY <1>4 DEF g, f, T, Ledger

\* One more entry adds its effect to its own invoice and to no other.
LEMMA EntryPosted ==
    ASSUME NEW js \in Seq(Entries), NEW entry \in Entries, NEW after, after = Append(js, entry)
    PROVE  /\ after \in Seq(Entries)
           /\ EntryNumbers(after) = Append(EntryNumbers(js), entry.invoice)
           /\ Ledger(after, entry.invoice) = Ledger(js, entry.invoice) + entry.effect
           /\ Reversed(after, entry.invoice) <=> Reversed(js, entry.invoice) \/ entry.reversal
           /\ \A n : n # entry.invoice => /\ Ledger(after, n) = Ledger(js, n)
                                          /\ Reversed(after, n) <=> Reversed(js, n)
<1>. DEFINE number == entry.invoice
            effect == entry.effect
            k == Len(js)
<1>1. number \in Numbers /\ effect \in Int /\ entry.reversal \in BOOLEAN
  BY DEF Entries
<1>3. /\ after \in Seq(Entries) /\ k \in Nat
      /\ DOMAIN js = 1..k /\ DOMAIN after = 1..k + 1
      /\ \A i \in 1..k : after[i] = js[i]
      /\ after[k + 1] = entry
  OBVIOUS
<1>4. EntryNumbers(after) = Append(EntryNumbers(js), number)
  <2>. DEFINE old == EntryNumbers(js)
  <2>1. old \in Seq(Numbers)
    BY EffectType
  <2>2. /\ DOMAIN old = 1..k /\ Len(old) = k
        /\ \A i \in 1..k : old[i] = js[i].invoice
    BY <1>3, <2>1 DEF EntryNumbers
  <2>. DEFINE new == EntryNumbers(after)
              app == Append(old, number)
  <2>3. new \in Seq(Numbers) /\ DOMAIN new = 1..k + 1 /\ Len(new) = k + 1
    <3>1. new \in Seq(Numbers)
      BY <1>3, EffectType
    <3>2. DOMAIN new = 1..k + 1
      BY <1>3 DEF EntryNumbers
    <3>. HIDE DEF new, k
    <3>. QED
      BY <1>3, <3>1, <3>2
  <2>4. \A i \in 1..k : new[i] = old[i]
    BY <1>3, <2>2 DEF EntryNumbers
  <2>5. new[k + 1] = number
    BY <1>1, <1>3 DEF EntryNumbers
  <2>. HIDE DEF old, new, k
  <2>. HIDE DEF number
  <2>6. app \in Seq(Numbers) /\ Len(app) = k + 1 /\ \A i \in 1..k + 1 : app[i] = new[i]
    BY <1>1, <1>3, <2>1, <2>2, <2>4, <2>5
  <2>. HIDE DEF app
  <2>7. app = new
    BY <1>3, <2>3, <2>6, SeqEqual
  <2>. QED
    BY <2>7 DEF app, new, old
<1>5. ASSUME NEW n, NEW x \in Int, x = IF n = number THEN effect ELSE 0
      PROVE  Ledger(after, n) = Ledger(js, n) + x
  <2>. DEFINE f == EffectOn(js, n)
              g == EffectOn(after, n)
  <2>1. f \in [1..k -> Int] /\ g \in [1..k + 1 -> Int]
    BY <1>3, EffectType
  <2>2. \A i \in 1..k : g[i] = f[i]
    BY <1>3 DEF EffectOn
  <2>3. g[k + 1] = x
    BY <1>1, <1>3, <1>5 DEF EffectOn
  <2>. HIDE DEF f, g, k
  <2>4. SumFunction(g) = SumFunction(f) + g[k + 1]
    BY ONLY <1>3, <2>1, <2>2, SumAppend
  <2>. QED
    BY <2>3, <2>4 DEF f, g, Ledger
<1>6. Ledger(after, number) = Ledger(js, number) + effect
  <2>. HIDE DEF number, effect
  <2>. QED
    BY <1>1, <1>5
<1>7. ASSUME NEW n, n # number
      PROVE  Ledger(after, n) = Ledger(js, n)
  <2>1. Ledger(after, n) = Ledger(js, n) + 0
    BY <1>5, <1>7
  <2>2. Ledger(js, n) \in Int
    BY EffectType
  <2>. QED
    BY <2>1, <2>2
<1>8. ASSUME NEW n
      PROVE  Reversed(after, n) <=> Reversed(js, n) \/ (n = number /\ entry.reversal)
  BY <1>1, <1>3 DEF Reversed
<1>. QED
  BY <1>3, <1>4, <1>6, <1>7, <1>8

\* A number that no entry bears has no balance.
LEMMA NoEntries ==
    ASSUME NEW js \in Seq(Entries), NEW n, \A e \in DOMAIN js : EntryNumbers(js)[e] # n
    PROVE  Ledger(js, n) = 0 /\ ~Reversed(js, n)
<1>. DEFINE S == DOMAIN js
            f == EffectOn(js, n)
<1>0. \A e \in DOMAIN js : js[e].invoice # n
  BY DEF EntryNumbers
<1>1. IsFiniteSet(S) /\ f \in [S -> Int]
  BY EffectType
<1>2. \A e \in S : f[e] = 0
  BY <1>0 DEF EffectOn
<1>3. ~Reversed(js, n)
  BY <1>0 DEF Reversed
<1>. HIDE DEF S, f
<1>4. SumFunction(f) = 0
  BY ONLY <1>1, <1>2, SumZero
<1>. QED
  BY <1>3, <1>4 DEF f, Ledger

\* The entries of an invoice add up to what it says is open.
Booked(js, inv) ==
    Ledger(js, inv.number)
      = (IF inv.validated /\ ~Reversed(js, inv.number) THEN inv.total ELSE 0)
          - inv.paid - inv.credited

LEMMA BookedElsewhere ==
    ASSUME NEW js \in Seq(Entries), NEW inv \in Invoices, Booked(js, inv),
           NEW entry \in Entries, entry.invoice # inv.number,
           NEW after, after = Append(js, entry)
    PROVE  Booked(after, inv)
<1>1. /\ Ledger(after, inv.number) = Ledger(js, inv.number)
      /\ Reversed(after, inv.number) <=> Reversed(js, inv.number)
  BY EntryPosted
<1>2. Ledger(js, inv.number) \in Int
  BY EffectType
<1>. QED
  BY <1>1, <1>2 DEF Booked

LEMMA BookedSale ==
    ASSUME NEW js \in Seq(Entries), NEW inv \in Invoices, inv.validated,
           inv.paid = 0, inv.credited = 0,
           \A e \in DOMAIN js : EntryNumbers(js)[e] # inv.number,
           NEW entry \in Entries, entry.invoice = inv.number, entry.effect = inv.total,
           ~entry.reversal, NEW after, after = Append(js, entry)
    PROVE  Booked(after, inv)
<1>1. inv.number \in Numbers /\ inv.total \in Int
  BY BillingAssumption DEF Invoices, Amounts
<1>2. Ledger(js, inv.number) = 0 /\ ~Reversed(js, inv.number)
  BY NoEntries
<1>3. Ledger(after, inv.number) = inv.total
  <2>1. Ledger(after, entry.invoice) = Ledger(js, entry.invoice) + entry.effect
    BY EntryPosted
  <2>. QED
    BY <1>1, <1>2, <2>1
<1>4. ~Reversed(after, inv.number)
  BY <1>2, EntryPosted
<1>. QED
  BY <1>1, <1>3, <1>4 DEF Booked

LEMMA BookedDraft ==
    ASSUME NEW js \in Seq(Entries), NEW inv \in Invoices, ~inv.validated,
           inv.paid = 0, inv.credited = 0,
           \A e \in DOMAIN js : EntryNumbers(js)[e] # inv.number
    PROVE  Booked(js, inv)
BY NoEntries DEF Booked

\* A payment or a credit note is entered for what it takes off the invoice.
LEMMA BookedSettlement ==
    ASSUME NEW js \in Seq(Entries), NEW inv \in Invoices, Booked(js, inv),
           NEW amount \in Nat, NEW new \in Invoices,
           new.number = inv.number, new.validated = inv.validated, new.total = inv.total,
           \/ new.paid = inv.paid + amount /\ new.credited = inv.credited
           \/ new.paid = inv.paid /\ new.credited = inv.credited + amount,
           NEW entry \in Entries, entry.invoice = inv.number, entry.effect = 0 - amount,
           ~entry.reversal, NEW after, after = Append(js, entry)
    PROVE  Booked(after, new)
<1>1. /\ inv.number \in Numbers
      /\ inv.total \in Int /\ inv.paid \in Nat /\ inv.credited \in Nat
      /\ new.paid \in Nat /\ new.credited \in Nat
  BY BillingAssumption DEF Invoices, Amounts
<1>2. /\ Ledger(after, inv.number) = Ledger(js, inv.number) + (0 - amount)
      /\ Reversed(after, inv.number) <=> Reversed(js, inv.number)
  <2>1. Ledger(after, entry.invoice) = Ledger(js, entry.invoice) + entry.effect
    BY EntryPosted
  <2>2. Reversed(after, inv.number) <=> Reversed(js, inv.number)
    BY EntryPosted
  <2>. QED
    BY <2>1, <2>2
<1>3. Ledger(js, inv.number) \in Int
  BY EffectType
<1>4. PICK due \in Int :
            /\ due = IF inv.validated /\ ~Reversed(js, inv.number) THEN inv.total ELSE 0
            /\ due = IF new.validated /\ ~Reversed(after, new.number) THEN new.total ELSE 0
  BY <1>1, <1>2
<1>5. /\ Ledger(js, inv.number) = due - inv.paid - inv.credited
      /\ Ledger(after, new.number) = Ledger(js, inv.number) - amount
  BY <1>1, <1>2, <1>3, <1>4 DEF Booked
<1>6. PICK p \in Int, c \in Int, q \in Int, r \in Int :
            p = inv.paid /\ c = inv.credited /\ q = new.paid /\ r = new.credited
  BY <1>1
<1>7. Ledger(after, new.number) = due - new.paid - new.credited
  <2>1. q + r = p + c + amount
    <3>1. (q = p + amount /\ r = c) \/ (q = p /\ r = c + amount)
      BY <1>6
    <3>. QED
      BY ONLY <3>1, p \in Int, c \in Int, q \in Int, r \in Int, amount \in Nat
  <2>2. (due - p - c) - amount = due - q - r
    BY ONLY <2>1, amount \in Int, due \in Int
  <2>3. Ledger(after, new.number) = (due - p - c) - amount
    BY <1>5, <1>6
  <2>. QED
    BY <1>6, <2>2, <2>3
<1>. QED
  BY <1>4, <1>7 DEF Booked

\* A cancelled sale: one unit paid, one credited, all of it reversed.
LEMMA BookedReversal ==
    ASSUME NEW js \in Seq(Entries), NEW inv \in Invoices, Booked(js, inv),
           inv.validated, ~Reversed(js, inv.number), NEW new \in Invoices,
           new.number = inv.number, new.paid = inv.paid, new.credited = inv.credited,
           NEW entry \in Entries, entry.invoice = inv.number, entry.effect = 0 - inv.total,
           entry.reversal, NEW after, after = Append(js, entry)
    PROVE  Booked(after, new)
<1>1. /\ inv.number \in Numbers
      /\ inv.total \in Int /\ inv.paid \in Nat /\ inv.credited \in Nat
  BY BillingAssumption DEF Invoices, Amounts
<1>2. /\ Ledger(after, inv.number) = Ledger(js, inv.number) + (0 - inv.total)
      /\ Reversed(after, inv.number)
  <2>1. Ledger(after, entry.invoice) = Ledger(js, entry.invoice) + entry.effect
    BY EntryPosted
  <2>2. Reversed(after, inv.number)
    BY EntryPosted
  <2>. QED
    BY <2>1, <2>2
<1>3. Ledger(js, inv.number) = inv.total - inv.paid - inv.credited
  BY DEF Booked
<1>4. Ledger(after, inv.number) = 0 - inv.paid - inv.credited
  BY <1>1, <1>2, <1>3
<1>. QED
  BY <1>1, <1>2, <1>4 DEF Booked

LEMMA WithinAdded ==
    ASSUME NEW ns \in Seq(Numbers), NEW counts, Within(ns, counts),
           NEW x \in Numbers, x.n <= counts[x.prefix]
    PROVE  Within(Append(ns, x), counts)
BY AppendedNumber DEF Within

LEMMA EntryWithin ==
    ASSUME NEW js \in Seq(Entries), NEW entry \in Entries, NEW counts,
           Within(EntryNumbers(js), counts),
           entry.invoice.n <= counts[entry.invoice.prefix]
    PROVE  Within(EntryNumbers(Append(js, entry)), counts)
<1>1. EntryNumbers(js) \in Seq(Numbers) /\ entry.invoice \in Numbers
  BY EffectType DEF Entries
<1>2. EntryNumbers(Append(js, entry)) = Append(EntryNumbers(js), entry.invoice)
  BY ONLY js \in Seq(Entries), entry \in Entries, EntryPosted
<1>. QED
  BY <1>1, <1>2, WithinAdded

LEMMA NotReversed ==
    ASSUME NEW js \in Seq(Entries), NEW entry \in Entries, ~entry.reversal,
           NEW n, ~Reversed(js, n)
    PROVE  ~Reversed(Append(js, entry), n)
<1>. DEFINE after == Append(js, entry)
<1>1. after = Append(js, entry)
  OBVIOUS
<1>. HIDE DEF after
<1>2. CASE n = entry.invoice
  BY <1>1, <1>2, EntryPosted DEF after
<1>3. CASE n # entry.invoice
  BY <1>1, <1>3, EntryPosted DEF after
<1>. QED
  BY <1>2, <1>3

-----------------------------------------------------------------------------
\* One invoice, paid and credited.

Right(inv) ==
    /\ inv.paid <= inv.total
    /\ inv.credited <= inv.total
    /\ inv.status # "VOID" => (inv.status = "PAID" <=> Settled(inv))

\* What the test after a payment or a credit note makes of an invoice.
LEMMA StatusRight ==
    ASSUME NEW inv \in Invoices, inv.paid <= inv.total, inv.credited <= inv.total,
           inv.status = "PAID" => Settled(inv)
    PROVE  /\ WithStatus(inv) \in Invoices
           /\ Right(WithStatus(inv))
           /\ WithStatus(inv).number = inv.number
<1>1. CASE Settled(inv)
  <2>. DEFINE new == [inv EXCEPT !.status = "PAID"]
  <2>1. /\ new \in Invoices /\ new.number = inv.number /\ new.status = "PAID"
        /\ new.paid = inv.paid /\ new.credited = inv.credited /\ new.total = inv.total
    BY DEF Invoices, InvoiceStatus
  <2>2. WithStatus(inv) = new
    BY <1>1 DEF WithStatus
  <2>. HIDE DEF new
  <2>. QED
    BY <1>1, <2>1, <2>2 DEF Right, Settled
<1>2. CASE ~Settled(inv)
  <2>1. WithStatus(inv) = inv
    BY <1>2 DEF WithStatus, Invoices
  <2>. QED
    BY <1>2, <2>1 DEF Right
<1>. QED
  BY <1>1, <1>2

LEMMA PaidRight ==
    ASSUME NEW inv \in Invoices, Right(inv), NEW amount \in Amounts, Payable(inv, amount)
    PROVE  LET new == WithStatus([inv EXCEPT !.paid = @ + amount]) IN
           new \in Invoices /\ Right(new) /\ new.number = inv.number
<1>. DEFINE paid == [inv EXCEPT !.paid = @ + amount]
<1>1. /\ inv.paid \in Nat /\ inv.credited \in Nat /\ inv.total \in Nat /\ amount \in Nat
      /\ inv.status \in InvoiceStatus
  BY BillingAssumption DEF Invoices, Amounts
<1>2. /\ paid \in Invoices /\ paid.number = inv.number /\ paid.paid = inv.paid + amount
      /\ paid.credited = inv.credited /\ paid.total = inv.total /\ paid.status = inv.status
  BY <1>1 DEF Invoices
<1>. HIDE DEF paid
<1>3. paid.paid <= paid.total /\ paid.credited <= paid.total
  BY <1>1, <1>2 DEF Payable, Open, Right
<1>4. paid.status = "PAID" => Settled(paid)
  BY <1>1, <1>2 DEF Settled, Right
<1>5. /\ WithStatus(paid) \in Invoices /\ Right(WithStatus(paid))
      /\ WithStatus(paid).number = paid.number
  BY <1>2, <1>3, <1>4, StatusRight
<1>. QED
  BY <1>2, <1>5 DEF paid

LEMMA CreditedRight ==
    ASSUME NEW inv \in Invoices, Right(inv), NEW amount \in Amounts, Creditable(inv, amount)
    PROVE  LET new == WithStatus([inv EXCEPT !.credited = @ + amount]) IN
           new \in Invoices /\ Right(new) /\ new.number = inv.number
<1>. DEFINE credited == [inv EXCEPT !.credited = @ + amount]
<1>1. /\ inv.paid \in Nat /\ inv.credited \in Nat /\ inv.total \in Nat /\ amount \in Nat
      /\ inv.status \in InvoiceStatus
  BY BillingAssumption DEF Invoices, Amounts
<1>2. /\ credited \in Invoices /\ credited.number = inv.number
      /\ credited.credited = inv.credited + amount
      /\ credited.paid = inv.paid /\ credited.total = inv.total
      /\ credited.status = inv.status
  BY <1>1 DEF Invoices
<1>. HIDE DEF credited
<1>3. credited.paid <= credited.total /\ credited.credited <= credited.total
  BY <1>1, <1>2 DEF Creditable, Right
<1>4. credited.status = "PAID" => Settled(credited)
  BY <1>1, <1>2 DEF Settled, Right, Creditable
<1>5. /\ WithStatus(credited) \in Invoices /\ Right(WithStatus(credited))
      /\ WithStatus(credited).number = credited.number
  BY <1>2, <1>3, <1>4, StatusRight
<1>. QED
  BY <1>2, <1>5 DEF credited

-----------------------------------------------------------------------------
\* The list of the invoices.

InvoiceNumbers == [i \in DOMAIN invoices |-> invoices[i].number]

InvoicesInv ==
    /\ invoices \in Seq(Invoices)
    /\ \A i \in DOMAIN invoices : Right(invoices[i])

LEMMA AnInvoice ==
    ASSUME InvoicesInv, NEW i \in DOMAIN invoices
    PROVE  invoices[i] \in Invoices /\ invoices[i].number \in Numbers /\ Right(invoices[i])
<1>1. invoices[i] \in Invoices /\ Right(invoices[i])
  BY DEF InvoicesInv
<1>. QED
  BY <1>1 DEF Invoices

LEMMA InvoiceAdded ==
    ASSUME InvoicesInv, NEW inv \in Invoices, Right(inv), invoices' = Append(invoices, inv)
    PROVE  /\ InvoicesInv'
           /\ InvoiceNumbers' = Append(InvoiceNumbers, inv.number)
           /\ SubSeq(invoices', 1, Len(invoices)) = invoices
<1>. USE DEF InvoicesInv
<1>1. /\ invoices' \in Seq(Invoices)
      /\ DOMAIN invoices' = 1..Len(invoices) + 1
      /\ DOMAIN invoices = 1..Len(invoices) /\ Len(invoices) \in Nat
      /\ invoices'[Len(invoices) + 1] = inv
      /\ \A i \in DOMAIN invoices : invoices'[i] = invoices[i]
  OBVIOUS
<1>2. InvoicesInv'
  BY <1>1
<1>3. InvoiceNumbers' = Append(InvoiceNumbers, inv.number)
  <2>1. \A i \in DOMAIN invoices : invoices[i].number \in Numbers
    BY AnInvoice
  <2>2. InvoiceNumbers \in Seq(Numbers) /\ Len(InvoiceNumbers) = Len(invoices)
    BY <1>1, <2>1 DEF InvoiceNumbers
  <2>3. inv.number \in Numbers
    BY DEF Invoices
  <2>. QED
    BY <1>1, <2>2, <2>3 DEF InvoiceNumbers
<1>4. SubSeq(invoices', 1, Len(invoices)) = invoices
  BY <1>1
<1>. QED
  BY <1>2, <1>3, <1>4

LEMMA InvoiceChanged ==
    ASSUME InvoicesInv, NEW i \in DOMAIN invoices, NEW inv \in Invoices, Right(inv),
           inv.number = invoices[i].number, invoices' = [invoices EXCEPT ![i] = inv]
    PROVE  InvoicesInv' /\ InvoiceNumbers' = InvoiceNumbers
BY DEF InvoicesInv, InvoiceNumbers

-----------------------------------------------------------------------------
BillingInv ==
    /\ BillingTypeOK
    /\ InvoicesInv
    /\ Numbered(InvoiceNumbers, creditNotes, elsewhere, counters)

LockedStep ==
    ~periodOpen =>
      /\ UNCHANGED journal
      /\ invoices' # <<>> => SubSeq(invoices', 1, Len(invoices)) = invoices

Goal == BillingInv' /\ LockedStep

LEMMA PostedEntry ==
    ASSUME BillingTypeOK, NEW number \in Numbers, NEW effect \in Int, Post(number, effect)
    PROVE  journal' \in Seq(Entries)
BY DEF BillingTypeOK, Post, Entry, Entries

LEMMA InvoiceSteps ==
    ASSUME BillingInv, NEW c \in Customers, NEW total \in Amounts,
           CreateInvoice(c, total) \/ GenerateServiceContractDraftInvoices(c, total)
    PROVE  Goal
<1>. DEFINE number == Take(invoicePrefix)
<1>0. /\ counters \in [Prefixes -> Nat] /\ invoicePrefix \in Prefixes
      /\ total \in Nat \ {0}
  BY BillingAssumption DEF BillingInv, BillingTypeOK, Amounts
<1>1. number \in Numbers
  BY <1>0, NextNumber DEF Take
<1>2. PICK inv \in Invoices : /\ inv.number = number /\ Right(inv)
                              /\ invoices' = Append(invoices, inv)
  <2>. DEFINE posted == [number |-> number, customer |-> c, status |-> "POSTED",
                         validated |-> TRUE, total |-> total, paid |-> 0, credited |-> 0]
  <2>. DEFINE draft == [number |-> number, customer |-> c, status |-> "DRAFT",
                        validated |-> FALSE, total |-> total, paid |-> 0, credited |-> 0]
  <2>1. posted \in Invoices /\ posted.number = number /\ Right(posted)
    BY <1>0, <1>1 DEF Invoices, InvoiceStatus, Right, Settled
  <2>2. draft \in Invoices /\ draft.number = number /\ Right(draft)
    BY <1>0, <1>1 DEF Invoices, InvoiceStatus, Right, Settled
  <2>3. invoices' = Append(invoices, posted) \/ invoices' = Append(invoices, draft)
    BY DEF CreateInvoice, GenerateServiceContractDraftInvoices
  <2>. HIDE DEF posted, draft
  <2>. QED
    BY <2>1, <2>2, <2>3
<1>3. /\ InvoicesInv' /\ InvoiceNumbers' = Append(InvoiceNumbers, number)
      /\ SubSeq(invoices', 1, Len(invoices)) = invoices
  BY <1>2, InvoiceAdded DEF BillingInv
<1>4. /\ counters' = Bump(counters, invoicePrefix)
      /\ UNCHANGED <<creditNotes, elsewhere, invoicePrefix, creditPrefix, periodOpen>>
  BY DEF CreateInvoice, GenerateServiceContractDraftInvoices, Taken, series
<1>5. Numbered(InvoiceNumbers', creditNotes', elsewhere', counters')
  <2>1. Numbered(Append(InvoiceNumbers, number), creditNotes, elsewhere, Bump(counters, invoicePrefix))
    BY IssueNumber DEF BillingInv, BillingTypeOK, Take
  <2>. QED
    BY <1>3, <1>4, <2>1
<1>6. journal' \in Seq(Entries) /\ (~periodOpen => UNCHANGED journal)
  BY <1>0, <1>1, PostedEntry
     DEF BillingInv, BillingTypeOK, CreateInvoice, PeriodIsOpen,
         GenerateServiceContractDraftInvoices
<1>7. BillingTypeOK'
  BY <1>3, <1>4, <1>5, <1>6 DEF BillingInv, BillingTypeOK, InvoicesInv, Numbered
<1>. QED
  BY <1>3, <1>5, <1>6, <1>7 DEF Goal, BillingInv, LockedStep

LEMMA PaymentSteps ==
    ASSUME BillingInv, NEW i \in DOMAIN invoices, NEW amount \in Amounts,
           RecordPayment(i, amount)
    PROVE  Goal
<1>1. /\ invoices[i] \in Invoices /\ Right(invoices[i]) /\ invoices[i].number \in Numbers
      /\ -amount \in Int
  BY AnInvoice, BillingAssumption DEF BillingInv, Amounts
<1>. DEFINE new == WithStatus([invoices[i] EXCEPT !.paid = @ + amount])
<1>2. /\ Payable(invoices[i], amount)
      /\ invoices' = [invoices EXCEPT ![i] = new]
      /\ Post(invoices[i].number, -amount)
      /\ periodOpen
      /\ UNCHANGED <<creditNotes, counters, elsewhere, invoicePrefix, creditPrefix, periodOpen>>
  BY DEF RecordPayment, PeriodIsOpen, series
<1>3. new \in Invoices /\ Right(new) /\ new.number = invoices[i].number
  BY <1>1, <1>2, PaidRight
<1>. HIDE DEF new
<1>4. InvoicesInv' /\ InvoiceNumbers' = InvoiceNumbers
  BY <1>2, <1>3, InvoiceChanged DEF BillingInv
<1>5. Numbered(InvoiceNumbers', creditNotes', elsewhere', counters')
  BY <1>2, <1>4 DEF BillingInv
<1>6. journal' \in Seq(Entries)
  BY <1>1, <1>2, PostedEntry DEF BillingInv
<1>7. BillingTypeOK'
  BY <1>2, <1>4, <1>6 DEF BillingInv, BillingTypeOK, InvoicesInv
<1>. QED
  BY <1>2, <1>4, <1>5, <1>7 DEF Goal, BillingInv, LockedStep

LEMMA CreditNoteSteps ==
    ASSUME BillingInv, NEW i \in DOMAIN invoices, NEW amount \in Amounts,
           CreateCreditNote(i, amount)
    PROVE  Goal
<1>1. /\ invoices[i] \in Invoices /\ Right(invoices[i]) /\ invoices[i].number \in Numbers
      /\ -amount \in Int
  BY AnInvoice, BillingAssumption DEF BillingInv, Amounts
<1>. DEFINE new == WithStatus([invoices[i] EXCEPT !.credited = @ + amount])
<1>2. /\ Creditable(invoices[i], amount)
      /\ invoices' = [invoices EXCEPT ![i] = new]
      /\ Post(invoices[i].number, -amount)
      /\ periodOpen
      /\ counters' = Bump(counters, creditPrefix)
      /\ creditNotes' = Append(creditNotes, Number(Bump(counters, creditPrefix), creditPrefix))
      /\ elsewhere' = elsewhere \cup {Number(Bump(counters, creditPrefix), creditPrefix)}
      /\ UNCHANGED <<invoicePrefix, creditPrefix, periodOpen>>
  BY DEF CreateCreditNote, PeriodIsOpen, TakenElsewhere, Taken, Take, series
<1>3. new \in Invoices /\ Right(new) /\ new.number = invoices[i].number
  BY <1>1, <1>2, CreditedRight
<1>. HIDE DEF new
<1>4. InvoicesInv' /\ InvoiceNumbers' = InvoiceNumbers
  BY <1>2, <1>3, InvoiceChanged DEF BillingInv
<1>5. Numbered(InvoiceNumbers', creditNotes', elsewhere', counters')
  BY <1>2, <1>4, OtherNumber DEF BillingInv, BillingTypeOK
<1>6. journal' \in Seq(Entries)
  BY <1>1, <1>2, PostedEntry DEF BillingInv
<1>7. BillingTypeOK'
  BY <1>2, <1>4, <1>5, <1>6 DEF BillingInv, BillingTypeOK, InvoicesInv, Numbered
<1>. QED
  BY <1>2, <1>4, <1>5, <1>7 DEF Goal, BillingInv, LockedStep

\* A number goes elsewhere, and nothing else changes but the credit notes.
LEMMA ElsewhereSteps ==
    ASSUME BillingInv,
           \/ \E i \in DOMAIN invoices : RefuseCreditNote(i)
           \/ \E prefix \in Prefixes : IssueOtherDocument(prefix)
    PROVE  Goal
<1>1. PICK p \in Prefixes :
      /\ counters' = Bump(counters, p)
      /\ elsewhere' = elsewhere \cup {Number(Bump(counters, p), p)}
      /\ \/ creditNotes' = creditNotes
         \/ creditNotes' = Append(creditNotes, Number(Bump(counters, p), p))
      /\ UNCHANGED <<invoices, invoicePrefix, creditPrefix, journal, periodOpen>>
  <2>1. creditPrefix \in Prefixes
    BY DEF BillingInv, BillingTypeOK
  <2>. QED
    BY <2>1 DEF RefuseCreditNote, IssueOtherDocument, TakenElsewhere, Taken, Take, series
<1>2. InvoicesInv' /\ InvoiceNumbers' = InvoiceNumbers
  BY <1>1 DEF BillingInv, InvoicesInv, InvoiceNumbers
<1>3. Numbered(InvoiceNumbers', creditNotes', elsewhere', counters')
  <2>. DEFINE x == Number(Bump(counters, p), p)
  <2>1. /\ Numbered(InvoiceNumbers, Append(creditNotes, x), elsewhere \cup {x}, Bump(counters, p))
        /\ Numbered(InvoiceNumbers, creditNotes, elsewhere \cup {x}, Bump(counters, p))
    BY OtherNumber DEF BillingInv
  <2>. HIDE DEF x
  <2>. QED
    BY <1>1, <1>2, <2>1 DEF x
<1>4. BillingTypeOK'
  BY <1>1, <1>2, <1>3 DEF BillingInv, BillingTypeOK, Numbered
<1>5. LockedStep
  BY <1>1 DEF BillingInv, InvoicesInv, LockedStep
<1>. QED
  BY <1>2, <1>3, <1>4, <1>5 DEF Goal, BillingInv

LEMMA ShortSequences ==
    ASSUME NEW S, NEW a \in S, NEW b \in S, NEW c \in S
    PROVE  <<a, b, c>> \in Seq(S) /\ <<a>> \in Seq(S) /\ <<>> \in Seq(S)
OBVIOUS

\* The whole life of an invoice at once.
LEMMA ControlSteps ==
    ASSUME BillingInv, NEW c \in Customers, NEW total \in Amounts, NEW completed \in BOOLEAN,
           MoroccoScaleControlsReadiness(c, total, completed)
    PROVE  Goal
<1>. DEFINE next == Bump(counters, invoicePrefix)
<1>. DEFINE last == Bump(next, creditPrefix)
<1>. DEFINE number == Number(next, invoicePrefix)
<1>. DEFINE first == [number |-> number, customer |-> c, status |-> "POSTED",
                      validated |-> TRUE, total |-> total, paid |-> 1, credited |-> 1]
<1>. DEFINE settled == WithStatus(first)
<1>. DEFINE inv == IF completed THEN [settled EXCEPT !.status = "VOID"] ELSE settled
<1>. DEFINE sale == <<Entry(number, total, FALSE), Entry(number, -1, FALSE),
                      Entry(number, -1, FALSE)>>
<1>. DEFINE undone == IF completed THEN <<Entry(number, -total, TRUE)>> ELSE <<>>
<1>1. /\ total >= 2 /\ periodOpen
      /\ counters' = last
      /\ creditNotes' = Append(creditNotes, Number(last, creditPrefix))
      /\ invoices' = Append(invoices, inv)
      /\ journal' = journal \o sale \o undone
      /\ elsewhere' = elsewhere \cup {Number(last, creditPrefix)}
      /\ UNCHANGED <<invoicePrefix, creditPrefix, periodOpen>>
  BY DEF MoroccoScaleControlsReadiness, PeriodIsOpen, series
<1>2. /\ counters \in [Prefixes -> Nat] /\ invoicePrefix \in Prefixes /\ total \in Nat
      /\ total \in Int /\ -total \in Int /\ -1 \in Int
  BY BillingAssumption DEF BillingInv, BillingTypeOK, Amounts
<1>3. number \in Numbers
  BY <1>2, NextNumber
<1>4. inv \in Invoices /\ Right(inv) /\ inv.number = number
  <2>1. /\ first \in Invoices /\ first.number = number /\ first.status = "POSTED"
        /\ first.paid <= first.total /\ first.credited <= first.total
    BY <1>1, <1>2, <1>3 DEF Invoices, InvoiceStatus
  <2>. HIDE DEF first, number
  <2>2. settled \in Invoices /\ Right(settled) /\ settled.number = number
    BY <2>1, StatusRight
  <2>. HIDE DEF settled
  <2>. DEFINE void == [settled EXCEPT !.status = "VOID"]
  <2>3. void \in Invoices /\ Right(void) /\ void.number = number
    BY <2>2 DEF Invoices, InvoiceStatus, Right
  <2>. QED
    BY <2>2, <2>3
<1>5. journal' \in Seq(Entries)
  <2>1. \A x \in Int, r \in BOOLEAN : Entry(number, x, r) \in Entries
    BY <1>3 DEF Entry, Entries
  <2>2. /\ Entry(number, total, FALSE) \in Entries /\ Entry(number, -1, FALSE) \in Entries
        /\ Entry(number, -total, TRUE) \in Entries
    BY <1>2, <2>1
  <2>3. sale \in Seq(Entries) /\ undone \in Seq(Entries)
    <3>1. sale \in Seq(Entries)
      BY <2>2, ShortSequences
    <3>2. <<Entry(number, -total, TRUE)>> \in Seq(Entries) /\ <<>> \in Seq(Entries)
      BY <2>2, ShortSequences
    <3>3. undone \in Seq(Entries)
      BY <3>2, Zenon
    <3>. QED
      BY <3>1, <3>3
  <2>4. journal \in Seq(Entries)
    BY DEF BillingInv, BillingTypeOK
  <2>. HIDE DEF sale, undone
  <2>. QED
    BY <1>1, <2>3, <2>4, ConcatProperties
<1>6. Numbered(Append(InvoiceNumbers, number), Append(creditNotes, Number(last, creditPrefix)),
              elsewhere \cup {Number(last, creditPrefix)}, last)
  <2>1. Numbered(Append(InvoiceNumbers, number), creditNotes, elsewhere, next)
    BY IssueNumber DEF BillingInv, BillingTypeOK
  <2>. HIDE DEF next, number
  <2>. QED
    BY <2>1, OtherNumber DEF BillingInv, BillingTypeOK
<1>. HIDE DEF inv, number, last, sale, undone
<1>7. /\ InvoicesInv' /\ InvoiceNumbers' = Append(InvoiceNumbers, number)
      /\ SubSeq(invoices', 1, Len(invoices)) = invoices
  BY <1>1, <1>4, InvoiceAdded DEF BillingInv
<1>8. Numbered(InvoiceNumbers', creditNotes', elsewhere', counters')
  BY <1>1, <1>6, <1>7
<1>9. BillingTypeOK'
  BY <1>1, <1>5, <1>7, <1>8 DEF BillingInv, BillingTypeOK, InvoicesInv, Numbered
<1>. QED
  BY <1>1, <1>7, <1>8, <1>9 DEF Goal, BillingInv, LockedStep

\* An entry that becomes void keeps its invoice and its effect.
LEMMA EntryVoided ==
    ASSUME NEW js \in Seq(Entries), NEW x \in DOMAIN js,
           NEW after, after = [js EXCEPT ![x].void = TRUE]
    PROVE  /\ after \in Seq(Entries) /\ DOMAIN after = DOMAIN js
           /\ \A e \in DOMAIN js : /\ after[e].invoice = js[e].invoice
                                   /\ after[e].effect = js[e].effect
                                   /\ after[e].reversal = js[e].reversal
<1>. DEFINE entry == [js[x] EXCEPT !.void = TRUE]
<1>1. js[x] \in Entries
  OBVIOUS
<1>2. /\ entry \in Entries /\ entry.invoice = js[x].invoice
      /\ entry.effect = js[x].effect /\ entry.reversal = js[x].reversal
  BY <1>1 DEF Entries
<1>3. after = [js EXCEPT ![x] = entry]
  OBVIOUS
<1>. HIDE DEF entry
<1>4. /\ after \in Seq(Entries) /\ DOMAIN after = DOMAIN js /\ after[x] = entry
      /\ \A e \in DOMAIN js : e # x => after[e] = js[e]
  BY ONLY js \in Seq(Entries), x \in DOMAIN js, <1>2, <1>3
<1>. QED
  BY <1>2, <1>4

\* Settings, periods, a voided entry and the wipe of the documents.
LEMMA OtherSteps ==
    ASSUME BillingInv,
           \/ UpdateDocumentNumberingSetting \/ UpsertFiscalPeriod \/ ResetSampleModule
           \/ \E e \in DOMAIN journal : VoidJournalEntry(e)
           \/ UNCHANGED billingVars
    PROVE  Goal
<1>1. /\ UNCHANGED <<counters, elsewhere>>
      /\ journal' \in Seq(Entries) /\ (~periodOpen => UNCHANGED journal)
      /\ \/ UNCHANGED <<invoices, creditNotes>>
         \/ invoices' = <<>> /\ creditNotes' = <<>>
      /\ invoicePrefix' \in Prefixes /\ creditPrefix' \in Prefixes
      /\ periodOpen' \in BOOLEAN
  <2>1. /\ journal \in Seq(Entries) /\ periodOpen \in BOOLEAN
        /\ invoicePrefix \in Prefixes /\ creditPrefix \in Prefixes
    BY DEF BillingInv, BillingTypeOK
  <2>2. CASE \E e \in DOMAIN journal : VoidJournalEntry(e)
    <3>1. PICK e \in DOMAIN journal : VoidJournalEntry(e)
      BY <2>2
    <3>2. /\ journal' = [journal EXCEPT ![e].void = TRUE] /\ periodOpen
          /\ UNCHANGED <<invoices, creditNotes, counters, elsewhere,
                         invoicePrefix, creditPrefix, periodOpen>>
      BY <3>1 DEF VoidJournalEntry, PeriodIsOpen, series
    <3>3. journal' \in Seq(Entries)
      BY <2>1, <3>2, EntryVoided
    <3>. QED
      BY <2>1, <3>2, <3>3
  <2>3. CASE \/ UpdateDocumentNumberingSetting \/ UpsertFiscalPeriod \/ ResetSampleModule
             \/ UNCHANGED billingVars
    BY <2>1, <2>3
       DEF UpdateDocumentNumberingSetting, UpsertFiscalPeriod, ResetSampleModule, billingVars, series
  <2>. QED
    BY <2>2, <2>3
<1>2. CASE UNCHANGED <<invoices, creditNotes>>
  <2>1. InvoicesInv' /\ InvoiceNumbers' = InvoiceNumbers
    BY <1>2 DEF BillingInv, InvoicesInv, InvoiceNumbers
  <2>2. SubSeq(invoices', 1, Len(invoices)) = invoices
    BY <1>2 DEF BillingInv, InvoicesInv
  <2>. QED
    BY <1>1, <1>2, <2>1, <2>2 DEF Goal, BillingInv, BillingTypeOK, LockedStep
<1>3. CASE invoices' = <<>> /\ creditNotes' = <<>>
  <2>1. InvoicesInv' /\ InvoiceNumbers' = <<>>
    BY <1>3 DEF InvoicesInv, InvoiceNumbers
  <2>2. Numbered(<<>>, <<>>, elsewhere, counters)
    BY DEF BillingInv, BillingTypeOK, Numbered, Within, Distinct, Continuous
  <2>. QED
    BY <1>1, <1>3, <2>1, <2>2 DEF Goal, BillingInv, BillingTypeOK, LockedStep
<1>. QED
  BY <1>1, <1>2, <1>3

-----------------------------------------------------------------------------
\* The ledger agrees with the invoices, step by step.

\* No entry bears a number that has not been given, so a new invoice finds none.
LedgerInv ==
    /\ Within(EntryNumbers(journal), counters)
    /\ \A i \in DOMAIN invoices : Booked(journal, invoices[i])

LEMMA LedgerGrows ==
    ASSUME BillingInv, LedgerInv, NEW inv \in Invoices, invoices' = Append(invoices, inv),
           Within(EntryNumbers(journal'), counters'),
           \A i \in DOMAIN invoices : Booked(journal', invoices[i]),
           Booked(journal', inv)
    PROVE  LedgerInv'
BY DEF LedgerInv, BillingInv, BillingTypeOK

\* What is known of a number about to be given.
LEMMA NewNumber ==
    ASSUME BillingInv, LedgerInv, NEW p \in Prefixes
    PROVE  LET number == Number(Bump(counters, p), p) IN
           /\ number \in Numbers
           /\ Bump(counters, p) \in [Prefixes -> Nat]
           /\ number.n <= Bump(counters, p)[number.prefix]
           /\ Within(EntryNumbers(journal), Bump(counters, p))
           /\ \A e \in DOMAIN journal : EntryNumbers(journal)[e] # number
           /\ \A i \in DOMAIN invoices : invoices[i].number # number
<1>. DEFINE number == Number(Bump(counters, p), p)
            last == Bump(counters, p)
<1>1. counters \in [Prefixes -> Nat]
  BY DEF BillingInv, BillingTypeOK
<1>2. /\ number \in Numbers /\ last \in [Prefixes -> Nat] /\ number.prefix = p
      /\ number.n = counters[p] + 1 /\ last[p] = counters[p] + 1 /\ counters[p] \in Nat
  BY <1>1, NextNumber
<1>3. /\ EntryNumbers(journal) \in Seq(Numbers)
      /\ Within(EntryNumbers(journal), counters)
      /\ DOMAIN EntryNumbers(journal) = DOMAIN journal
  BY EffectType DEF BillingInv, BillingTypeOK, LedgerInv, EntryNumbers
<1>4. /\ Within(EntryNumbers(journal), last)
      /\ \A e \in DOMAIN journal : EntryNumbers(journal)[e] # number
  BY <1>1, <1>3, StillWithin
<1>5. /\ InvoiceNumbers \in Seq(Numbers) /\ Within(InvoiceNumbers, counters)
      /\ DOMAIN InvoiceNumbers = DOMAIN invoices
      /\ \A i \in DOMAIN invoices : InvoiceNumbers[i] = invoices[i].number
  BY DEF BillingInv, Numbered, InvoiceNumbers
<1>6. \A i \in DOMAIN invoices : invoices[i].number # number
  BY <1>1, <1>5, StillWithin
<1>. HIDE DEF number, last
<1>7. number.n <= last[number.prefix]
  BY <1>2
<1>. QED
  BY <1>2, <1>4, <1>6, <1>7 DEF number, last

LEMMA LedgerInvoiceSteps ==
    ASSUME BillingInv, LedgerInv, NEW c \in Customers, NEW total \in Amounts,
           CreateInvoice(c, total) \/ GenerateServiceContractDraftInvoices(c, total)
    PROVE  LedgerInv'
<1>. DEFINE number == Number(Bump(counters, invoicePrefix), invoicePrefix)
            last == Bump(counters, invoicePrefix)
<1>1. /\ invoicePrefix \in Prefixes /\ journal \in Seq(Entries)
      /\ total \in Nat \ {0} /\ total \in Amounts
      /\ \A i \in DOMAIN invoices : invoices[i] \in Invoices
  BY BillingAssumption DEF BillingInv, BillingTypeOK, Amounts
<1>2. /\ number \in Numbers /\ number.n <= last[number.prefix]
      /\ Within(EntryNumbers(journal), last)
      /\ \A e \in DOMAIN journal : EntryNumbers(journal)[e] # number
      /\ \A i \in DOMAIN invoices : invoices[i].number # number
  BY <1>1, NewNumber
<1>3. counters' = last
  BY DEF CreateInvoice, GenerateServiceContractDraftInvoices, Taken
<1>5. CASE CreateInvoice(c, total)
  <2>. DEFINE inv == [number |-> number, customer |-> c, status |-> "POSTED",
                      validated |-> TRUE, total |-> total, paid |-> 0, credited |-> 0]
              entry == Entry(number, total, FALSE)
  <2>1. /\ invoices' = Append(invoices, inv)
        /\ journal' = Append(journal, entry)
    BY <1>5 DEF CreateInvoice, Take, Post
  <2>2. /\ inv \in Invoices /\ inv.number = number /\ inv.validated
        /\ inv.total = total /\ inv.paid = 0 /\ inv.credited = 0
    BY <1>1, <1>2 DEF Invoices, InvoiceStatus
  <2>3. /\ entry \in Entries /\ entry.invoice = number /\ entry.effect = total
        /\ ~entry.reversal
    BY <1>1, <1>2 DEF Entry, Entries
  <2>. HIDE DEF inv, entry, number, last
  <2>4. Booked(journal', inv)
    BY <1>1, <1>2, <2>1, <2>2, <2>3, BookedSale
  <2>5. \A i \in DOMAIN invoices : Booked(journal', invoices[i])
    BY <1>1, <1>2, <2>1, <2>3, BookedElsewhere DEF LedgerInv
  <2>6. Within(EntryNumbers(journal'), counters')
    BY <1>1, <1>2, <1>3, <2>1, <2>3, EntryWithin
  <2>. QED
    BY <2>1, <2>2, <2>4, <2>5, <2>6, LedgerGrows
<1>6. CASE GenerateServiceContractDraftInvoices(c, total)
  <2>. DEFINE inv == [number |-> number, customer |-> c, status |-> "DRAFT",
                      validated |-> FALSE, total |-> total, paid |-> 0, credited |-> 0]
  <2>1. invoices' = Append(invoices, inv) /\ journal' = journal
    BY <1>6 DEF GenerateServiceContractDraftInvoices, Take
  <2>2. /\ inv \in Invoices /\ inv.number = number /\ ~inv.validated
        /\ inv.paid = 0 /\ inv.credited = 0
    BY <1>1, <1>2 DEF Invoices, InvoiceStatus
  <2>. HIDE DEF inv, number, last
  <2>3. Booked(journal', inv)
    BY <1>1, <1>2, <2>1, <2>2, BookedDraft
  <2>. QED
    BY <1>2, <1>3, <2>1, <2>2, <2>3, LedgerGrows DEF LedgerInv
<1>. QED
  BY <1>5, <1>6

\* A payment or a credit note changes one invoice and enters what it takes off.
LEMMA SettlementFields ==
    ASSUME NEW inv \in Invoices, NEW amount \in Amounts
    PROVE  LET paid == WithStatus([inv EXCEPT !.paid = @ + amount])
               credited == WithStatus([inv EXCEPT !.credited = @ + amount]) IN
           /\ \A new \in {paid, credited} :
                 /\ new.customer = inv.customer /\ new.validated = inv.validated
                 /\ new.total = inv.total
                 /\ new.status = IF Settled(new) THEN "PAID" ELSE inv.status
           /\ paid.paid = inv.paid + amount /\ paid.credited = inv.credited
           /\ credited.paid = inv.paid /\ credited.credited = inv.credited + amount
<1>1. ASSUME NEW x \in Invoices
      PROVE  /\ WithStatus(x).customer = x.customer /\ WithStatus(x).validated = x.validated
             /\ WithStatus(x).total = x.total /\ WithStatus(x).paid = x.paid
             /\ WithStatus(x).credited = x.credited
             /\ WithStatus(x).status = IF Settled(WithStatus(x)) THEN "PAID" ELSE x.status
  BY DEF WithStatus, Settled, Invoices
<1>2. amount \in Nat
  BY BillingAssumption DEF Amounts
<1>. DEFINE p == [inv EXCEPT !.paid = @ + amount]
            q == [inv EXCEPT !.credited = @ + amount]
<1>3. /\ p \in Invoices /\ p.customer = inv.customer /\ p.validated = inv.validated
      /\ p.total = inv.total /\ p.status = inv.status
      /\ p.paid = inv.paid + amount /\ p.credited = inv.credited
  BY <1>2 DEF Invoices
<1>4. /\ q \in Invoices /\ q.customer = inv.customer /\ q.validated = inv.validated
      /\ q.total = inv.total /\ q.status = inv.status
      /\ q.paid = inv.paid /\ q.credited = inv.credited + amount
  BY <1>2 DEF Invoices
<1>. HIDE DEF p, q
<1>5. \A new \in {WithStatus(p), WithStatus(q)} :
         /\ new.customer = inv.customer /\ new.validated = inv.validated
         /\ new.total = inv.total
         /\ new.status = IF Settled(new) THEN "PAID" ELSE inv.status
  BY <1>1, <1>3, <1>4
<1>6. /\ WithStatus(p).paid = inv.paid + amount /\ WithStatus(p).credited = inv.credited
      /\ WithStatus(q).paid = inv.paid /\ WithStatus(q).credited = inv.credited + amount
  BY <1>1, <1>3, <1>4
<1>. QED
  BY <1>5, <1>6 DEF p, q

LEMMA LedgerSettled ==
    ASSUME BillingInv, LedgerInv, NEW i \in DOMAIN invoices, NEW amount \in Amounts,
           NEW new \in Invoices, invoices' = [invoices EXCEPT ![i] = new],
           new.number = invoices[i].number, new.validated = invoices[i].validated,
           new.total = invoices[i].total,
           \/ new.paid = invoices[i].paid + amount /\ new.credited = invoices[i].credited
           \/ new.paid = invoices[i].paid /\ new.credited = invoices[i].credited + amount,
           Post(invoices[i].number, -amount),
           Within(EntryNumbers(journal), counters'), counters' \in [Prefixes -> Nat],
           Within(InvoiceNumbers, counters')
    PROVE  LedgerInv'
<1>. DEFINE number == invoices[i].number
            entry == Entry(number, -amount, FALSE)
<1>1. /\ \A j \in DOMAIN invoices : invoices[j] \in Invoices /\ invoices[j].number \in Numbers
      /\ journal \in Seq(Entries) /\ amount \in Nat
  BY AnInvoice, BillingAssumption DEF BillingInv, BillingTypeOK, Amounts
<1>2. journal' = Append(journal, entry)
  BY DEF Post
<1>3. /\ entry \in Entries /\ entry.invoice = number /\ entry.effect = 0 - amount
      /\ ~entry.reversal
  <2>1. -amount \in Int /\ -amount = 0 - amount
    BY <1>1
  <2>. QED
    BY <1>1, <2>1 DEF Entry, Entries
<1>4. \A j \in DOMAIN invoices : j # i => invoices[j].number # number
  BY DEF BillingInv, Numbered, Distinct, InvoiceNumbers
<1>. HIDE DEF entry
<1>5. Booked(journal', new)
  <2>1. Booked(journal, invoices[i])
    BY DEF LedgerInv
  <2>2. \/ new.paid = invoices[i].paid + amount /\ new.credited = invoices[i].credited
        \/ new.paid = invoices[i].paid /\ new.credited = invoices[i].credited + amount
    OBVIOUS
  <2>. DEFINE old == invoices[i]
              js == journal
              after == journal'
  <2>3. /\ js \in Seq(Entries) /\ old \in Invoices /\ Booked(js, old) /\ amount \in Nat
        /\ new \in Invoices /\ new.number = old.number /\ new.validated = old.validated
        /\ new.total = old.total
        /\ \/ new.paid = old.paid + amount /\ new.credited = old.credited
           \/ new.paid = old.paid /\ new.credited = old.credited + amount
        /\ entry \in Entries /\ entry.invoice = old.number /\ entry.effect = 0 - amount
        /\ ~entry.reversal /\ after = Append(js, entry)
    BY <1>1, <1>2, <1>3, <2>1, <2>2
  <2>. HIDE DEF old, js, after
  <2>4. Booked(after, new)
    BY ONLY <2>3, BookedSettlement
  <2>. QED
    BY <2>4 DEF after
<1>6. \A j \in DOMAIN invoices : j # i => Booked(journal', invoices[j])
  BY <1>1, <1>2, <1>3, <1>4, BookedElsewhere DEF LedgerInv
<1>7. Within(EntryNumbers(journal'), counters')
  <2>1. number.n <= counters'[number.prefix]
    BY DEF Within, InvoiceNumbers
  <2>. QED
    BY <1>1, <1>2, <1>3, <2>1, EntryWithin
<1>8. DOMAIN invoices' = DOMAIN invoices /\ invoices'[i] = new
      /\ \A j \in DOMAIN invoices : j # i => invoices'[j] = invoices[j]
  OBVIOUS
<1>. QED
  BY <1>5, <1>6, <1>7, <1>8 DEF LedgerInv

LEMMA LedgerSettlementSteps ==
    ASSUME BillingInv, LedgerInv, NEW i \in DOMAIN invoices, NEW amount \in Amounts,
           RecordPayment(i, amount) \/ CreateCreditNote(i, amount)
    PROVE  LedgerInv'
<1>. DEFINE paid == WithStatus([invoices[i] EXCEPT !.paid = @ + amount])
            credited == WithStatus([invoices[i] EXCEPT !.credited = @ + amount])
<1>1. invoices[i] \in Invoices /\ Right(invoices[i]) /\ invoices[i].number \in Numbers
  BY AnInvoice DEF BillingInv
<1>2. /\ paid.validated = invoices[i].validated /\ paid.total = invoices[i].total
      /\ paid.paid = invoices[i].paid + amount /\ paid.credited = invoices[i].credited
      /\ credited.validated = invoices[i].validated /\ credited.total = invoices[i].total
      /\ credited.paid = invoices[i].paid
      /\ credited.credited = invoices[i].credited + amount
  BY <1>1, SettlementFields
<1>3. /\ counters \in [Prefixes -> Nat] /\ creditPrefix \in Prefixes
      /\ Within(EntryNumbers(journal), counters) /\ Within(InvoiceNumbers, counters)
      /\ InvoiceNumbers \in Seq(Numbers)
      /\ EntryNumbers(journal) \in Seq(Numbers)
  BY EffectType DEF BillingInv, BillingTypeOK, Numbered, LedgerInv
<1>4. CASE RecordPayment(i, amount)
  <2>1. /\ Payable(invoices[i], amount)
        /\ invoices' = [invoices EXCEPT ![i] = paid]
        /\ Post(invoices[i].number, -amount)
        /\ counters' = counters
    BY <1>4 DEF RecordPayment
  <2>2. paid \in Invoices /\ paid.number = invoices[i].number
    BY <1>1, <2>1, PaidRight
  <2>. HIDE DEF paid, credited
  <2>. QED
    BY <1>2, <1>3, <2>1, <2>2, LedgerSettled
<1>5. CASE CreateCreditNote(i, amount)
  <2>1. /\ Creditable(invoices[i], amount)
        /\ invoices' = [invoices EXCEPT ![i] = credited]
        /\ Post(invoices[i].number, -amount)
        /\ counters' = Bump(counters, creditPrefix)
    BY <1>5 DEF CreateCreditNote, TakenElsewhere, Taken
  <2>2. credited \in Invoices /\ credited.number = invoices[i].number
    BY <1>1, <2>1, CreditedRight
  <2>3. /\ counters' \in [Prefixes -> Nat]
        /\ Within(EntryNumbers(journal), counters') /\ Within(InvoiceNumbers, counters')
    BY <1>3, <2>1, NextNumber, StillWithin
  <2>. HIDE DEF paid, credited
  <2>. QED
    BY <1>2, <2>1, <2>2, <2>3, LedgerSettled
<1>. QED
  BY <1>4, <1>5

\* Sale, payment, credit note and perhaps the reversal, entered one after the
\* other, leave the invoice booked and touch no other invoice.
LEMMA ControlEntries ==
    ASSUME BillingInv, LedgerInv, NEW c \in Customers, NEW total \in Amounts,
           NEW completed \in BOOLEAN, MoroccoScaleControlsReadiness(c, total, completed)
    PROVE  LedgerInv'
<1>. DEFINE next == Bump(counters, invoicePrefix)
            last == Bump(next, creditPrefix)
            number == Number(next, invoicePrefix)
            first == [number |-> number, customer |-> c, status |-> "POSTED",
                      validated |-> TRUE, total |-> total, paid |-> 1, credited |-> 1]
            settled == WithStatus(first)
            inv == IF completed THEN [settled EXCEPT !.status = "VOID"] ELSE settled
            sale == Entry(number, total, FALSE)
            less == Entry(number, -1, FALSE)
            undo == Entry(number, -total, TRUE)
            j1 == Append(journal, sale)
            j2 == Append(j1, less)
            j3 == Append(j2, less)
            j4 == Append(j3, undo)
<1>1. /\ invoices' = Append(invoices, inv) /\ counters' = last
      /\ journal' = journal \o <<sale, less, less>> \o (IF completed THEN <<undo>> ELSE <<>>)
  BY DEF MoroccoScaleControlsReadiness
<1>2. /\ invoicePrefix \in Prefixes /\ creditPrefix \in Prefixes /\ journal \in Seq(Entries)
      /\ total \in Nat \ {0} /\ total \in Amounts
      /\ counters \in [Prefixes -> Nat]
      /\ \A i \in DOMAIN invoices : invoices[i] \in Invoices
  BY BillingAssumption DEF BillingInv, BillingTypeOK, Amounts
<1>3. /\ number \in Numbers /\ next \in [Prefixes -> Nat]
      /\ number.n <= next[number.prefix]
      /\ Within(EntryNumbers(journal), next)
      /\ \A e \in DOMAIN journal : EntryNumbers(journal)[e] # number
      /\ \A i \in DOMAIN invoices : invoices[i].number # number
  BY <1>2, NewNumber
<1>4. /\ sale \in Entries /\ sale.invoice = number /\ sale.effect = total /\ ~sale.reversal
      /\ less \in Entries /\ less.invoice = number /\ less.effect = 0 - 1 /\ ~less.reversal
      /\ undo \in Entries /\ undo.invoice = number /\ undo.effect = 0 - total /\ undo.reversal
  <2>1. -total \in Int /\ -total = 0 - total /\ -1 \in Int /\ -1 = 0 - 1
    BY <1>2
  <2>. QED
    BY <1>2, <1>3, <2>1 DEF Entry, Entries
<1>5. journal' = IF completed THEN j4 ELSE j3
  <2>1. \A a, b \in Entries, js \in Seq(Entries) :
           /\ js \o <<a, b, b>> = Append(Append(Append(js, a), b), b)
           /\ js \o <<a, b, b>> \in Seq(Entries)
    OBVIOUS
  <2>2. \A a \in Entries, js \in Seq(Entries) : js \o <<a>> = Append(js, a) /\ js \o <<>> = js
    OBVIOUS
  <2>. HIDE DEF sale, less, undo
  <2>3. /\ journal \o <<sale, less, less>> = j3
        /\ journal \o <<sale, less, less>> \in Seq(Entries)
    BY <1>2, <1>4, <2>1
  <2>. DEFINE three == journal \o <<sale, less, less>>
  <2>. HIDE DEF three
  <2>4. three \in Seq(Entries) /\ three = j3
    BY <2>3 DEF three
  <2>5. three \o <<undo>> = Append(three, undo) /\ three \o <<>> = three
    BY <1>4, <2>2, <2>4
  <2>6. journal' = IF completed THEN three \o <<undo>> ELSE three \o <<>>
    BY <1>1, Zenon DEF three
  <2>. QED
    BY <2>4, <2>5, <2>6, Zenon
<1>6. /\ first \in Invoices /\ first.number = number /\ first.validated /\ first.total = total
      /\ first.paid = 1 /\ first.credited = 1
  BY <1>2, <1>3 DEF Invoices, InvoiceStatus
\* As the invoice was before it was paid, and after its payment.
<1>. DEFINE sold == [first EXCEPT !.paid = 0, !.credited = 0]
            paid == [first EXCEPT !.credited = 0]
<1>7. /\ sold \in Invoices /\ sold.number = number /\ sold.validated /\ sold.total = total
      /\ sold.paid = 0 /\ sold.credited = 0
      /\ paid \in Invoices /\ paid.number = number /\ paid.validated /\ paid.total = total
      /\ paid.paid = 1 /\ paid.credited = 0
  BY <1>2, <1>3 DEF Invoices, InvoiceStatus
<1>8. /\ inv \in Invoices /\ inv.number = number /\ inv.validated /\ inv.total = total
      /\ inv.paid = 1 /\ inv.credited = 1
  <2>. HIDE DEF first
  <2>1. /\ settled \in Invoices /\ settled.number = number /\ settled.validated
        /\ settled.total = total /\ settled.paid = 1 /\ settled.credited = 1
    BY <1>6 DEF WithStatus, Invoices, InvoiceStatus
  <2>. HIDE DEF settled
  <2>. DEFINE void == [settled EXCEPT !.status = "VOID"]
  <2>2. /\ void \in Invoices /\ void.number = number /\ void.validated
        /\ void.total = total /\ void.paid = 1 /\ void.credited = 1
    BY <2>1 DEF Invoices, InvoiceStatus
  <2>. HIDE DEF void
  <2>. QED
    BY <2>1, <2>2 DEF void
<1>. HIDE DEF inv, first, sold, paid, sale, less, undo, settled, number, next
<1>9. /\ j1 \in Seq(Entries) /\ j2 \in Seq(Entries) /\ j3 \in Seq(Entries) /\ j4 \in Seq(Entries)
  BY <1>2, <1>4
<1>10. Booked(j1, sold)
  BY <1>2, <1>3, <1>4, <1>7, BookedSale
<1>. HIDE DEF j1
<1>11. Booked(j2, paid)
  <2>1. paid.paid = sold.paid + 1 /\ paid.credited = sold.credited
    BY <1>7
  <2>. QED
    BY <1>4, <1>7, <1>9, <1>10, <2>1, BookedSettlement
<1>12. Booked(j3, inv)
  <2>. HIDE DEF j2
  <2>1. inv.paid = paid.paid /\ inv.credited = paid.credited + 1
    BY <1>7, <1>8
  <2>. QED
    BY <1>4, <1>7, <1>8, <1>9, <1>11, <2>1, BookedSettlement
<1>13. ~Reversed(j3, number)
  <2>1. ~Reversed(journal, number)
    BY <1>2, <1>3, NoEntries
  <2>2. ~Reversed(j1, number)
    BY <1>2, <1>4, <2>1, NotReversed DEF j1
  <2>3. ~Reversed(j2, number)
    BY <1>4, <1>9, <2>2, NotReversed
  <2>. HIDE DEF j2
  <2>. QED
    BY <1>4, <1>9, <2>3, NotReversed
<1>14. Booked(j4, inv)
  <2>. HIDE DEF j3
  <2>. QED
    BY <1>4, <1>8, <1>9, <1>12, <1>13, BookedReversal
<1>15. Booked(journal', inv)
  BY <1>5, <1>12, <1>14
<1>16. ASSUME NEW i \in DOMAIN invoices
       PROVE  Booked(j3, invoices[i]) /\ Booked(j4, invoices[i])
  <2>1. /\ Booked(journal, invoices[i]) /\ invoices[i] \in Invoices
        /\ number # invoices[i].number
    BY <1>2, <1>3 DEF LedgerInv
  <2>2. Booked(j1, invoices[i])
    BY <1>2, <1>4, <2>1, BookedElsewhere DEF j1
  <2>3. Booked(j2, invoices[i])
    BY <1>4, <1>9, <2>1, <2>2, BookedElsewhere
  <2>. HIDE DEF j2
  <2>4. Booked(j3, invoices[i])
    BY <1>4, <1>9, <2>1, <2>3, BookedElsewhere
  <2>. HIDE DEF j3
  <2>5. Booked(j4, invoices[i])
    BY <1>4, <1>9, <2>1, <2>4, BookedElsewhere
  <2>. QED
    BY <2>4, <2>5
<1>17. Within(EntryNumbers(journal'), last)
  <2>1. Within(EntryNumbers(j1), next)
    BY <1>2, <1>3, <1>4, EntryWithin DEF j1
  <2>2. Within(EntryNumbers(j2), next)
    BY <1>3, <1>4, <1>9, <2>1, EntryWithin
  <2>. HIDE DEF j2
  <2>3. Within(EntryNumbers(j3), next)
    BY <1>3, <1>4, <1>9, <2>2, EntryWithin
  <2>. HIDE DEF j3
  <2>4. Within(EntryNumbers(j4), next)
    BY <1>3, <1>4, <1>9, <2>3, EntryWithin
  <2>. HIDE DEF j4
  <2>5. journal' \in Seq(Entries) /\ Within(EntryNumbers(journal'), next)
    BY <1>5, <1>9, <2>3, <2>4
  <2>. QED
    BY <1>2, <1>3, <2>5, EffectType, StillWithin
<1>18. \A i \in DOMAIN invoices : Booked(journal', invoices[i])
  BY <1>5, <1>16
<1>. HIDE DEF last
<1>. QED
  BY <1>1, <1>8, <1>15, <1>17, <1>18, LedgerGrows

\* A voided entry still counts in the sum over all entries.
LEMMA VoidedLedger ==
    ASSUME NEW js \in Seq(Entries), NEW x \in DOMAIN js, NEW after,
           after = [js EXCEPT ![x].void = TRUE]
    PROVE  /\ EntryNumbers(after) = EntryNumbers(js)
           /\ \A inv : Booked(js, inv) => Booked(after, inv)
<1>1. /\ DOMAIN after = DOMAIN js
      /\ \A e \in DOMAIN js : /\ after[e].invoice = js[e].invoice
                              /\ after[e].effect = js[e].effect
                              /\ after[e].reversal = js[e].reversal
  BY EntryVoided
<1>2. EntryNumbers(after) = EntryNumbers(js)
  BY <1>1 DEF EntryNumbers
<1>3. ASSUME NEW n
      PROVE  Ledger(after, n) = Ledger(js, n) /\ (Reversed(after, n) <=> Reversed(js, n))
  <2>1. EffectOn(after, n) = EffectOn(js, n)
    BY <1>1 DEF EffectOn
  <2>. QED
    BY <1>1, <2>1 DEF Ledger, Reversed
<1>. QED
  BY <1>2, <1>3 DEF Booked

LEMMA LedgerOtherSteps ==
    ASSUME BillingInv, LedgerInv,
           \/ \E i \in DOMAIN invoices : RefuseCreditNote(i)
           \/ \E prefix \in Prefixes : IssueOtherDocument(prefix)
           \/ \E e \in DOMAIN journal : VoidJournalEntry(e)
           \/ UpdateDocumentNumberingSetting \/ UpsertFiscalPeriod \/ ResetSampleModule
           \/ UNCHANGED billingVars
    PROVE  LedgerInv'
<1>1. /\ counters \in [Prefixes -> Nat] /\ creditPrefix \in Prefixes
      /\ journal \in Seq(Entries) /\ EntryNumbers(journal) \in Seq(Numbers)
  BY EffectType DEF BillingInv, BillingTypeOK
<1>2. /\ journal' = journal \/ \E e \in DOMAIN journal : journal' = [journal EXCEPT ![e].void = TRUE]
      /\ counters' = counters \/ \E p \in Prefixes : counters' = Bump(counters, p)
      /\ invoices' = invoices \/ invoices' = <<>>
  BY <1>1
     DEF RefuseCreditNote, IssueOtherDocument, VoidJournalEntry, TakenElsewhere, Taken,
         UpdateDocumentNumberingSetting, UpsertFiscalPeriod, ResetSampleModule, billingVars
<1>3. Within(EntryNumbers(journal), counters')
  BY <1>1, <1>2, StillWithin DEF LedgerInv
<1>4. /\ EntryNumbers(journal') = EntryNumbers(journal)
      /\ \A inv : Booked(journal, inv) => Booked(journal', inv)
  BY <1>1, <1>2, VoidedLedger
<1>. QED
  BY <1>2, <1>3, <1>4 DEF LedgerInv

-----------------------------------------------------------------------------
\* What a customer owes, added up over all invoices.

Due(inv, c) == IF inv.customer = c /\ inv.status # "VOID" THEN Open(inv) ELSE 0
DueOf(is, c) == [i \in DOMAIN is |-> Due(is[i], c)]
Owed(is, c) == SumFunction(DueOf(is, c))

LEMMA DueType ==
    ASSUME NEW is \in Seq(Invoices), NEW c
    PROVE  /\ IsFiniteSet(DOMAIN is)
           /\ DueOf(is, c) \in [DOMAIN is -> Int]
           /\ Owed(is, c) \in Int
<1>. DEFINE f == DueOf(is, c)
<1>1. IsFiniteSet(DOMAIN is)
  <2>1. DOMAIN is = 1..Len(is) /\ Len(is) \in Nat
    OBVIOUS
  <2>. QED
    BY <2>1, FS_Interval
<1>2. f \in [DOMAIN is -> Int]
  <2>1. ASSUME NEW inv \in Invoices
        PROVE  Due(inv, c) \in Int
    BY BillingAssumption DEF Due, Open, Invoices, Amounts
  <2>2. \A i \in DOMAIN is : is[i] \in Invoices
    OBVIOUS
  <2>. QED
    BY <2>1, <2>2 DEF DueOf
<1>. HIDE DEF f
<1>3. SumFunction(f) \in Int
  BY ONLY <1>1, <1>2, SumType
<1>. QED
  BY <1>1, <1>2, <1>3 DEF f, Owed

LEMMA OwedSum ==
    ASSUME NEW is \in Seq(Invoices), NEW c
    PROVE  SumFunction([i \in {i \in DOMAIN is : is[i].customer = c /\ is[i].status # "VOID"}
                          |-> Open(is[i])]) = Owed(is, c)
<1>. DEFINE S == DOMAIN is
            T == {i \in DOMAIN is : is[i].customer = c /\ is[i].status # "VOID"}
            f == DueOf(is, c)
            g == [i \in T |-> Open(is[i])]
<1>1. IsFiniteSet(S) /\ f \in [S -> Int]
  BY DueType
<1>2. T \in SUBSET S /\ \A i \in S \ T : f[i] = 0
  BY DEF DueOf, Due
<1>3. g = [i \in T |-> f[i]]
  BY DEF DueOf, Due
<1>. HIDE DEF S, T, f, g
<1>4. SumFunction(g) = SumFunction(f)
  BY ONLY <1>1, <1>2, <1>3, SumSupport
<1>. QED
  BY <1>4 DEF g, f, T, Owed

LEMMA OwedAdded ==
    ASSUME NEW is \in Seq(Invoices), NEW inv \in Invoices, NEW c
    PROVE  Owed(Append(is, inv), c) = Owed(is, c) + Due(inv, c)
<1>. DEFINE n == Len(is)
            new == Append(is, inv)
            f == DueOf(is, c)
            g == DueOf(new, c)
<1>1. /\ new \in Seq(Invoices) /\ n \in Nat /\ DOMAIN is = 1..n /\ DOMAIN new = 1..n + 1
      /\ \A i \in 1..n : new[i] = is[i]
      /\ new[n + 1] = inv
  OBVIOUS
<1>. HIDE DEF new
<1>2. f \in [1..n -> Int] /\ g \in [1..n + 1 -> Int]
  BY <1>1, DueType
<1>3. /\ \A i \in 1..n : g[i] = f[i]
      /\ g[n + 1] = Due(inv, c)
  BY <1>1 DEF DueOf
<1>. HIDE DEF f, g, n
<1>4. SumFunction(g) = SumFunction(f) + g[n + 1]
  BY ONLY <1>1, <1>2, <1>3, SumAppend
<1>. QED
  BY <1>3, <1>4 DEF f, g, Owed, new

LEMMA OwedChanged ==
    ASSUME NEW is \in Seq(Invoices), NEW x \in DOMAIN is, NEW inv \in Invoices, NEW c
    PROVE  Owed([is EXCEPT ![x] = inv], c) = Owed(is, c) - Due(is[x], c) + Due(inv, c)
<1>. DEFINE S == DOMAIN is
            new == [is EXCEPT ![x] = inv]
            f == DueOf(is, c)
            g == DueOf(new, c)
<1>1. /\ new \in Seq(Invoices) /\ DOMAIN new = S /\ new[x] = inv
      /\ \A i \in S \ {x} : new[i] = is[i]
  OBVIOUS
<1>. HIDE DEF new
<1>2. IsFiniteSet(S) /\ f \in [S -> Int] /\ g \in [S -> Int]
  BY <1>1, DueType
<1>3. /\ \A i \in S \ {x} : g[i] = f[i]
      /\ g[x] = Due(inv, c) /\ f[x] = Due(is[x], c)
  BY <1>1 DEF DueOf
<1>4. x \in S
  OBVIOUS
<1>. HIDE DEF f, g, S
<1>5. SumFunction(g) = SumFunction(f) - f[x] + g[x]
  BY ONLY <1>2, <1>3, <1>4, SumChange
<1>. QED
  BY <1>3, <1>5 DEF f, g, Owed, new

\* The credit limit of c, when it is set, is passed by a draft of c only.
LimitStep(c) ==
    /\ CreditLimit[c] > 0
    /\ Owed(invoices', c) > CreditLimit[c]
    /\ Owed(invoices', c) > Owed(invoices, c)
    => \E t \in Amounts : GenerateServiceContractDraftInvoices(c, t)

\* A step that adds an invoice of customer d, on which nothing more is open than
\* its credit check was asked for.
LEMMA LimitChecked ==
    ASSUME BillingInv, NEW d \in Customers, NEW total \in Nat, CreditAvailable(d, total),
           NEW inv \in Invoices, inv.customer = d, Open(inv) <= total,
           invoices' = Append(invoices, inv), NEW c \in Customers
    PROVE  LimitStep(c)
<1>1. /\ invoices \in Seq(Invoices) /\ CreditLimit[c] \in Nat /\ CreditLimit[d] \in Nat
  BY BillingAssumption DEF BillingInv, BillingTypeOK
<1>2. Owed(invoices', c) = Owed(invoices, c) + Due(inv, c) /\ Owed(invoices, c) \in Int
  BY <1>1, OwedAdded, DueType
<1>3. Open(inv) \in Int
  BY BillingAssumption DEF Open, Invoices, Amounts
<1>4. CASE c = d
  <2>1. CreditLimit[c] = 0 \/ Owed(invoices, c) + total <= CreditLimit[c]
    BY <1>1, <1>4, OwedSum DEF CreditAvailable, OpenBalance
  <2>2. Due(inv, c) = 0 \/ Due(inv, c) = Open(inv)
    BY DEF Due
  <2>. QED
    BY <1>1, <1>2, <1>3, <2>1, <2>2 DEF LimitStep
<1>5. CASE c # d
  <2>1. Due(inv, c) = 0
    BY <1>5 DEF Due
  <2>. QED
    BY <1>2, <2>1 DEF LimitStep
<1>. QED
  BY <1>4, <1>5

LEMMA OpenType ==
    ASSUME NEW inv \in Invoices
    PROVE  /\ inv.total \in Int /\ inv.paid \in Nat /\ inv.credited \in Nat
           /\ Open(inv) \in Int /\ \A c : Due(inv, c) \in Int
<1>1. inv.total \in Int /\ inv.paid \in Nat /\ inv.credited \in Nat
  BY BillingAssumption DEF Invoices, Amounts
<1>2. Open(inv) \in Int
  BY <1>1 DEF Open
<1>. QED
  BY <1>1, <1>2 DEF Due

\* Payments and credit notes leave no customer with more to pay.
LEMMA LimitSettled ==
    ASSUME BillingInv, NEW i \in DOMAIN invoices, NEW amount \in Amounts,
           RecordPayment(i, amount) \/ CreateCreditNote(i, amount), NEW c \in Customers
    PROVE  LimitStep(c)
<1>. DEFINE paid == WithStatus([invoices[i] EXCEPT !.paid = @ + amount])
            credited == WithStatus([invoices[i] EXCEPT !.credited = @ + amount])
<1>1. /\ invoices[i] \in Invoices /\ Right(invoices[i]) /\ invoices \in Seq(Invoices)
      /\ amount \in Nat
  BY AnInvoice, BillingAssumption DEF BillingInv, BillingTypeOK, Amounts
<1>2. PICK new \in Invoices :
         /\ invoices' = [invoices EXCEPT ![i] = new]
         /\ new \in {paid, credited}
  <2>1. CASE RecordPayment(i, amount)
    BY <1>1, <2>1, PaidRight DEF RecordPayment
  <2>2. CASE CreateCreditNote(i, amount)
    BY <1>1, <2>2, CreditedRight DEF CreateCreditNote
  <2>. QED
    BY <2>1, <2>2
<1>3. /\ new.customer = invoices[i].customer /\ new.total = invoices[i].total
      /\ new.status = IF Settled(new) THEN "PAID" ELSE invoices[i].status
      /\ \/ new.paid = invoices[i].paid + amount /\ new.credited = invoices[i].credited
         \/ new.paid = invoices[i].paid /\ new.credited = invoices[i].credited + amount
  BY <1>1, <1>2, SettlementFields
<1>. HIDE DEF paid, credited
<1>. DEFINE old == invoices[i]
<1>4. /\ old.total \in Int /\ old.paid \in Nat /\ old.credited \in Nat
      /\ new.total \in Int /\ new.paid \in Nat /\ new.credited \in Nat
      /\ Open(old) \in Int /\ Open(new) \in Int /\ Due(old, c) \in Int /\ Due(new, c) \in Int
  BY <1>1, OpenType
<1>5. Open(new) <= Open(old)
  <2>1. CASE new.paid = old.paid + amount /\ new.credited = old.credited
    BY <1>1, <1>3, <1>4, <2>1 DEF Open
  <2>2. CASE new.paid = old.paid /\ new.credited = old.credited + amount
    BY <1>1, <1>3, <1>4, <2>2 DEF Open
  <2>. QED
    BY <1>3, <2>1, <2>2
\* A cancelled invoice that is paid in full counts again, for nothing.
<1>6. Settled(new) => Open(new) <= 0
  BY <1>4 DEF Settled, Open
<1>7. Due(new, c) <= Due(old, c)
  <2>1. CASE old.customer = c /\ old.status # "VOID"
    BY <1>4, <1>5, <1>3, <2>1 DEF Due
  <2>2. CASE old.customer = c /\ old.status = "VOID"
    BY <1>3, <1>4, <1>6, <2>2 DEF Due
  <2>3. CASE old.customer # c
    BY <1>3, <2>3 DEF Due
  <2>. QED
    BY <2>1, <2>2, <2>3
<1>8. /\ Owed(invoices', c) = Owed(invoices, c) - Due(old, c) + Due(new, c)
      /\ Owed(invoices, c) \in Int
  BY <1>1, <1>2, OwedChanged, DueType
<1>. HIDE DEF old
<1>9. ~(Owed(invoices', c) > Owed(invoices, c))
  BY <1>4, <1>7, <1>8
<1>. QED
  BY <1>9 DEF LimitStep

LEMMA LimitSteps ==
    ASSUME BillingInv, [BillingNext]_billingVars, NEW c \in Customers
    PROVE  LimitStep(c)
<1>0. /\ invoices \in Seq(Invoices) /\ Owed(invoices, c) \in Int /\ CreditLimit[c] \in Nat
      /\ \A total \in Amounts : total \in Nat
      /\ Take(invoicePrefix) \in Numbers
  <2>1. counters \in [Prefixes -> Nat] /\ invoicePrefix \in Prefixes
    BY DEF BillingInv, BillingTypeOK
  <2>. QED
    BY <2>1, DueType, BillingAssumption, NextNumber
       DEF BillingInv, BillingTypeOK, Amounts, Take
<1>1. ASSUME NEW d \in Customers, NEW total \in Amounts, CreateInvoice(d, total)
      PROVE  LimitStep(c)
  <2>. DEFINE number == Take(invoicePrefix)
              inv == [number |-> number, customer |-> d, status |-> "POSTED",
                      validated |-> TRUE, total |-> total, paid |-> 0, credited |-> 0]
  <2>1. total \in Nat /\ number \in Numbers
    BY <1>0
  <2>2. CreditAvailable(d, total) /\ invoices' = Append(invoices, inv)
    BY <1>1 DEF CreateInvoice
  <2>3. inv \in Invoices /\ inv.customer = d /\ Open(inv) <= total
    BY <2>1 DEF Invoices, InvoiceStatus, Open
  <2>. HIDE DEF inv
  <2>. QED
    BY <2>1, <2>2, <2>3, LimitChecked
<1>2. ASSUME NEW d \in Customers, NEW total \in Amounts,
             GenerateServiceContractDraftInvoices(d, total)
      PROVE  LimitStep(c)
  <2>. DEFINE number == Take(invoicePrefix)
              inv == [number |-> number, customer |-> d, status |-> "DRAFT",
                      validated |-> FALSE, total |-> total, paid |-> 0, credited |-> 0]
  <2>1. CASE c = d
    BY <1>2, <2>1 DEF LimitStep
  <2>2. CASE c # d
    <3>1. number \in Numbers
      BY <1>0
    <3>2. inv \in Invoices /\ inv.customer = d /\ invoices' = Append(invoices, inv)
      BY <1>2, <3>1 DEF GenerateServiceContractDraftInvoices, Invoices, InvoiceStatus
    <3>. HIDE DEF inv
    <3>3. Owed(invoices', c) = Owed(invoices, c) + Due(inv, c)
      BY <1>0, <3>2, OwedAdded
    <3>4. Due(inv, c) = 0
      BY <2>2, <3>2 DEF Due
    <3>5. ~(Owed(invoices', c) > Owed(invoices, c))
      BY <1>0, <3>3, <3>4
    <3>. QED
      BY <3>5 DEF LimitStep
  <2>. QED
    BY <2>1, <2>2
<1>3. ASSUME NEW d \in Customers, NEW total \in Amounts, NEW completed \in BOOLEAN,
             MoroccoScaleControlsReadiness(d, total, completed)
      PROVE  LimitStep(c)
  <2>. DEFINE number == Number(Bump(counters, invoicePrefix), invoicePrefix)
              first == [number |-> number, customer |-> d, status |-> "POSTED",
                        validated |-> TRUE, total |-> total, paid |-> 1, credited |-> 1]
              settled == WithStatus(first)
              inv == IF completed THEN [settled EXCEPT !.status = "VOID"] ELSE settled
  <2>1. total \in Nat /\ number \in Numbers
    BY <1>0 DEF Take
  <2>2. CreditAvailable(d, total) /\ invoices' = Append(invoices, inv)
    BY <1>3 DEF MoroccoScaleControlsReadiness
  <2>3. /\ first \in Invoices /\ first.customer = d /\ first.total = total
        /\ first.paid = 1 /\ first.credited = 1
    BY <2>1 DEF Invoices, InvoiceStatus
  <2>. HIDE DEF first
  <2>4. /\ settled \in Invoices /\ settled.customer = d /\ settled.total = total
        /\ settled.paid = 1 /\ settled.credited = 1
    BY <2>3 DEF WithStatus, Invoices, InvoiceStatus
  <2>. HIDE DEF settled
  <2>. DEFINE void == [settled EXCEPT !.status = "VOID"]
  <2>5. /\ void \in Invoices /\ void.customer = d /\ void.total = total
        /\ void.paid = 1 /\ void.credited = 1
    BY <2>4 DEF Invoices, InvoiceStatus
  <2>. HIDE DEF void
  <2>6. inv \in Invoices /\ inv.customer = d /\ Open(inv) <= total
    BY <2>1, <2>4, <2>5 DEF Open, void
  <2>. HIDE DEF inv
  <2>. QED
    BY <2>1, <2>2, <2>6, LimitChecked
<1>4. ASSUME invoices' = invoices
      PROVE  LimitStep(c)
  BY <1>0, <1>4 DEF LimitStep
<1>5. ASSUME invoices' = <<>>
      PROVE  LimitStep(c)
  <2>1. <<>> \in Seq(Invoices) /\ DOMAIN <<>> = {}
    OBVIOUS
  <2>2. DueOf(<<>>, c) \in [{} -> Int]
    BY <2>1, DueType
  <2>3. Owed(<<>>, c) = 0
    BY <2>2, SumEmpty DEF Owed
  <2>. QED
    BY <1>0, <1>5, <2>3 DEF LimitStep
<1>6. \/ \E d \in Customers, total \in Amounts :
            CreateInvoice(d, total) \/ GenerateServiceContractDraftInvoices(d, total)
      \/ \E i \in DOMAIN invoices, amount \in Amounts :
            RecordPayment(i, amount) \/ CreateCreditNote(i, amount)
      \/ \E d \in Customers, total \in Amounts, completed \in BOOLEAN :
            MoroccoScaleControlsReadiness(d, total, completed)
      \/ invoices' = invoices \/ invoices' = <<>>
  BY DEF BillingNext, RefuseCreditNote, IssueOtherDocument, VoidJournalEntry,
         UpdateDocumentNumberingSetting, UpsertFiscalPeriod, ResetSampleModule, billingVars
<1>. QED
  BY <1>1, <1>2, <1>3, <1>4, <1>5, <1>6, LimitSettled

-----------------------------------------------------------------------------
LEMMA BillingInitially == BillingInit => BillingInv
<1>. SUFFICES ASSUME BillingInit
              PROVE  BillingInv
  OBVIOUS
<1>1. InvoiceNumbers = <<>> /\ InvoicesInv
  BY DEF BillingInit, InvoiceNumbers, InvoicesInv
<1>2. counters \in [Prefixes -> Nat]
  BY DEF BillingInit
<1>3. Numbered(<<>>, <<>>, {}, counters)
  BY <1>2 DEF Numbered, Within, Below, Distinct, Continuous
<1>. QED
  BY <1>1, <1>2, <1>3 DEF BillingInit, BillingInv, BillingTypeOK

LEMMA BillingSteps == BillingInv /\ [BillingNext]_billingVars => BillingInv' /\ LockedStep
<1>. SUFFICES ASSUME BillingInv, [BillingNext]_billingVars
              PROVE  Goal
  BY DEF Goal
<1>. QED
  BY InvoiceSteps, PaymentSteps, CreditNoteSteps, ElsewhereSteps, ControlSteps, OtherSteps
     DEF BillingNext

LEMMA BillingInvHolds == BillingSpec => []BillingInv
<1>1. BillingInv /\ [BillingNext]_billingVars => BillingInv'
  BY BillingSteps
<1>. QED
  BY <1>1, BillingInitially, PTL DEF BillingSpec

\* The type of the documents, the counters and the journal (Invoice, CreditNote,
\* SequenceState and JournalEntry in erp.types.ts).
THEOREM BillingTypeCorrect == BillingSpec => []BillingTypeOK
<1>1. BillingInv => BillingTypeOK
  BY DEF BillingInv
<1>. QED
  BY <1>1, BillingInvHolds, PTL

\* No number is ever given twice, whatever series the settings name, and from any
\* invoice on a number of its series is that of an invoice, or another document
\* or a credit note took it (nextNumber, withRollback of createInvoice,
\* updateDocumentNumberingSetting).
THEOREM NumbersSound == BillingSpec => []NumberingSound
<1>1. BillingInv => NumberingSound
  <2>. SUFFICES ASSUME BillingInv
                PROVE  NumberingSound
    OBVIOUS
  <2>1. /\ DOMAIN InvoiceNumbers = DOMAIN invoices
        /\ \A i \in DOMAIN invoices : InvoiceNumbers[i] = invoices[i].number
    BY DEF InvoiceNumbers
  <2>2. NumbersUnique
    BY <2>1 DEF BillingInv, Numbered, Distinct, NumbersUnique
  <2>3. NoNumberLost
    BY <2>1 DEF BillingInv, Numbered, Continuous, NoNumberLost
  <2>. QED
    BY <2>2, <2>3 DEF NumberingSound
<1>. QED
  BY <1>1, BillingInvHolds, PTL

\* Payments and credit notes each stay within the invoice, which is PAID exactly
\* when they cover it (recordPayment, createCreditNote).
THEOREM PaymentsAlwaysSettle == BillingSpec => []PaymentsSettle
<1>1. BillingInv => PaymentsSettle
  BY DEF BillingInv, InvoicesInv, Right, PaymentsSettle
<1>. QED
  BY <1>1, BillingInvHolds, PTL

\* A locked period posts nothing and changes no invoice (assertPeriodOpen).
THEOREM LockedPeriodStaysFrozen == BillingSpec => LockedPeriodFreezesLedger
<1>1. BillingInv /\ [BillingNext]_billingVars => [LockedStep]_billingVars
  BY BillingSteps
<1>. QED
  BY <1>1, BillingInvHolds, PTL DEF BillingSpec, LockedPeriodFreezesLedger, LockedStep

LEMMA LedgerSteps == BillingInv /\ LedgerInv /\ [BillingNext]_billingVars => LedgerInv'
<1>. SUFFICES ASSUME BillingInv, LedgerInv, [BillingNext]_billingVars
              PROVE  LedgerInv'
  OBVIOUS
<1>. QED
  BY LedgerInvoiceSteps, LedgerSettlementSteps, ControlEntries, LedgerOtherSteps
     DEF BillingNext

\* The sum over a set of entries is that over a part of it and that over the rest.
LEMMA PartsOfSum ==
    ASSUME NEW S, IsFiniteSet(S), NEW f \in [S -> Int], NEW T \in SUBSET S
    PROVE  LET a == SumFunction([e \in T |-> f[e]])
               b == SumFunction([e \in S \ T |-> f[e]]) IN
           SumFunction(f) = a + b /\ a \in Int /\ b \in Int
<1>. DEFINE U == S \ T
            g == [e \in S |-> IF e \in T THEN f[e] ELSE 0]
            h == [e \in S |-> IF e \in T THEN 0 ELSE f[e]]
            sum == [e \in S |-> g[e] + h[e]]
<1>1. g \in [S -> Int] /\ h \in [S -> Int]
  OBVIOUS
<1>2. sum = f
  <2>1. \A e \in S : sum[e] = f[e]
    OBVIOUS
  <2>2. f = [e \in S |-> f[e]] /\ sum = [e \in S |-> sum[e]]
    OBVIOUS
  <2>. QED
    BY <2>1, <2>2
<1>3. /\ \A e \in S \ T : g[e] = 0
      /\ \A e \in S \ U : h[e] = 0
      /\ U \in SUBSET S
  OBVIOUS
<1>4. [e \in T |-> g[e]] = [e \in T |-> f[e]] /\ [e \in U |-> h[e]] = [e \in U |-> f[e]]
  OBVIOUS
<1>. HIDE DEF g, h, U
<1>5. SumFunction(sum) = SumFunction(g) + SumFunction(h)
  BY ONLY <1>1, IsFiniteSet(S), SumAdd
<1>6. SumFunction(g) \in Int /\ SumFunction(h) \in Int
  BY ONLY <1>1, IsFiniteSet(S), SumType
<1>7. SumFunction([e \in T |-> g[e]]) = SumFunction(g)
  BY ONLY <1>1, <1>3, IsFiniteSet(S), T \in SUBSET S, SumSupport
<1>8. SumFunction([e \in U |-> h[e]]) = SumFunction(h)
  BY ONLY <1>1, <1>3, IsFiniteSet(S), SumSupport
<1>. QED
  BY <1>2, <1>4, <1>5, <1>6, <1>7, <1>8 DEF U

LEMMA PartsOfLedger ==
    ASSUME journal \in Seq(Entries), NEW i
    PROVE  /\ EffectOf(EntriesOf(i))
                = EffectOf(VoidedOf(i)) + EffectOf(EntriesOf(i) \ VoidedOf(i))
           /\ EffectOf(VoidedOf(i)) \in Int /\ EffectOf(EntriesOf(i) \ VoidedOf(i)) \in Int
<1>. DEFINE S == EntriesOf(i)
            T == VoidedOf(i)
            f == [e \in S |-> journal[e].effect]
<1>1. IsFiniteSet(S)
  <2>1. IsFiniteSet(DOMAIN journal) /\ S \in SUBSET DOMAIN journal
    BY EffectType DEF EntriesOf
  <2>. QED
    BY <2>1, FS_Subset
<1>2. f \in [S -> Int]
  <2>1. \A e \in S : journal[e] \in Entries
    BY DEF EntriesOf
  <2>. QED
    BY <2>1 DEF Entries
<1>3. T \in SUBSET S
  BY DEF VoidedOf
<1>4. /\ [e \in T |-> f[e]] = [e \in T |-> journal[e].effect]
      /\ [e \in S \ T |-> f[e]] = [e \in S \ T |-> journal[e].effect]
  BY <1>3
<1>5. EffectOf(S) = SumFunction(f)
  BY DEF EffectOf
<1>. HIDE DEF S, T, f
<1>6. LET a == SumFunction([e \in T |-> f[e]])
          b == SumFunction([e \in S \ T |-> f[e]]) IN
      SumFunction(f) = a + b /\ a \in Int /\ b \in Int
  BY ONLY <1>1, <1>2, <1>3, PartsOfSum
<1>7. EffectOf(T) = SumFunction([e \in T |-> f[e]]) /\ EffectOf(S \ T) = SumFunction([e \in S \ T |-> f[e]])
  BY <1>4 DEF EffectOf
<1>. QED
  BY <1>5, <1>6, <1>7 DEF S, T

\* The customer entries of an invoice that are not void add up to what the invoice
\* itself says is open, but for those somebody voided, whatever was paid, credited,
\* cancelled or refused before (createInvoice, recordPayment, createCreditNote, the
\* postings they make, voidJournalEntry).
THEOREM LedgerAlwaysAgrees == BillingSpec => []LedgerAgrees
<1>1. BillingInit => LedgerInv
  <2>. SUFFICES ASSUME BillingInit PROVE LedgerInv
    OBVIOUS
  <2>1. DOMAIN EntryNumbers(journal) = {} /\ DOMAIN invoices = {}
    BY DEF BillingInit, EntryNumbers
  <2>. QED
    BY <2>1 DEF LedgerInv, Within
<1>2. BillingInv /\ LedgerInv => LedgerAgrees
  <2>. SUFFICES ASSUME BillingInv, LedgerInv, NEW i \in DOMAIN invoices
                PROVE  EffectOf(EntriesOf(i) \ VoidedOf(i))
                         = (IF /\ invoices[i].validated
                               /\ \A e \in EntriesOf(i) : ~journal[e].reversal
                            THEN invoices[i].total ELSE 0)
                             - invoices[i].paid - invoices[i].credited - EffectOf(VoidedOf(i))
    BY DEF LedgerAgrees
  <2>. DEFINE n == invoices[i].number
              due == IF /\ invoices[i].validated
                        /\ \A e \in EntriesOf(i) : ~journal[e].reversal
                     THEN invoices[i].total ELSE 0
              paid == invoices[i].paid
              credited == invoices[i].credited
  <2>1. Booked(journal, invoices[i]) /\ journal \in Seq(Entries)
    BY DEF LedgerInv, BillingInv, BillingTypeOK
  <2>2. EffectOf(EntriesOf(i)) = Ledger(journal, n)
    BY <2>1, LedgerSum DEF EntriesOf, EffectOf
  <2>3. Reversed(journal, n) <=> ~ \A e \in EntriesOf(i) : ~journal[e].reversal
    BY DEF Reversed, EntriesOf
  <2>4. due \in Int /\ paid \in Int /\ credited \in Int
    BY AnInvoice, BillingAssumption DEF BillingInv, Invoices, Amounts
  <2>5. EffectOf(EntriesOf(i)) = due - paid - credited
    BY <2>1, <2>2, <2>3 DEF Booked
  <2>6. /\ EffectOf(EntriesOf(i)) = EffectOf(VoidedOf(i)) + EffectOf(EntriesOf(i) \ VoidedOf(i))
        /\ EffectOf(VoidedOf(i)) \in Int /\ EffectOf(EntriesOf(i) \ VoidedOf(i)) \in Int
    BY <2>1, PartsOfLedger
  <2>. HIDE DEF due, paid, credited
  <2>7. EffectOf(EntriesOf(i) \ VoidedOf(i)) = due - paid - credited - EffectOf(VoidedOf(i))
    BY <2>4, <2>5, <2>6
  <2>. QED
    BY <2>7 DEF due, paid, credited
<1>. QED
  BY <1>1, <1>2, LedgerSteps, BillingInvHolds, PTL DEF BillingSpec

\* No customer's balance passes the credit limit but by the drafts of service
\* contracts (assertCustomerCreditAvailable, customerOpenBalance).
THEOREM LimitAlwaysHolds == BillingSpec => LimitHolds
<1>1. BillingInv /\ [BillingNext]_billingVars
        => [\A c \in Customers :
              /\ CreditLimit[c] > 0
              /\ OpenBalance(c)' > CreditLimit[c]
              /\ OpenBalance(c)' > OpenBalance(c)
              => \E t \in Amounts : GenerateServiceContractDraftInvoices(c, t)]_billingVars
  <2>. SUFFICES ASSUME BillingInv, [BillingNext]_billingVars, NEW c \in Customers,
                       CreditLimit[c] > 0, OpenBalance(c)' > CreditLimit[c],
                       OpenBalance(c)' > OpenBalance(c)
                PROVE  \E t \in Amounts : GenerateServiceContractDraftInvoices(c, t)
    OBVIOUS
  <2>1. invoices \in Seq(Invoices) /\ invoices' \in Seq(Invoices)
    BY BillingSteps DEF BillingInv, BillingTypeOK
  <2>2. OpenBalance(c) = Owed(invoices, c)
    BY <2>1, OwedSum DEF OpenBalance
  <2>3. OpenBalance(c)' = Owed(invoices', c)
    BY <2>1, OwedSum DEF OpenBalance
  <2>4. LimitStep(c)
    BY LimitSteps
  <2>. QED
    BY <2>2, <2>3, <2>4 DEF LimitStep
<1>. QED
  BY <1>1, BillingInvHolds, PTL DEF BillingSpec, LimitHolds
=============================================================================
