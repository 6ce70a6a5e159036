----------------------------- MODULE Restaurant -----------------------------
(***************************************************************************)
(* The restaurant simulation (c++/spl/resturant): one command at a time    *)
(* opens a table with a party, takes the orders of a table, moves a        *)
(* customer, closes a table, prints, backs the whole restaurant up,        *)
(* restores it, and closes everything.                                     *)
(*                                                                         *)
(* Customers are heap objects that a table's list and the logged OpenTable *)
(* action both point to, so the model keeps a heap: a customer is a place  *)
(* in cust, and a deleted one stays there with alive = FALSE.  Dish d is   *)
(* the d-th of the menu (the code counts from 0), NoDish is its -1.        *)
(*                                                                         *)
(* Where the C++ leaves the language (a read through a null or deleted     *)
(* customer, menu[0] of an empty menu, a second delete) the program is     *)
(* "crashed"; where only memory after a vector decides, both outcomes are  *)
(* steps.  tables.at(i) with a bad i is an exception nobody catches:       *)
(* "aborted".  Nothing is claimed after either.                            *)
(***************************************************************************)
EXTENDS Integers, Sequences, FiniteSets, SequencesExt, FiniteSetsExt

CONSTANTS
    NumTables,      \* tables 0 .. NumTables - 1
    Capacity,       \* Capacity[t]: the seats of table t
    Menus,          \* the menus the configuration file may hold
    Parties,        \* the lists of customer types "open" may be given
    MaxCustomers,   \* bound: customers (heap objects) ever made in a run
    MaxOrders,      \* bound: entries of one table's orderList
    MaxBelow        \* bound: how far below 0 currentCapacity is followed

NoDish == 0         \* the -1 of the policies
NullCust == 0       \* nullptr

ASSUME RestaurantAssumption ==
    /\ NumTables \in Nat \ {0} /\ Capacity \in [0 .. NumTables - 1 -> Nat]
    /\ MaxCustomers \in Nat /\ MaxOrders \in Nat /\ MaxBelow \in Nat

VARIABLES
    mode,           \* "run", "closed", "aborted", "crashed" or "exhausted"
    menu,           \* Seq of [type, price]; emptied by clear()
    table,          \* [open, cur, list, orders] for each table id
    cust,           \* the heap of Customer objects
    opened,         \* the OpenTable actions of actionsLog: [ok, who]
    customerCount,
    backup          \* nullptr or the copy made by BackupRestaurant

restaurantVars == <<mode, menu, table, cust, opened, customerCount, backup>>

Tables == 0 .. NumTables - 1
TypeNames == {"veg", "chp", "spc", "alc"}
NoBackup == [none |-> TRUE, opened |-> << >>]

-----------------------------------------------------------------------------
(* What each kind of customer orders (Customer.cpp): a scan of the menu    *)
(* that keeps the best dish so far.                                        *)

Scan(fits(_), Better(_, _)) ==
    FoldLeft(LAMBDA best, d : IF fits(d) /\ (best = NoDish \/ Better(d, best))
                              THEN d ELSE best,
             NoDish, [d \in 1 .. Len(menu) |-> d])

Price(d) == menu[d].price
Cheaper(d, e) == Price(d) < Price(e)
Dearer(d, e) == Price(d) > Price(e) \/ (Price(d) = Price(e) /\ d < e)
CheaperOrFirst(d, e) == Price(d) < Price(e) \/ (Price(d) = Price(e) /\ d < e)

VegetarianOrder(had) ==
    << Scan(LAMBDA d : menu[d].type = "VEG", LAMBDA d, e : d < e),
       Scan(LAMBDA d : menu[d].type = "BVG", Dearer) >>

\* Mutant: a cheap customer orders every time.
CheapOrderAgain(had) == << Scan(LAMBDA d : TRUE, Cheaper) >>

CheapOrder(had) ==
    IF had = {} THEN << Scan(LAMBDA d : TRUE, Cheaper) >> ELSE << >>

SpicyOrder(had) ==
    IF had = {} THEN << Scan(LAMBDA d : menu[d].type = "SPC", Dearer) >>
                ELSE << Scan(LAMBDA d : menu[d].type = "BVG", CheaperOrFirst) >>

AlchoholicOrder(had) ==
    << Scan(LAMBDA d : menu[d].type = "ALC" /\ d \notin had, Cheaper) >>

\* The dishes customer object c asks for now; c.had is what the object
\* remembers (ordered, firstOrder, idOrdered).
CustomerOrder(c) ==
    CASE c.type = "veg" -> VegetarianOrder(c.had)
      [] c.type = "chp" -> CheapOrder(c.had)
      [] c.type = "spc" -> SpicyOrder(c.had)
      [] c.type = "alc" -> AlchoholicOrder(c.had)

NewCustomer(type, id) == [id |-> id, type |-> type, alive |-> TRUE, had |-> {}]

\* Clone: the copy constructors take name and id, not what was ordered.
Clone(c) == NewCustomer(c.type, c.id)

-----------------------------------------------------------------------------
(* Table.cpp, as functions of a table record.                              *)

IsFull(t) == table[t].cur = Capacity[t]

AddCustomer(t, rec, c) ==
    IF rec.cur < Capacity[t]
    THEN [rec EXCEPT !.list = Append(@, c), !.cur = @ + 1]
    ELSE rec

\* A scan of the list for id reads through every pointer up to the match.
ReadsNull(list, id) ==
    \E i \in DOMAIN list :
        /\ list[i] = NullCust
        /\ \A j \in 1 .. i - 1 : list[j] # NullCust /\ cust[list[j]].id # id

At(list, id) == {i \in DOMAIN list : list[i] # NullCust /\ cust[list[i]].id = id}

GetCustomer(list, id) ==
    IF At(list, id) = {} THEN NullCust ELSE list[Min(At(list, id))]

OrdersOf(orders, id) == SelectSeq(orders, LAMBDA o : o[1] = id)

AddDishes(rec, id, dishes) == [rec EXCEPT !.orders = @ \o OrdersOf(dishes, id)]

CloseTable(rec) == [rec EXCEPT !.list = << >>, !.cur = 0, !.open = FALSE]

\* The objects that closing rec deletes.
Deleted(rec) == ToSet(rec.list) \ {NullCust}

Kill(gone) == [c \in DOMAIN cust |->
                 [cust[c] EXCEPT !.alive = @ /\ c \notin gone]]

\* Mutant: removeCustomer leaves the customer's orders on the old table.
UnseatKeepOrders(rec, id) ==
    [rec EXCEPT
       !.open = @ /\ rec.list # << >>,
       !.list = IF At(@, id) = {} THEN @ ELSE RemoveAt(@, Min(At(@, id))),
       !.cur = @ - 1]

\* removeCustomer up to its last test, and that test.
Unseat(rec, id) ==
    [rec EXCEPT
       !.open = @ /\ rec.list # << >>,
       !.list = IF At(@, id) = {} THEN @ ELSE RemoveAt(@, Min(At(@, id))),
       !.orders = SelectSeq(@, LAMBDA o : o[1] # id),
       !.cur = @ - 1]

\* Mutant: removeCustomer forgets to take the customer out of the list.
RemoveCustomerStays(rec, id) ==
    LET u == [Unseat(rec, id) EXCEPT !.list = rec.list]
    IN  IF u.cur = 0 THEN CloseTable(u) ELSE u

RemoveCustomer(rec, id) ==
    IF Unseat(rec, id).cur = 0 THEN CloseTable(Unseat(rec, id)) ELSE Unseat(rec, id)

-----------------------------------------------------------------------------
(* The commands of Restaurant::start.                                      *)

ClosedTable(o) == [open |-> o, cur |-> 0, list |-> << >>, orders |-> << >>]

\* Table(int) does not set open: it holds what the memory held.
RestaurantInit ==
    /\ mode = "run" /\ menu \in Menus
    /\ table \in [Tables -> {ClosedTable(o) : o \in BOOLEAN}]
    /\ cust = << >> /\ opened = << >> /\ customerCount = 0
    /\ backup = NoBackup

Running == mode = "run"

\* The process ends and its memory with it.
Stop(how) ==
    /\ mode' = how /\ menu' = << >> /\ cust' = << >> /\ opened' = << >>
    /\ customerCount' = 0 /\ backup' = NoBackup
    /\ table' = [t \in Tables |-> ClosedTable(FALSE)]

\* open t type...: a word that is no type makes no object and uses an id.
OpenTable(t, party) ==
    LET made == {i \in DOMAIN party : party[i] \in TypeNames}
        obj(i) == Len(cust) + Cardinality({j \in made : j <= i})
        who == [n \in 1 .. Cardinality(made) |-> Len(cust) + n]
        type(n) == CHOOSE i \in made : obj(i) = Len(cust) + n
        fresh == [n \in 1 .. Cardinality(made) |->
                    NewCustomer(party[type(n)], customerCount + type(n) - 1)]
        exists == t < NumTables
    IN  /\ Running
        /\ Len(cust) + Cardinality(made) <= MaxCustomers
        /\ \/ t = NumTables /\ Stop("aborted")
           \/ /\ t # NumTables
              /\ cust' = cust \o fresh
              /\ customerCount' = customerCount + Len(party)
              /\ \/ /\ exists /\ ~table[t].open
                    /\ table' = [table EXCEPT ![t] =
                          FoldLeft(LAMBDA rec, c : AddCustomer(t, rec, c),
                                   [@ EXCEPT !.open = TRUE], who)]
                    /\ opened' = Append(opened, [ok |-> TRUE, who |-> who])
                 \/ /\ ~(exists /\ ~table[t].open)
                    /\ opened' = Append(opened, [ok |-> FALSE, who |-> who])
                    /\ UNCHANGED table
              /\ UNCHANGED <<mode, menu, backup>>

\* Table::order asks the first currentCapacity customers of the list.
Served(rec) == IF rec.cur > 0 THEN SubSeq(rec.list, 1, rec.cur) ELSE << >>

Asked(c) == SelectSeq(CustomerOrder(cust[c]), LAMBDA d : d # NoDish)

Placed(rec) ==
    FoldLeft(LAMBDA os, c : os \o [k \in DOMAIN Asked(c) |-> <<cust[c].id, Asked(c)[k]>>],
             << >>, Served(rec))

\* A null customer is asked, or a cheap one reads menu[0] of an empty menu.
AsksNobody(rec) ==
    \E c \in ToSet(Served(rec)) :
        c # NullCust => cust[c].type = "chp" /\ cust[c].had = {} /\ menu = << >>

Order(t) ==
    /\ Running
    /\ \/ t \notin Tables /\ Stop("aborted")
       \/ t \in Tables /\ AsksNobody(table[t]) /\ Stop("crashed")
       \/ /\ t \in Tables /\ ~AsksNobody(table[t])
          /\ Len(table[t].orders) + Len(Placed(table[t])) <= MaxOrders
          /\ table' = [table EXCEPT ![t].orders = @ \o Placed(table[t])]
          /\ cust' = [c \in DOMAIN cust |->
                IF c \in ToSet(Served(table[t]))
                THEN [cust[c] EXCEPT !.had = @ \cup ToSet(CustomerOrder(cust[c]))]
                ELSE cust[c]]
          /\ UNCHANGED <<mode, menu, opened, customerCount, backup>>

MoveCustomer(src, dst, id) ==
    LET who == GetCustomer(table[src].list, id)
        seated == [table EXCEPT ![dst] = AddCustomer(dst, @, who)]
        dished == [seated EXCEPT ![dst] = AddDishes(@, id, seated[src].orders)]
        left == Unseat(dished[src], id)
    IN  /\ Running
        /\ \/ dst \notin Tables /\ Stop("aborted")
           \/ /\ dst \in Tables /\ (IsFull(dst) \/ ~table[dst].open)
              /\ UNCHANGED restaurantVars
           \/ /\ dst \in Tables /\ ~IsFull(dst) /\ table[dst].open
              /\ \/ src \notin Tables /\ Stop("aborted")
                 \/ /\ src \in Tables
                    /\ \/ ReadsNull(table[src].list, id) \/ ReadsNull(seated[src].list, id)
                    /\ Stop("crashed")
                 \/ /\ src = dst /\ ~ReadsNull(seated[src].list, id)
                    /\ OrdersOf(table[src].orders, id) # << >>
                    /\ Stop("exhausted")
                 \/ /\ src \in Tables /\ ~ReadsNull(seated[src].list, id)
                    /\ ~(src = dst /\ OrdersOf(table[src].orders, id) # << >>)
                    /\ left.cur >= -MaxBelow /\ Len(dished[dst].orders) <= MaxOrders
                    /\ table' = [dished EXCEPT ![src] = RemoveCustomer(@, id)]
                    /\ cust' = IF left.cur = 0 THEN Kill(Deleted(left)) ELSE cust
                    /\ UNCHANGED <<mode, menu, opened, customerCount, backup>>

Close(t) ==
    /\ Running
    /\ \/ t \notin Tables /\ Stop("aborted")
       \/ /\ t \in Tables /\ table[t].open
          /\ table' = [table EXCEPT ![t] = CloseTable(@)]
          /\ cust' = Kill(Deleted(table[t]))
          /\ UNCHANGED <<mode, menu, opened, customerCount, backup>>
       \/ t \in Tables /\ ~table[t].open /\ UNCHANGED restaurantVars

\* status t reads every customer of an open table.
PrintTableStatus(t) ==
    /\ Running
    /\ \/ t \notin Tables /\ Stop("aborted")
       \/ t \in Tables /\ table[t].open /\ NullCust \in ToSet(table[t].list) /\ Stop("crashed")

\* log reads the customers of every OpenTable that was logged.
DeadInLog == \E i \in DOMAIN opened : \E c \in ToSet(opened[i].who) : ~cust[c].alive

PrintActionsLog == Running /\ DeadInLog /\ Stop("crashed")

\* OpenTable::Clone and Table(const Table *): copies of the customers.
Values(who) == [n \in DOMAIN who |-> Clone(cust[who[n]])]

CopyTable(rec) == [rec EXCEPT !.list = Values(@)]

\* Restaurant(Restaurant &)
CopyRestaurant ==
    [none |-> FALSE, count |-> customerCount,
     opened |-> [i \in DOMAIN opened |->
                    [ok |-> opened[i].ok, who |-> Values(opened[i].who)]],
     table |-> [t \in Tables |-> CopyTable(table[t])]]

\* bound: one backup in a run, of a restaurant whose copies fit the heap
BackupFits ==
    /\ backup.none
    /\ Len(FlattenSeq([i \in DOMAIN opened |-> opened[i].who]))
         + FoldSet(LAMBDA t, n : n + Len(table[t].list), 0, Tables) <= MaxCustomers

BackupRestaurant ==
    /\ Running
    /\ \/ /\ DeadInLog \/ \E t \in Tables : NullCust \in ToSet(table[t].list)
          /\ Stop("crashed")
       \/ /\ ~DeadInLog /\ \A t \in Tables : NullCust \notin ToSet(table[t].list)
          /\ BackupFits
          /\ backup' = CopyRestaurant
          /\ UNCHANGED <<mode, menu, table, cust, opened, customerCount>>

\* ~OpenTable deletes its customers, a failed one's twice, and then goes on
\* past the end of the vector until it meets a null word.
DeletesTwice(log, dead) ==
    \E i \in DOMAIN log :
        log[i].who # << >> /\ (~log[i].ok \/ \E c \in ToSet(log[i].who) : c \in dead)

RunsPastEnd(log) == \E i \in DOMAIN log : log[i].who # << >>

Dead == {c \in DOMAIN cust : ~cust[c].alive}

\* Restaurant::clear destroys the log, and empties the menu.
Clear == ~DeletesTwice(opened, Dead) /\ menu' = << >>

\* operator= makes new customers for the log, then for the tables; it does
\* not bring the menu back.
Assign(b) ==
    LET logged == FlattenSeq([i \in DOMAIN b.opened |-> b.opened[i].who])
        first(i) == Len(FlattenSeq([k \in 1 .. i - 1 |-> b.opened[k].who]))
        seats == FlattenSeq([n \in 1 .. NumTables |-> b.table[n - 1].list])
        seat(t) == Len(logged) + Len(FlattenSeq([n \in 1 .. t |-> b.table[n - 1].list]))
    IN  /\ cust' = logged \o seats
        /\ opened' = [i \in DOMAIN b.opened |->
              [ok |-> b.opened[i].ok,
               who |-> [n \in DOMAIN b.opened[i].who |-> first(i) + n]]]
        /\ table' = [t \in Tables |->
              [b.table[t] EXCEPT !.list = [n \in DOMAIN @ |-> seat(t) + n]]]
        /\ customerCount' = b.count

RestoreResturant ==
    /\ Running
    /\ \/ backup.none /\ UNCHANGED restaurantVars
       \/ ~backup.none /\ RunsPastEnd(opened) /\ Stop("crashed")
       \/ /\ ~backup.none /\ Clear /\ Assign(backup)
          /\ UNCHANGED <<mode, backup>>

\* closeall: every open table is closed, then the log and, in main, the
\* backup are destroyed.
CloseAll ==
    LET gone == UNION {Deleted(table[t]) : t \in {u \in Tables : table[u].open}}
        fine == /\ ~DeletesTwice(opened, Dead \cup gone)
                /\ ~DeletesTwice(backup.opened, {})
        past == RunsPastEnd(opened) \/ RunsPastEnd(backup.opened)
    IN  /\ Running
        /\ \/ past /\ Stop("crashed")
           \/ fine /\ Stop("closed")

RestaurantNext ==
    \/ \E t \in 0 .. NumTables + 1, party \in Parties : OpenTable(t, party)
    \/ \E t \in 0 .. NumTables : Order(t) \/ Close(t) \/ PrintTableStatus(t)
    \/ \E src, dst \in 0 .. NumTables, id \in 0 .. customerCount : MoveCustomer(src, dst, id)
    \/ PrintActionsLog \/ BackupRestaurant \/ RestoreResturant \/ CloseAll

RestaurantSpec == RestaurantInit /\ [][RestaurantNext]_restaurantVars

-----------------------------------------------------------------------------
(* Properties.                                                             *)

\* No command leaves a table pointing at a deleted customer, and nobody sits
\* on two seats: move takes a customer off the list it came from before that
\* table can close and delete who is left on it (Table.cpp:62-93), and close
\* and restore drop the lists whose objects they delete.
SeatedAlive ==
    mode = "run" =>
        \A t, u \in Tables : \A i \in DOMAIN table[t].list, j \in DOMAIN table[u].list :
            LET c == table[t].list[i]
            IN  c # NullCust =>
                  /\ cust[c].alive /\ cust[c].id < customerCount
                  /\ (<<t, i>> # <<u, j>> /\ table[u].list[j] # NullCust) =>
                        cust[table[u].list[j]].id # cust[c].id

AllOrders == FoldSet(LAMBDA t, os : os \o table[t].orders, << >>, Tables)
Times(o, os) == Len(SelectSeq(os, LAMBDA p : p = o))

\* What a customer ordered is on exactly one bill: only Order adds to the
\* orders of all tables together, and only restore and closeall take away;
\* a move carries each dish from one table to the other (addDishes and
\* removeCustomer) and neither loses nor doubles it.
OrdersConserved ==
    [][ (table' # table /\ mode' = "run" /\ menu' = menu) =>
          \A o \in ToSet(AllOrders) \cup ToSet(AllOrders') :
              \/ Times(o, AllOrders') = Times(o, AllOrders)
              \/ Times(o, AllOrders') > Times(o, AllOrders) /\ \E t \in Tables : Order(t) ]_restaurantVars

(* The policies as the comments in Customer.cpp state them.                *)
Best(S, Above(_, _)) == {d \in S : \A e \in S \ {d} : Above(d, e)}
OfType(type) == {d \in DOMAIN menu : menu[d].type = type}
LowFirst(d, e) == Price(d) < Price(e) \/ (Price(d) = Price(e) /\ d < e)
HighFirst(d, e) == Price(d) > Price(e) \/ (Price(d) = Price(e) /\ d < e)

Stated(c, had) ==
    CASE c.type = "veg" -> Best(OfType("VEG"), LAMBDA d, e : d < e)
                             \cup Best(OfType("BVG"), HighFirst)
      [] c.type = "chp" -> IF had = {} THEN Best(DOMAIN menu, LowFirst) ELSE {}
      [] c.type = "spc" -> IF had = {} THEN Best(OfType("SPC"), HighFirst)
                           ELSE Best(OfType("BVG"), LowFirst)
      [] c.type = "alc" -> Best(OfType("ALC") \ had, LowFirst)

NewOrders(t) == SubSeq(table'[t].orders, Len(table[t].orders) + 1, Len(table'[t].orders))

\* Each round of orders is what the comments promise, judged by what is
\* already on the bill and not by the flags the objects keep: "orders only
\* once", "the cheapest alcoholic one not ordered before", "for further
\* orders" (Customer.cpp:104-105, 146-148).  Until a restore, which forgets
\* what the copied customers had ordered.
OrdersAsStated ==
    [][ \A t \in Tables : (backup.none /\ <<cust, table>>' # <<cust, table>> /\ mode' = "run" /\ Order(t)) =>
          \A i \in 1 .. table[t].cur :
              LET c == cust[table[t].list[i]]
                  before == {o[2] : o \in ToSet(OrdersOf(table[t].orders, c.id))}
                  now == {o[2] : o \in ToSet(OrdersOf(NewOrders(t), c.id))}
              IN  now = Stated(c, before) \/ (c.type = "spc" /\ OfType("SPC") = {}) ]_restaurantVars
=============================================================================
