---------------------------- MODULE ModuleLookup ----------------------------
(***************************************************************************)
(* Naming executed addresses: Process of src/native_helper/mod.rs, which   *)
(* searches the list of loaded modules and remembers the module found      *)
(* last, and write_to_file of src/bin/online_proc.rs, which looks up every *)
(* executed address and writes its count under "module + offset".          *)
(*                                                                         *)
(* The upper bound of a module is inclusive in the code, so the first      *)
(* address after a module is also claimed by it, and which of two adjacent *)
(* modules an address is given to depends on the query before.             *)
(***************************************************************************)
EXTENDS Integers, Sequences, FiniteSets

CONSTANTS
  Where,     \* the address each instruction stands for
  Modules,   \* the modules of the traced process, as GetProcessModules lists them
  PageLen    \* entries of a page of counts (4096)

ASSUME ModuleAssumption ==
  /\ \A a \in DOMAIN Where : Where[a] \in Nat
  /\ \A a, b \in DOMAIN Where : Where[a] = Where[b] => a = b
  /\ Modules \in Seq([name : STRING, base : Nat, size : Nat])
  /\ PageLen \in Nat \ {0}

\* module_info_cache before the first hit.
NoModule == << >>

CoversNoEnd(m, addr) == addr >= m.base
Covers(m, addr) == addr >= m.base /\ addr <= m.base + m.size

\* query_module_info_by_addr: the cached module, else the first of the list that
\* covers addr, which is cached; "dummy" and the address itself when none does.
Query(mods, cache, addr) ==
  LET hits == {k \in DOMAIN mods : Covers(mods[k], addr)}
      found == mods[CHOOSE k \in hits : \A l \in hits : k <= l]
      Named(m) == [key |-> <<m.name, addr - m.base>>, cache |-> m]
  IN  CASE cache # NoModule /\ Covers(cache, addr) -> Named(cache)
        [] ~(cache # NoModule /\ Covers(cache, addr)) /\ hits # {} -> Named(found)
        [] OTHER -> [key |-> <<"dummy", addr>>, cache |-> cache]

\* The page of counts an instruction is in.
PageOf(a) == Where[a] \div PageLen

\* The orders in which write_to_file meets the instructions S: the pages come out
\* of a HashMap, one after the other, and each is walked upwards.
Orders(S) ==
  {order \in [1 .. Cardinality(S) -> S] :
     \A i, j \in 1 .. Cardinality(S) : i < j =>
       /\ order[i] # order[j]
       /\ PageOf(order[i]) = PageOf(order[j]) =>
            /\ Where[order[i]] < Where[order[j]]
            /\ \A k \in i .. j : PageOf(order[k]) = PageOf(order[i])}

\* module_info_cache after each of the queries for the instructions of order.
Caches(mods, order) ==
  LET cache[n \in 0 .. Len(order)] ==
        IF n = 0 THEN NoModule ELSE Query(mods, cache[n - 1], Where[order[n]]).cache
  IN  cache

\* The key of each of them.
Keys(mods, order) ==
  [n \in 1 .. Len(order) |-> Query(mods, Caches(mods, order)[n - 1], Where[order[n]]).key]

\* write_to_file: data_wt after the instructions of order, with their counts; a key
\* that comes again is overwritten.
Report(mods, order, cnt) ==
  LET keys == Keys(mods, order)
      Latest(key) == CHOOSE n \in DOMAIN keys : /\ keys[n] = key
                                                /\ \A m \in DOMAIN keys : keys[m] = key => m <= n
  IN  [key \in {keys[n] : n \in DOMAIN keys} |-> cnt[order[Latest(key)]]]

\* key names the address addr: it is inside the module, or just after its end.
NamesAddr(mods, key, addr) ==
  \/ \E k \in DOMAIN mods : /\ mods[k].name = key[1]
                            /\ mods[k].base + key[2] = addr
                            /\ key[2] \in 0 .. mods[k].size
  \/ /\ key = <<"dummy", addr>>
     /\ \A k \in DOMAIN mods : ~(addr >= mods[k].base /\ addr < mods[k].base + mods[k].size)
=============================================================================
