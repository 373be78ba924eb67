----------------------------- MODULE CallsProofs -----------------------------
(***************************************************************************)
(* The check of user pointers, for every size of the pages, every number   *)
(* of pages, and every block; and what the calls print, for every size of  *)
(* the screen, every memory and every number: the console, the chunks of   *)
(* sys_write, the digits of itoa.                                          *)
(***************************************************************************)
EXTENDS Calls, SequenceTheorems, WellFoundedInduction, TLAPS

\* The page of an address.
LEMMA PageBounds ==
  ASSUME NEW x \in Nat
  PROVE  /\ x \div PAGE_SIZE \in Nat
         /\ PAGE_SIZE * (x \div PAGE_SIZE) <= x
         /\ x < PAGE_SIZE * (x \div PAGE_SIZE) + PAGE_SIZE
<1>1. PAGE_SIZE \in Nat /\ PAGE_SIZE > 0
  BY CallsAssumption
<1>2. x = PAGE_SIZE * (x \div PAGE_SIZE) + (x % PAGE_SIZE) /\ x % PAGE_SIZE \in 0 .. PAGE_SIZE - 1
  BY <1>1
<1>3. x \div PAGE_SIZE \in Int
  BY <1>1
<1>4. x \div PAGE_SIZE >= 0
  BY <1>1
<1> HIDE DEF PageOf
<1> QED BY <1>1, <1>2, <1>3, <1>4

\* A page that begins below another one's beginning comes before it.
LEMMA PagesInOrder ==
  ASSUME NEW a \in Nat, NEW b \in Nat
  PROVE  /\ PAGE_SIZE * a < PAGE_SIZE * b => a < b
         /\ a <= b => PAGE_SIZE * a <= PAGE_SIZE * b
<1>1. PAGE_SIZE \in Nat
  BY CallsAssumption
<1>2. ASSUME NEW c \in Nat, NEW d \in Nat, c <= d PROVE PAGE_SIZE * c <= PAGE_SIZE * d
  <2>1. PICK e \in Nat : d = c + e
    <3>1. d - c \in Nat /\ d = c + (d - c)
      BY <1>2
    <3> QED BY <3>1
  <2>2. PAGE_SIZE * d = PAGE_SIZE * c + PAGE_SIZE * e
    BY <1>1, <2>1
  <2>3. PAGE_SIZE * e \in Nat /\ PAGE_SIZE * c \in Nat
    BY <1>1
  <2> QED BY <2>2, <2>3
<1>3. PAGE_SIZE * a \in Nat /\ PAGE_SIZE * b \in Nat
  BY <1>1
<1> QED BY <1>2, <1>3

LEMMA PageOrder ==
  ASSUME NEW x \in Nat, NEW y \in Nat
  PROVE  /\ x <= y => x \div PAGE_SIZE <= y \div PAGE_SIZE
         /\ \A p \in Nat : /\ x \div PAGE_SIZE < p <=> x < PAGE_SIZE * p
                           /\ p <= x \div PAGE_SIZE <=> PAGE_SIZE * p <= x
<1>1. ASSUME NEW z \in Nat, NEW p \in Nat
      PROVE  z \div PAGE_SIZE < p <=> z < PAGE_SIZE * p
  <2>1. /\ z \div PAGE_SIZE \in Nat /\ PAGE_SIZE * (z \div PAGE_SIZE) <= z
        /\ z < PAGE_SIZE * (z \div PAGE_SIZE) + PAGE_SIZE
    BY PageBounds
  <2>2. PICK q \in Nat : q = z \div PAGE_SIZE
    BY <2>1
  <2>3. PAGE_SIZE \in Nat /\ PAGE_SIZE * q \in Nat /\ PAGE_SIZE * p \in Nat
        /\ PAGE_SIZE * (q + 1) = PAGE_SIZE * q + PAGE_SIZE
    BY CallsAssumption
  <2>4. q < p => z < PAGE_SIZE * p
    <3>1. q < p => PAGE_SIZE * (q + 1) <= PAGE_SIZE * p
      BY PagesInOrder
    <3> QED BY <2>1, <2>2, <2>3, <3>1
  <2>5. z < PAGE_SIZE * p => q < p
    <3>1. PAGE_SIZE * q < PAGE_SIZE * p => q < p
      BY PagesInOrder
    <3> QED BY <2>1, <2>2, <2>3, <3>1
  <2> QED BY <2>2, <2>4, <2>5
<1>2. x \div PAGE_SIZE \in Nat /\ y \div PAGE_SIZE \in Nat /\ PAGE_SIZE \in Nat
  BY PageBounds, CallsAssumption
<1>3. x <= y => x \div PAGE_SIZE <= y \div PAGE_SIZE
  <2>1. PICK q \in Nat : q = y \div PAGE_SIZE + 1
    BY <1>2
  <2>2. y < PAGE_SIZE * q /\ PAGE_SIZE * q \in Nat
    BY <1>1, <1>2, <2>1
  <2>3. x <= y => x < PAGE_SIZE * q
    BY <2>2
  <2> QED BY <1>1, <1>2, <2>1, <2>3
<1>4. \A p \in Nat : p <= x \div PAGE_SIZE <=> PAGE_SIZE * p <= x
  <2>1. SUFFICES ASSUME NEW p \in Nat PROVE p <= x \div PAGE_SIZE <=> PAGE_SIZE * p <= x
    OBVIOUS
  <2>2. x \div PAGE_SIZE < p <=> x < PAGE_SIZE * p
    BY <1>1
  <2>3. PAGE_SIZE * p \in Nat
    BY <1>2
  <2> QED BY <1>2, <2>2, <2>3
<1> QED BY <1>1, <1>3, <1>4

\* A block of a program, and where it ends.
BlockPages(addr, size) == {PageOf(b) : b \in {(addr + i) % ADDRESSES : i \in 0 .. size - 1}}

LEMMA AddressesWrap ==
  ASSUME NEW x \in Nat, x < 2 * ADDRESSES
  PROVE  /\ ADDRESSES \in Nat
         /\ x % ADDRESSES = IF x < ADDRESSES THEN x ELSE x - ADDRESSES
<1>1. ADDRESSES \in Nat /\ ADDRESSES > 0
  BY CallsAssumption
<1>2. x = ADDRESSES * (x \div ADDRESSES) + (x % ADDRESSES) /\ x % ADDRESSES \in 0 .. ADDRESSES - 1
  BY <1>1
<1> QED BY <1>1, <1>2

\* The layout of the address space.
LEMMA Layout ==
  /\ ADDRESSES \in Nat /\ PAGE_SIZE \in Nat /\ PAGE_SIZE > 0
  /\ USER_FIRST_PAGE \in Nat /\ NUM_PAG_CODE \in Nat /\ NUM_PAG_DATA \in Nat /\ USER_FIRST_PAGE > 0
  /\ DataEnd \in Nat /\ DataEnd = USER_FIRST_PAGE + NUM_PAG_CODE + NUM_PAG_DATA
  /\ PAG_LOG_INIT_HEAP \in Nat /\ DataEnd < PAG_LOG_INIT_HEAP
  /\ PAGE_SIZE * (PAG_LOG_INIT_HEAP + 1) < ADDRESSES /\ PAGE_SIZE < ADDRESSES
  /\ PAGE_SIZE * DataEnd < ADDRESSES
  /\ \A heap_pages \in HeapPages : heap_pages \in Nat /\ heap_pages <= PAG_LOG_INIT_HEAP - DataEnd
<1>1. /\ ADDRESSES \in Nat /\ PAGE_SIZE \in Nat /\ PAGE_SIZE > 0
      /\ USER_FIRST_PAGE \in Nat /\ NUM_PAG_CODE \in Nat /\ NUM_PAG_DATA \in Nat /\ USER_FIRST_PAGE > 0
      /\ PAG_LOG_INIT_HEAP \in Nat
  BY CallsAssumption
<1>2. DataEnd \in Nat /\ DataEnd = USER_FIRST_PAGE + NUM_PAG_CODE + NUM_PAG_DATA /\ DataEnd < PAG_LOG_INIT_HEAP
  BY <1>1, CallsAssumption DEF DataEnd
<1>3. \A heap_pages \in HeapPages : heap_pages \in Nat /\ heap_pages <= PAG_LOG_INIT_HEAP - DataEnd
  BY <1>1, <1>2, CallsAssumption
<1>4. PAGE_SIZE * (PAG_LOG_INIT_HEAP + 1) < ADDRESSES
  <2>1. (PAG_LOG_INIT_HEAP + 1) * PAGE_SIZE < ADDRESSES
    BY CallsAssumption
  <2> QED BY <1>1, <2>1
<1>5. PAGE_SIZE < ADDRESSES /\ PAGE_SIZE * DataEnd < ADDRESSES
  <2>1. PICK n \in Nat : n = PAG_LOG_INIT_HEAP + 1
    BY <1>1
  <2>2. PAGE_SIZE * 1 <= PAGE_SIZE * n /\ PAGE_SIZE * DataEnd <= PAGE_SIZE * n
    <3>1. 1 <= n /\ DataEnd <= n /\ 1 \in Nat
      BY <1>1, <1>2, <2>1
    <3> QED BY <1>2, <3>1, PagesInOrder
  <2>3. /\ PAGE_SIZE * 1 = PAGE_SIZE /\ PAGE_SIZE * n \in Nat /\ PAGE_SIZE * DataEnd \in Nat
        /\ PAGE_SIZE * n < ADDRESSES
    BY <1>1, <1>2, <1>4, <2>1
  <2> QED BY <1>1, <2>2, <2>3
<1> QED BY <1>1, <1>2, <1>3, <1>4, <1>5

\* The bytes of a block.
LEMMA BlockBytes ==
  ASSUME NEW addr \in 0 .. ADDRESSES - 1, NEW size \in Nat, 2 * size < ADDRESSES, NEW i \in 0 .. size
  PROVE  /\ addr + i \in Nat
         /\ addr + i < ADDRESSES => /\ (addr + i) % ADDRESSES = addr + i
                                    /\ PageOf((addr + i) % ADDRESSES) = (addr + i) \div PAGE_SIZE
                                    /\ PageOf(addr + i) = (addr + i) \div PAGE_SIZE
         /\ addr + i >= ADDRESSES =>
              LET wrapped == addr + i - ADDRESSES
              IN  /\ wrapped \in Nat /\ wrapped < ADDRESSES
                  /\ PageOf((addr + i) % ADDRESSES) = wrapped \div PAGE_SIZE
                  /\ PageOf(addr + i) = wrapped \div PAGE_SIZE
         /\ i < size => PageOf((addr + i) % ADDRESSES) \in BlockPages(addr, size)
<1>1. ADDRESSES \in Nat /\ addr + i \in Nat /\ addr + i < 2 * ADDRESSES
  BY Layout
<1>2. PICK x \in Nat : x = addr + i
  BY <1>1
<1>3. x % ADDRESSES = IF x < ADDRESSES THEN x ELSE x - ADDRESSES
  BY <1>1, <1>2, AddressesWrap
<1>4. PICK y \in Nat : y = x % ADDRESSES /\ y < ADDRESSES /\ y < 2 * ADDRESSES
  <2>1. x % ADDRESSES \in Nat /\ x % ADDRESSES < ADDRESSES /\ x % ADDRESSES < 2 * ADDRESSES
    BY <1>1, <1>2, <1>3
  <2> QED BY <2>1
<1>5. y % ADDRESSES = y
  BY <1>4, AddressesWrap
<1>6. PageOf(y) = y \div PAGE_SIZE /\ PageOf(x) = y \div PAGE_SIZE
  BY <1>4, <1>5 DEF PageOf
<1>7. i < size => PageOf(y) \in BlockPages(addr, size)
  <2>1. i < size => i \in 0 .. size - 1
    OBVIOUS
  <2> QED BY <1>2, <1>4, <2>1 DEF BlockPages
<1> QED BY <1>1, <1>2, <1>3, <1>4, <1>6, <1>7

\* access_ok refuses no block that lies in the data or in the heap.
LEMMA GoodBlocks ==
  ASSUME NEW addr \in 0 .. ADDRESSES - 1, NEW size \in Nat, size > 0, 2 * size < ADDRESSES,
         NEW heap_pages \in HeapPages,
         \/ BlockPages(addr, size) \subseteq USER_FIRST_PAGE + NUM_PAG_CODE .. DataEnd - 1
         \/ BlockPages(addr, size) \subseteq PAG_LOG_INIT_HEAP - heap_pages + 1 .. PAG_LOG_INIT_HEAP
  PROVE  access_ok("VERIFY_WRITE", addr, size, heap_pages)
<1> DEFINE last_byte == addr + (size - 1)
           end == addr + size
<1>1. /\ addr \in Nat /\ addr < ADDRESSES /\ last_byte \in Nat /\ end = last_byte + 1 /\ end \in Nat
      /\ addr <= end
  BY Layout
\* The bottom page and the page after the top one.
<1>2. PICK low \in Nat, high \in Nat :
        /\ BlockPages(addr, size) \subseteq low .. high - 1
        /\ low > 0 /\ PAGE_SIZE * high < ADDRESSES
        /\ \/ low = USER_FIRST_PAGE + NUM_PAG_CODE /\ high = DataEnd
           \/ low = PAG_LOG_INIT_HEAP - heap_pages + 1 /\ high = PAG_LOG_INIT_HEAP + 1
  <2>1. CASE BlockPages(addr, size) \subseteq USER_FIRST_PAGE + NUM_PAG_CODE .. DataEnd - 1
    <3>1. USER_FIRST_PAGE + NUM_PAG_CODE \in Nat /\ USER_FIRST_PAGE + NUM_PAG_CODE > 0
      BY Layout
    <3> QED BY <2>1, <3>1, Layout
  <2>2. CASE BlockPages(addr, size) \subseteq PAG_LOG_INIT_HEAP - heap_pages + 1 .. PAG_LOG_INIT_HEAP
    <3>1. /\ PAG_LOG_INIT_HEAP - heap_pages + 1 \in Nat /\ PAG_LOG_INIT_HEAP - heap_pages + 1 > 0
          /\ PAG_LOG_INIT_HEAP + 1 \in Nat /\ (PAG_LOG_INIT_HEAP + 1) - 1 = PAG_LOG_INIT_HEAP
      BY Layout
    <3> QED BY <2>2, <3>1, Layout
  <2> QED BY <2>1, <2>2
\* The first page, and the last one: a block that wrapped would contain page 0.
<1>3. addr \div PAGE_SIZE \in low .. high - 1 /\ PageOf(addr) = addr \div PAGE_SIZE
  <2>1. PICK i \in 0 .. size : i = 0
    OBVIOUS
  <2>2. addr + i = addr /\ i < size
    BY <2>1
  <2> QED BY <1>1, <1>2, <2>2, BlockBytes
<1>4. last_byte < ADDRESSES
  <2>1. SUFFICES ASSUME last_byte >= ADDRESSES PROVE FALSE
    BY <1>1, Layout
  <2>2. PICK i \in 0 .. size : i = ADDRESSES - addr /\ i < size
    <3>1. ADDRESSES - addr \in 0 .. size /\ ADDRESSES - addr < size
      BY <1>1, <2>1, Layout
    <3> QED BY <3>1
  <2>3. addr + i = ADDRESSES /\ addr + i - ADDRESSES = 0 /\ addr + i >= ADDRESSES
    BY <1>1, <2>2, Layout
  <2>4. 0 \div PAGE_SIZE \in BlockPages(addr, size)
    BY <2>2, <2>3, BlockBytes
  <2>5. 0 \div PAGE_SIZE = 0
    BY Layout
  <2> QED BY <1>2, <2>4, <2>5
<1>5. last_byte \div PAGE_SIZE \in low .. high - 1
  <2>1. PICK i \in 0 .. size : i = size - 1
    <3>1. size - 1 \in 0 .. size
      OBVIOUS
    <3> QED BY <3>1
  <2>2. addr + i = last_byte /\ i < size
    BY <2>1
  <2> HIDE DEF last_byte
  <2>3. PageOf((addr + i) % ADDRESSES) = (addr + i) \div PAGE_SIZE
    BY <1>4, <2>2, BlockBytes
  <2>4. PageOf((addr + i) % ADDRESSES) \in BlockPages(addr, size)
    BY <2>2, BlockBytes
  <2> QED BY <1>2, <2>2, <2>3, <2>4
<1> HIDE DEF last_byte
<1>6. last_byte < PAGE_SIZE * high /\ PAGE_SIZE * high \in Nat
  <2>1. last_byte \div PAGE_SIZE < high
    BY <1>1, <1>2, <1>5, PageBounds
  <2> QED BY <1>1, <1>2, <2>1, PageOrder, Layout
<1>7. end <= PAGE_SIZE * high /\ end < ADDRESSES
  BY <1>1, <1>2, <1>6, Layout
<1>8. PageOf(end) = end \div PAGE_SIZE
  <2>1. size \in 0 .. size
    OBVIOUS
  <2> QED BY <1>7, <2>1, BlockBytes
<1>9. end \div PAGE_SIZE \in Nat /\ addr \div PAGE_SIZE \in Nat /\ addr \div PAGE_SIZE <= end \div PAGE_SIZE
  BY <1>1, PageOrder, PageBounds
<1>10. end \div PAGE_SIZE <= high
  <2>1. PICK next \in Nat : next = high + 1
    BY <1>2
  <2>2. PAGE_SIZE * next = PAGE_SIZE * high + PAGE_SIZE
    BY <1>2, <2>1, Layout
  <2>3. end < PAGE_SIZE * next
    BY <1>1, <1>6, <1>7, <2>2, Layout
  <2>4. end \div PAGE_SIZE < next
    BY <1>1, <2>3, PageOrder
  <2> QED BY <1>2, <1>9, <2>1, <2>4
<1> HIDE DEF end
<1>11. ~IsOverflow(PageOf(addr), PageOf(end))
  BY <1>3, <1>8, <1>9 DEF IsOverflow
<1>12. \/ PageOf(addr) >= USER_FIRST_PAGE + NUM_PAG_CODE /\ PageOf(end) <= DataEnd
       \/ PageOf(addr) \in PAG_LOG_INIT_HEAP - heap_pages .. PAG_LOG_INIT_HEAP
  BY <1>2, <1>3, <1>8, <1>9, <1>10, Layout
<1> QED BY <1>11, <1>12 DEF access_ok, EndsInData, end

\* A block access_ok accepts has no byte in the kernel's pages: it cannot wrap.
LEMMA AcceptedBlocks ==
  ASSUME NEW addr \in 0 .. ADDRESSES - 1, NEW size \in Nat, 2 * size < ADDRESSES,
         NEW heap_pages \in HeapPages, access_ok("VERIFY_WRITE", addr, size, heap_pages)
  PROVE  \A p \in BlockPages(addr, size) : p >= USER_FIRST_PAGE
<1> DEFINE end == addr + size
<1>1. /\ addr \in Nat /\ addr < ADDRESSES /\ end \in Nat /\ addr <= end /\ ADDRESSES \in Nat
      /\ PAGE_SIZE \in Nat /\ PAGE_SIZE > 0
  BY Layout
<1>2. PageOf(addr) = addr \div PAGE_SIZE /\ addr \div PAGE_SIZE \in Nat
  <2>1. PICK i \in 0 .. size : i = 0
    OBVIOUS
  <2>2. addr + i = addr
    BY <2>1
  <2> QED BY <1>1, <2>2, BlockBytes, PageBounds
<1>3. addr \div PAGE_SIZE >= USER_FIRST_PAGE
  <2>1. \/ PageOf(addr) >= USER_FIRST_PAGE + NUM_PAG_CODE
        \/ PageOf(addr) >= USER_FIRST_PAGE
        \/ PageOf(addr) \in PAG_LOG_INIT_HEAP - heap_pages .. PAG_LOG_INIT_HEAP
    BY DEF access_ok
  <2> QED BY <1>2, <2>1, Layout
<1>4. end < ADDRESSES
  <2>1. SUFFICES ASSUME end >= ADDRESSES PROVE FALSE
    BY <1>1
  <2>2. PICK wrapped \in Nat : wrapped = end - ADDRESSES
    BY <1>1, <2>1
  <2>3. PICK i \in 0 .. size : i = size
    OBVIOUS
  <2>4. PageOf(end) = wrapped \div PAGE_SIZE
    <3>1. PageOf(addr + i) = (addr + i - ADDRESSES) \div PAGE_SIZE
      BY <2>1, <2>3, BlockBytes
    <3>2. end = addr + i /\ wrapped = addr + i - ADDRESSES
      BY <1>1, <2>2, <2>3
    <3> HIDE DEF end
    <3> QED BY <3>1, <3>2
  <2>5. wrapped + PAGE_SIZE <= addr
    <3>1. 2 * PAGE_SIZE < ADDRESSES
      <4>1. PICK n \in Nat : n = PAG_LOG_INIT_HEAP + 1 /\ 2 <= n /\ PAGE_SIZE * n < ADDRESSES
        BY Layout
      <4>2. PAGE_SIZE * 2 <= PAGE_SIZE * n
        BY <4>1, PagesInOrder
      <4>3. PAGE_SIZE * n \in Nat
        BY <1>1, <4>1
      <4> QED BY <1>1, <4>1, <4>2, <4>3
    <3> QED BY <1>1, <2>2, <3>1
  <2>6. wrapped \div PAGE_SIZE < addr \div PAGE_SIZE
    <3>1. PICK q \in Nat : q = wrapped \div PAGE_SIZE
      BY PageBounds
    <3>2. PAGE_SIZE * q <= wrapped /\ PAGE_SIZE * q \in Nat
      BY <1>1, <3>1, PageBounds
    <3>3. PICK next \in Nat : next = q + 1 /\ PAGE_SIZE * next = PAGE_SIZE * q + PAGE_SIZE
      BY <1>1
    <3>4. PAGE_SIZE * next <= addr
      BY <1>1, <2>5, <3>2, <3>3
    <3>5. next <= addr \div PAGE_SIZE
      BY <1>1, <3>4, PageOrder
    <3> QED BY <1>2, <3>1, <3>3, <3>5
  <2>7. ~(PageOf(end) < PageOf(addr))
    BY DEF access_ok, IsOverflow
  <2> QED BY <1>2, <2>4, <2>6, <2>7
<1>5. ASSUME NEW i \in 0 .. size - 1 PROVE PageOf((addr + i) % ADDRESSES) >= USER_FIRST_PAGE
  <2>1. i \in 0 .. size /\ addr + i \in Nat /\ addr + i < ADDRESSES /\ addr <= addr + i
    BY <1>1, <1>4
  <2>2. PageOf((addr + i) % ADDRESSES) = (addr + i) \div PAGE_SIZE
    BY <2>1, BlockBytes
  <2>3. PICK x \in Nat : x = addr + i
    BY <2>1
  <2>4. addr \div PAGE_SIZE <= x \div PAGE_SIZE /\ x \div PAGE_SIZE \in Nat
    BY <1>1, <2>1, <2>3, PageOrder, PageBounds
  <2> QED BY <1>2, <1>3, <2>2, <2>3, <2>4, Layout
<1> QED BY <1>5 DEF BlockPages

\* A block whose pages are all in the table has no byte that is not there.
LEMMA NothingUnmapped ==
  ASSUME NEW addr \in 0 .. ADDRESSES - 1, NEW size \in Nat, 2 * size < ADDRESSES, NEW heap_pages \in HeapPages,
         BlockPages(addr, size) \subseteq Mapped(heap_pages)
  PROVE  Unmapped(addr, size, heap_pages) = {}
<1>1. SUFFICES ASSUME NEW i \in 0 .. size - 1 PROVE PageOf(addr + i) \in BlockPages(addr, size)
  BY DEF Unmapped
<1>2. i \in 0 .. size /\ i < size /\ addr + i \in Nat /\ ADDRESSES \in Nat
  BY Layout
<1>3. PageOf(addr + i) = PageOf((addr + i) % ADDRESSES)
  <2>1. CASE addr + i < ADDRESSES
    BY <1>2, <2>1, BlockBytes
  <2>2. CASE addr + i >= ADDRESSES
    BY <1>2, <2>2, BlockBytes
  <2> QED BY <1>2, <2>1, <2>2
<1> QED BY <1>2, <1>3, BlockBytes

\* The data and the heap are mapped.
LEMMA OwnIsMapped ==
  ASSUME NEW heap_pages \in HeapPages
  PROVE  /\ USER_FIRST_PAGE + NUM_PAG_CODE .. DataEnd - 1 \subseteq Mapped(heap_pages)
         /\ PAG_LOG_INIT_HEAP - heap_pages + 1 .. PAG_LOG_INIT_HEAP \subseteq Mapped(heap_pages)
<1>1. USER_FIRST_PAGE + NUM_PAG_CODE .. DataEnd - 1 \subseteq USER_FIRST_PAGE .. DataEnd - 1
  BY Layout
<1> QED BY <1>1 DEF Mapped

-----------------------------------------------------------------------------
(* In every state. *)

\* What the record of a call that writes to a block of the program says of it.
LastChecked ==
  last.call \in {"read", "get_stats"} =>
    /\ last.buffer \in 0 .. ADDRESSES - 1 /\ last.size \in Int /\ last.heap_pages \in HeapPages
    /\ 2 * last.size < ADDRESSES
    /\ last.result >= 0 => last.size >= 0 /\ access_ok("VERIFY_WRITE", last.buffer, last.size, last.heap_pages)
    /\ last.result = -EFAULT /\ last.buffer # NULL /\ last.size >= 0 =>
         ~access_ok("VERIFY_WRITE", last.buffer, last.size, last.heap_pages)
    /\ halted # "no" => Unmapped(last.buffer, last.size, last.heap_pages) # {}

\* The record of a call is that of its arguments, whether it returns or not.
LEMMA StoresRecord ==
  ASSUME NEW call, NEW buffer, NEW size, NEW heap_pages, NEW result, halted = "no",
         Stores(call, buffer, size, heap_pages, result)
  PROVE  /\ last'.call = call /\ last'.buffer = buffer /\ last'.size = size
         /\ last'.heap_pages = heap_pages /\ last'.result = result
         /\ halted' # "no" => Unmapped(buffer, size, heap_pages) # {}
<1> DEFINE bad == Unmapped(buffer, size, heap_pages)
<1>1. \/ Returns(call, buffer, size, heap_pages, result, <<>>)
      \/ bad # {} /\ Stops(call, buffer, size, heap_pages, result, <<>>, buffer + Min(bad))
  BY DEF Stores
<1> HIDE DEF bad
<1>2. CASE Returns(call, buffer, size, heap_pages, result, <<>>)
  BY <1>2 DEF Returns, Called
<1>3. CASE bad # {} /\ Stops(call, buffer, size, heap_pages, result, <<>>, buffer + Min(bad))
  BY <1>3 DEF Stops, Called, bad
<1> QED BY <1>1, <1>2, <1>3

LEMMA WriteRecord ==
  ASSUME NEW fd, NEW buffer, NEW size, NEW heap_pages, Write(fd, buffer, size, heap_pages)
  PROVE  last'.call = "write"
BY DEF Write, Returns, Stops, Called

LEMMA LastInit == Init => LastChecked
BY DEF Init, LastChecked

LEMMA LastStep ==
  ASSUME LastChecked, [Next]_vars
  PROVE  LastChecked'
<1>1. CASE UNCHANGED vars \/ Clock
  BY <1>1 DEF vars, Clock, LastChecked
<1>2. ASSUME NEW fd, NEW buffer, NEW size, NEW heap_pages, Write(fd, buffer, size, heap_pages)
      PROVE  LastChecked'
  BY <1>2, WriteRecord DEF LastChecked
<1>3. ASSUME NEW a, Number(a) PROVE LastChecked'
  BY <1>3 DEF Number, Returns, Called, LastChecked
<1>4. ASSUME NEW heap_pages, perror(heap_pages) PROVE LastChecked'
  BY <1>2, <1>4 DEF perror
<1>5. ASSUME NEW fd \in Descriptors, NEW buffer \in Buffers, NEW size \in Sizes, NEW heap_pages \in HeapPages,
             halted = "no", Read(fd, buffer, size, heap_pages)
      PROVE  LastChecked'
  <2> DEFINE good == access_ok("VERIFY_WRITE", buffer, size, heap_pages)
             result == sys_read(fd, buffer, size, heap_pages)
  <2>1. /\ buffer \in 0 .. ADDRESSES - 1 /\ size \in Int /\ 2 * size < ADDRESSES
    BY CallsAssumption, SizeAssumption
  <2>2. /\ result >= 0 => size >= 0 /\ good
        /\ result = -EFAULT /\ buffer # NULL /\ size >= 0 => ~good
    <3> HIDE DEF good
    <3> QED BY <2>1 DEF sys_read, Checked, EBADF, EFAULT, EINVAL, good
  <2>3. /\ last'.buffer = buffer /\ last'.size = size /\ last'.heap_pages = heap_pages
        /\ last'.result = result /\ (halted' # "no" => Unmapped(buffer, size, heap_pages) # {})
    <3> HIDE DEF result
    <3>1. Stores("read", buffer, size, heap_pages, result)
      BY <1>5 DEF Read, result
    <3> QED BY <1>5, <3>1, StoresRecord
  <2> HIDE DEF result
  <2> QED BY <2>1, <2>2, <2>3 DEF LastChecked
<1>6. ASSUME NEW pid \in {-1, 1}, NEW buffer \in Buffers, NEW heap_pages \in HeapPages,
             halted = "no", GetStats(pid, buffer, heap_pages)
      PROVE  LastChecked'
  <2>1. PICK found \in BOOLEAN :
          Stores("get_stats", buffer, StatsSize, heap_pages, sys_get_stats(pid, buffer, heap_pages, found))
    BY <1>6 DEF GetStats
  <2> DEFINE good == access_ok("VERIFY_WRITE", buffer, StatsSize, heap_pages)
             result == sys_get_stats(pid, buffer, heap_pages, found)
  <2>2. /\ buffer \in 0 .. ADDRESSES - 1 /\ StatsSize \in Int /\ StatsSize >= 0 /\ 2 * StatsSize < ADDRESSES
    BY CallsAssumption, SizeAssumption
  <2>3. /\ result >= 0 => good
        /\ result = -EFAULT /\ buffer # NULL => ~good
    <3> HIDE DEF good
    <3> QED BY <2>2 DEF sys_get_stats, EFAULT, EINVAL, ESRCH, good
  <2>4. /\ last'.buffer = buffer /\ last'.size = StatsSize /\ last'.heap_pages = heap_pages
        /\ last'.result = result /\ (halted' # "no" => Unmapped(buffer, StatsSize, heap_pages) # {})
    <3> HIDE DEF result
    <3>1. Stores("get_stats", buffer, StatsSize, heap_pages, result)
      BY <2>1 DEF result
    <3> QED BY <1>6, <3>1, StoresRecord
  <2> HIDE DEF result
  <2> QED BY <2>2, <2>3, <2>4 DEF LastChecked
<1> QED BY <1>1, <1>2, <1>3, <1>4, <1>5, <1>6 DEF Next, Call

LEMMA PagesAre == last.size \in Int => Pages = BlockPages(last.buffer, last.size)
BY DEF Pages, Bytes, BlockPages

\* sys_read and sys_get_stats never refuse a block in the data or in the heap of the program,
\* although access_ok looks at the page of the byte behind it, for every size of the pages and
\* every block; and they find every byte of it.
THEOREM GoodBlocksPass == Spec => []GoodBlocksAccepted
<1>1. ASSUME LastChecked PROVE GoodBlocksAccepted
  <2>1. SUFFICES ASSUME last.call \in {"read", "get_stats"}, last.buffer # NULL, last.size > 0,
                        \/ Pages \subseteq USER_FIRST_PAGE + NUM_PAG_CODE .. DataEnd - 1
                        \/ Pages \subseteq PAG_LOG_INIT_HEAP - last.heap_pages + 1 .. PAG_LOG_INIT_HEAP,
                        last.result = -EFAULT \/ halted # "no"
                 PROVE  FALSE
    BY DEF GoodBlocksAccepted
  <2>2. /\ last.buffer \in 0 .. ADDRESSES - 1 /\ last.size \in Nat /\ last.heap_pages \in HeapPages
        /\ 2 * last.size < ADDRESSES
        /\ last.result = -EFAULT => ~access_ok("VERIFY_WRITE", last.buffer, last.size, last.heap_pages)
        /\ halted # "no" => Unmapped(last.buffer, last.size, last.heap_pages) # {}
    BY <1>1, <2>1 DEF LastChecked
  <2>3. Pages = BlockPages(last.buffer, last.size)
    BY <2>2, PagesAre
  <2>4. CASE last.result = -EFAULT
    BY <2>1, <2>2, <2>3, <2>4, GoodBlocks
  <2>5. CASE halted # "no"
    <3>1. Pages \subseteq Mapped(last.heap_pages)
      BY <2>1, <2>2, OwnIsMapped
    <3>2. Unmapped(last.buffer, last.size, last.heap_pages) = {}
      BY <2>2, <2>3, <3>1, NothingUnmapped
    <3> QED BY <2>2, <2>5, <3>2
  <2> QED BY <2>1, <2>4, <2>5
<1> QED BY <1>1, LastInit, LastStep, PTL DEF Spec

\* sys_read and sys_get_stats write to no page of the kernel: a block that wraps around the end
\* of the addresses ends on a page before its first one, as a size is an int, and is refused.
THEOREM KernelIsUntouched == Spec => []KernelStaysUntouched
<1>1. ASSUME LastChecked PROVE KernelStaysUntouched
  <2>1. SUFFICES ASSUME last.call \in {"read", "get_stats"}, last.result >= 0
                 PROVE  \A p \in Pages : p >= USER_FIRST_PAGE
    BY DEF KernelStaysUntouched
  <2>2. /\ last.buffer \in 0 .. ADDRESSES - 1 /\ last.size \in Nat /\ last.heap_pages \in HeapPages
        /\ 2 * last.size < ADDRESSES
        /\ access_ok("VERIFY_WRITE", last.buffer, last.size, last.heap_pages)
    BY <1>1, <2>1 DEF LastChecked
  <2>3. Pages = BlockPages(last.buffer, last.size)
    BY <2>2, PagesAre
  <2> QED BY <2>2, <2>3, AcceptedBlocks
<1> QED BY <1>1, LastInit, LastStep, PTL DEF Spec

-----------------------------------------------------------------------------
(* Recursive functions: induction over the numbers in a set. *)

LEMMA Induction ==
  ASSUME NEW T \in SUBSET Nat, 0 \in T, \A n \in T : n + 1 \in T
  PROVE  T = Nat
<1>1. SUFFICES ASSUME Nat \ T # {} PROVE FALSE
  OBVIOUS
<1>2. PICK x \in Nat \ T : \A y \in Nat \ T : ~ (<<y, x>> \in OpToRel(<, Nat))
  <2>1. Nat \ T \subseteq Nat
    OBVIOUS
  <2> QED BY <1>1, <2>1, NatLessThanWellFounded, WFMin
<1>a. x \in Nat /\ x \notin T
  BY Zenon
<1>3. x # 0 /\ x - 1 \in Nat
  BY <1>a
<1>4. <<x - 1, x>> \in OpToRel(<, Nat)
  <2>1. x - 1 < x
    BY <1>3
  <2> QED BY <1>3, <2>1, Zenon DEF OpToRel
<1>5. x - 1 \in T
  BY <1>2, <1>3, <1>4
<1>6. (x - 1) + 1 \in T
  BY <1>5
<1> QED BY <1>a, <1>3, <1>6

\* The same up to a bound.
LEMMA BoundedInduction ==
  ASSUME NEW n \in Nat, NEW T, 0 \in T, \A i \in 1 .. n : i - 1 \in T => i \in T
  PROVE  \A i \in 0 .. n : i \in T
<1> DEFINE U == {i \in Nat : i <= n => i \in T}
<1>1. 0 \in U
  OBVIOUS
<1>2. \A i \in U : i + 1 \in U
  <2>1. SUFFICES ASSUME NEW i \in U, i + 1 <= n PROVE i + 1 \in T
    OBVIOUS
  <2>2. i \in T /\ i + 1 \in 1 .. n /\ (i + 1) - 1 = i
    BY <2>1
  <2> QED BY <2>2
<1>3. U = Nat
  <2>1. U \in SUBSET Nat
    OBVIOUS
  <2> HIDE DEF U
  <2> QED BY <1>1, <1>2, <2>1, Induction
<1> QED BY <1>3

Steps(f, c, G, n) == f[0] = c /\ \A i \in 1 .. n : f[i] = G[i][f[i - 1]]

\* A function is defined by its first value and a step from each to the next.
LEMMA Recursion ==
  ASSUME NEW n \in Nat, NEW S, NEW c \in S, NEW G \in [1 .. n -> [S -> S]]
  PROVE  \E f \in [0 .. n -> S] : Steps(f, c, G, n)
<1> DEFINE Good(f, m) == f[0] = c /\ \A i \in 1 .. m : f[i] = G[i][f[i - 1]]
           T == {m \in 0 .. n : \E f \in [0 .. n -> S] : Good(f, m)}
<1>1. 0 \in T
  <2>1. [i \in 0 .. n |-> c] \in [0 .. n -> S] /\ Good([i \in 0 .. n |-> c], 0)
    OBVIOUS
  <2>2. \E f \in [0 .. n -> S] : Good(f, 0)
    <3> HIDE DEF Good
    <3> QED BY <2>1
  <2> QED BY <2>2
<1>2. ASSUME NEW m \in 1 .. n, m - 1 \in T PROVE m \in T
  <2>1. PICK f \in [0 .. n -> S] : Good(f, m - 1)
    BY <1>2
  <2>2. m - 1 \in 0 .. n /\ f[m - 1] \in S /\ G[m] \in [S -> S]
    OBVIOUS
  <2>3. G[m][f[m - 1]] \in S
    BY <2>2
  <2> DEFINE g == [f EXCEPT ![m] = G[m][f[m - 1]]]
  <2>4. g \in [0 .. n -> S]
    BY <2>3
  <2>5. \A i \in 0 .. n : g[i] = IF i = m THEN G[m][f[m - 1]] ELSE f[i]
    OBVIOUS
  <2> HIDE DEF g
  <2>6. g[0] = c
    BY <2>1, <2>5
  <2>7. ASSUME NEW i \in 1 .. m PROVE g[i] = G[i][g[i - 1]]
    <3>1. i \in 0 .. n /\ i - 1 \in 0 .. n /\ i - 1 # m
      OBVIOUS
    <3>2. CASE i = m
      BY <3>1, <3>2, <2>5
    <3>3. CASE i # m
      <4>1. i \in 1 .. m - 1
        BY <3>3
      <4> QED BY <3>1, <3>3, <4>1, <2>1, <2>5
    <3> QED BY <3>2, <3>3
  <2> QED BY <2>4, <2>6, <2>7
<1>3. n \in T
  <2> HIDE DEF T
  <2>1. \A m \in 1 .. n : m - 1 \in T => m \in T
    BY <1>2
  <2>2. \A m \in 0 .. n : m \in T
    BY <1>1, <2>1, BoundedInduction
  <2> QED BY <2>2
<1> QED BY <1>3 DEF Steps

-----------------------------------------------------------------------------
(* The screen *)

LEMMA Division ==
  ASSUME NEW n \in Nat, n > 0, NEW q \in Nat, NEW r \in 0 .. n - 1
  PROVE  /\ (q * n + r) \div n = q
         /\ (q * n + r) % n = r
<1>1. PICK a \in Nat : a = q * n + r
  OBVIOUS
<1>2. PICK p \in Int, s \in 0 .. n - 1 : a = n * p + s /\ p = a \div n /\ s = a % n
  OBVIOUS
<1>3. p < q + 1
  <2>1. SUFFICES ASSUME p >= q + 1 PROVE FALSE
    OBVIOUS
  <2>2. PICK d \in Nat : p = q + 1 + d
    <3>1. p - (q + 1) \in Nat /\ p = q + 1 + (p - (q + 1))
      BY <2>1
    <3> QED BY <3>1
  <2>3. n * p = n * q + n + n * d
    BY <2>2
  <2>4. n * d \in Nat /\ n * q = q * n /\ n * q \in Nat
    OBVIOUS
  <2> QED BY <1>1, <1>2, <2>3, <2>4
<1>4. q < p + 1
  <2>1. SUFFICES ASSUME q >= p + 1 PROVE FALSE
    OBVIOUS
  <2>2. PICK d \in Nat : q = p + 1 + d
    <3>1. q - (p + 1) \in Nat /\ q = p + 1 + (q - (p + 1))
      BY <2>1
    <3> QED BY <3>1
  <2>3. q * n = n * p + n + n * d
    BY <2>2
  <2>4. n * d \in Nat /\ n * p \in Int
    OBVIOUS
  <2> QED BY <1>1, <1>2, <2>3, <2>4
<1>5. p = q
  BY <1>3, <1>4
<1>6. s = r
  <2>1. n * p = q * n /\ n * p \in Int
    BY <1>5
  <2> QED BY <1>1, <1>2, <2>1
<1> QED BY <1>1, <1>2, <1>5, <1>6

Columns == 0 .. NUM_COLUMNS - 1
Rows    == 0 .. NUM_ROWS - 1

\* The cells are numbered row by row.
LEMMA CellNumbers ==
  /\ Cells \in Nat /\ Cells > 0
  /\ \A i \in Columns, j \in Rows :
       LET n == j * NUM_COLUMNS + i
       IN  n \in 0 .. Cells - 1 /\ n % NUM_COLUMNS = i /\ n \div NUM_COLUMNS = j
  /\ \A n \in 0 .. Cells - 1 :
       /\ n % NUM_COLUMNS \in Columns /\ n \div NUM_COLUMNS \in Rows
       /\ n = (n \div NUM_COLUMNS) * NUM_COLUMNS + (n % NUM_COLUMNS)
<1>1. NUM_COLUMNS \in Nat /\ NUM_COLUMNS > 0 /\ NUM_ROWS \in Nat /\ NUM_ROWS > 0
  BY ScreenAssumption
<1>2. ASSUME NEW j \in Nat, NEW k \in Nat, j < k
      PROVE  j * NUM_COLUMNS + NUM_COLUMNS <= k * NUM_COLUMNS
  <2>1. PICK d \in Nat : k = j + 1 + d
    <3>1. k - (j + 1) \in Nat /\ k = j + 1 + (k - (j + 1))
      BY <1>2
    <3> QED BY <3>1
  <2>2. k * NUM_COLUMNS = j * NUM_COLUMNS + NUM_COLUMNS + d * NUM_COLUMNS
    BY <1>1, <2>1
  <2>3. d * NUM_COLUMNS \in Nat /\ j * NUM_COLUMNS \in Nat
    BY <1>1
  <2> QED BY <1>1, <2>2, <2>3
<1>3. Cells \in Nat /\ Cells > 0 /\ Cells = NUM_ROWS * NUM_COLUMNS
  <2>1. NUM_ROWS * NUM_COLUMNS \in Nat /\ 0 * NUM_COLUMNS = 0
    BY <1>1
  <2>2. 0 * NUM_COLUMNS + NUM_COLUMNS <= NUM_ROWS * NUM_COLUMNS
    BY <1>1, <1>2
  <2>3. Cells = NUM_ROWS * NUM_COLUMNS
    BY <1>1 DEF Cells
  <2> QED BY <1>1, <2>1, <2>2, <2>3
<1>4. ASSUME NEW i \in Columns, NEW j \in Rows
      PROVE  /\ j * NUM_COLUMNS + i \in 0 .. Cells - 1
             /\ (j * NUM_COLUMNS + i) % NUM_COLUMNS = i /\ (j * NUM_COLUMNS + i) \div NUM_COLUMNS = j
  <2>1. i \in 0 .. NUM_COLUMNS - 1 /\ j \in Nat /\ j < NUM_ROWS
    BY <1>1 DEF Columns, Rows
  <2>2. j * NUM_COLUMNS + NUM_COLUMNS <= Cells
    BY <1>1, <1>2, <1>3, <2>1
  <2>3. j * NUM_COLUMNS \in Nat
    BY <1>1, <2>1
  <2>4. j * NUM_COLUMNS + i \in 0 .. Cells - 1
    BY <1>1, <1>3, <2>1, <2>2, <2>3
  <2> QED BY <1>1, <2>1, <2>4, Division
<1>5. ASSUME NEW n \in 0 .. Cells - 1
      PROVE  /\ n % NUM_COLUMNS \in Columns /\ n \div NUM_COLUMNS \in Rows
             /\ n = (n \div NUM_COLUMNS) * NUM_COLUMNS + (n % NUM_COLUMNS)
  <2>1. PICK q \in Int, r \in 0 .. NUM_COLUMNS - 1 :
          /\ n = NUM_COLUMNS * q + r
          /\ q = n \div NUM_COLUMNS /\ r = n % NUM_COLUMNS
    BY <1>1, <1>3
  <2>2. q >= 0
    BY <1>1, <1>3, <2>1
  <2>3. q < NUM_ROWS
    <3>1. SUFFICES ASSUME q >= NUM_ROWS PROVE FALSE
      BY <1>1
    <3>2. NUM_ROWS * NUM_COLUMNS + NUM_COLUMNS <= (q + 1) * NUM_COLUMNS
      BY <1>1, <1>2, <2>2, <3>1
    <3>3. (q + 1) * NUM_COLUMNS = NUM_COLUMNS * q + NUM_COLUMNS /\ NUM_COLUMNS * q \in Int
      BY <1>1
    <3> QED BY <1>1, <1>3, <2>1, <3>2, <3>3
  <2>4. NUM_COLUMNS * q = q * NUM_COLUMNS
    BY <1>1
  <2> QED BY <1>1, <2>1, <2>2, <2>3, <2>4 DEF Columns, Rows
<1> QED BY <1>3, <1>4, <1>5

\* Positions after a line feed or another character.
LEMMA NextPosition ==
  ASSUME NEW i \in Columns, NEW j \in Rows
  PROVE  LET n == j * NUM_COLUMNS + i
             down == ((j + 1) % NUM_ROWS) * NUM_COLUMNS + 0
         IN  /\ (j + 1) % NUM_ROWS \in Rows
             /\ ((n \div NUM_COLUMNS + 1) * NUM_COLUMNS) % Cells = down
             /\ (n + 1) % Cells = IF i + 1 < NUM_COLUMNS THEN j * NUM_COLUMNS + (i + 1) ELSE down
<1> DEFINE n == j * NUM_COLUMNS + i
           r == (j + 1) % NUM_ROWS
<1>1. /\ NUM_COLUMNS \in Nat /\ NUM_COLUMNS > 0 /\ NUM_ROWS \in Nat /\ NUM_ROWS > 0
      /\ i \in Nat /\ i < NUM_COLUMNS /\ j \in Nat /\ j < NUM_ROWS
  BY ScreenAssumption DEF Columns, Rows
<1>2. Cells \in Nat /\ Cells > 0 /\ Cells = NUM_ROWS * NUM_COLUMNS
  <2>1. Cells = NUM_ROWS * NUM_COLUMNS
    BY <1>1 DEF Cells
  <2> QED BY <2>1, CellNumbers
<1>3. n \in 0 .. Cells - 1 /\ n \div NUM_COLUMNS = j
  BY CellNumbers
<1>4. \A m \in 0 .. Cells - 1 : m % Cells = m
  BY <1>2
<1>5. Cells % Cells = 0
  BY <1>2
<1>6. r = IF j + 1 < NUM_ROWS THEN j + 1 ELSE 0
  BY <1>1
<1>7. r \in Rows
  BY <1>1, <1>6 DEF Rows
<1>8. ((j + 1) * NUM_COLUMNS) % Cells = r * NUM_COLUMNS + 0
  <2>1. CASE j + 1 < NUM_ROWS
    <3>1. 0 \in Columns
      BY <1>1 DEF Columns
    <3>2. r * NUM_COLUMNS + 0 \in 0 .. Cells - 1
      BY <1>7, <3>1, CellNumbers
    <3>3. r * NUM_COLUMNS + 0 = (j + 1) * NUM_COLUMNS
      BY <1>1, <1>6, <2>1
    <3> QED BY <1>4, <3>2, <3>3
  <2>2. CASE j + 1 >= NUM_ROWS
    <3>1. j + 1 = NUM_ROWS /\ r = 0
      BY <1>1, <1>6, <2>2
    <3>2. (j + 1) * NUM_COLUMNS = Cells
      BY <1>2, <3>1
    <3>3. 0 * NUM_COLUMNS + 0 = 0
      BY <1>1
    <3> QED BY <1>5, <3>1, <3>2, <3>3
  <2> QED BY <1>1, <2>1, <2>2
<1>9. (n + 1) % Cells = IF i + 1 < NUM_COLUMNS THEN j * NUM_COLUMNS + (i + 1) ELSE r * NUM_COLUMNS + 0
  <2>1. j * NUM_COLUMNS \in Nat
    BY <1>1
  <2>2. CASE i + 1 < NUM_COLUMNS
    <3>1. i + 1 \in Columns
      BY <1>1, <2>2 DEF Columns
    <3>2. j * NUM_COLUMNS + (i + 1) \in 0 .. Cells - 1
      BY <3>1, CellNumbers
    <3>3. n + 1 = j * NUM_COLUMNS + (i + 1)
      BY <1>1, <2>1
    <3> QED BY <1>4, <2>2, <3>2, <3>3
  <2>3. CASE i + 1 >= NUM_COLUMNS
    <3>1. n + 1 = (j + 1) * NUM_COLUMNS
      <4>1. (j + 1) * NUM_COLUMNS = j * NUM_COLUMNS + NUM_COLUMNS /\ i + 1 = NUM_COLUMNS
        BY <1>1, <2>3
      <4> QED BY <1>1, <2>1, <4>1
    <3> QED BY <1>1, <1>8, <2>3, <3>1
  <2> QED BY <1>1, <2>2, <2>3
<1> QED BY <1>3, <1>7, <1>8, <1>9

Consoles(S) == [x : Columns, y : Rows, screen : [Cell -> S]]

LEMMA ScreenSet ==
  \A i, j, s, t : [[x |-> i, y |-> j, screen |-> s] EXCEPT !.screen = t] = [x |-> i, y |-> j, screen |-> t]
OBVIOUS

LEMMA CursorSet ==
  \A i, j, s, k : [[x |-> i, y |-> j, screen |-> s] EXCEPT !.x = k] = [x |-> k, y |-> j, screen |-> s]
OBVIOUS

LEMMA RowSet ==
  \A i, j, s, k : [[x |-> i, y |-> j, screen |-> s] EXCEPT !.y = k] = [x |-> i, y |-> k, screen |-> s]
OBVIOUS

\* A character moves the cursor, and changes the cell it was at unless it is a line feed.
LEMMA Printc ==
  ASSUME NEW S, NEW c \in Consoles(S), NEW ch \in S
  PROVE  /\ printc(c, ch) \in Consoles(S)
         /\ Position(printc(c, ch)) =
              IF ch = NewLine THEN ((Position(c) \div NUM_COLUMNS + 1) * NUM_COLUMNS) % Cells
              ELSE (Position(c) + 1) % Cells
         /\ \A n \in 0 .. Cells - 1 :
              At(printc(c, ch), n) = IF ch # NewLine /\ n = Position(c) THEN ch ELSE At(c, n)
<1> DEFINE d == printc(c, ch)
           drawn == [cell \in Cell |-> IF cell = <<c.x, c.y>> THEN ch ELSE c.screen[cell]]
<1>1. /\ c = [x |-> c.x, y |-> c.y, screen |-> c.screen]
      /\ c.x \in Columns /\ c.y \in Rows /\ c.screen \in [Cell -> S]
  BY DEF Consoles
<1>2. PICK i \in Columns, j \in Rows : i = c.x /\ j = c.y
  BY <1>1
<1>3. NUM_COLUMNS \in Nat /\ NUM_COLUMNS > 0 /\ i \in Nat /\ i < NUM_COLUMNS /\ 0 \in Columns
  BY ScreenAssumption DEF Columns
<1>4. PICK down \in Rows : down = (j + 1) % NUM_ROWS
  BY NextPosition
<1>5. drawn \in [Cell -> S]
  BY <1>1
<1>6. d = CASE ch = NewLine -> [x |-> 0, y |-> down, screen |-> c.screen]
            [] ch # NewLine /\ i + 1 < NUM_COLUMNS -> [x |-> i + 1, y |-> j, screen |-> drawn]
            [] OTHER -> [x |-> 0, y |-> down, screen |-> drawn]
  <2>1. CASE ch = NewLine
    <3>1. d = NextRow(c)
      BY <2>1 DEF printc
    <3> QED BY <1>1, <1>2, <1>4, <2>1, <3>1 DEF NextRow
  <2>2. CASE ch # NewLine
    <3> DEFINE shown == [c EXCEPT !.screen = [cell \in Cell |->
                                                IF cell = <<c.x, c.y>> THEN ch ELSE @[cell]],
                                  !.x = @ + 1]
    <3>1. shown = [x |-> i + 1, y |-> j, screen |-> drawn]
      <4>1. c = [x |-> i, y |-> j, screen |-> c.screen]
        BY <1>1, <1>2
      <4>2. [c EXCEPT !.screen = drawn] = [x |-> i, y |-> j, screen |-> drawn]
        <5> HIDE DEF drawn
        <5> QED BY <4>1, ScreenSet
      <4>3. shown = [[c EXCEPT !.screen = drawn] EXCEPT !.x = i + 1]
        BY <1>2
      <4> HIDE DEF drawn, shown
      <4> QED BY <4>2, <4>3, CursorSet
    <3>2. d = IF Wraps(shown.x) THEN NextRow(shown) ELSE shown
      BY <2>2 DEF printc
    <3> HIDE DEF shown, drawn, d
    <3>3. shown.x = i + 1 /\ NextRow(shown) = [x |-> 0, y |-> down, screen |-> drawn]
      <4>1. NextRow(shown) = [[shown EXCEPT !.x = 0] EXCEPT !.y = down]
        BY <1>4, <3>1 DEF NextRow
      <4>2. [shown EXCEPT !.x = 0] = [x |-> 0, y |-> j, screen |-> drawn]
        BY <3>1, CursorSet
      <4> QED BY <3>1, <4>1, <4>2, RowSet
    <3>4. Wraps(shown.x) <=> ~(i + 1 < NUM_COLUMNS)
      BY <1>3, <3>3 DEF Wraps
    <3> QED BY <2>2, <3>1, <3>2, <3>3, <3>4
  <2> QED BY <2>1, <2>2
<1> HIDE DEF d
<1>7. Position(c) = j * NUM_COLUMNS + i
  BY <1>2 DEF Position
<1>8. \A n \in 0 .. Cells - 1 :
        /\ <<n % NUM_COLUMNS, n \div NUM_COLUMNS>> \in Cell
        /\ drawn[<<n % NUM_COLUMNS, n \div NUM_COLUMNS>>] = IF n = Position(c) THEN ch ELSE At(c, n)
  <2>1. SUFFICES ASSUME NEW n \in 0 .. Cells - 1
                 PROVE  /\ <<n % NUM_COLUMNS, n \div NUM_COLUMNS>> \in Cell
                        /\ drawn[<<n % NUM_COLUMNS, n \div NUM_COLUMNS>>] =
                             IF n = Position(c) THEN ch ELSE At(c, n)
    OBVIOUS
  <2>2. PICK p \in Columns, q \in Rows :
          /\ p = n % NUM_COLUMNS /\ q = n \div NUM_COLUMNS /\ n = q * NUM_COLUMNS + p
    BY CellNumbers
  <2>3. <<p, q>> \in Cell
    BY DEF Cell, Columns, Rows
  <2>4. <<p, q>> = <<i, j>> <=> n = j * NUM_COLUMNS + i
    <3>1. n = j * NUM_COLUMNS + i => p = i /\ q = j
      BY <2>2, CellNumbers
    <3> QED BY <2>2, <3>1
  <2> QED BY <1>2, <1>7, <2>2, <2>3, <2>4 DEF At
<1> HIDE DEF drawn
<1>9. CASE ch = NewLine
  <2>1. d = [x |-> 0, y |-> down, screen |-> c.screen]
    BY <1>6, <1>9
  <2>2. d \in Consoles(S)
    BY <1>1, <1>3, <2>1 DEF Consoles
  <2>3. Position(d) = down * NUM_COLUMNS + 0
    BY <2>1 DEF Position
  <2>4. Position(d) = ((Position(c) \div NUM_COLUMNS + 1) * NUM_COLUMNS) % Cells
    BY <1>4, <1>7, <2>3, NextPosition
  <2>5. \A n \in 0 .. Cells - 1 : At(d, n) = At(c, n)
    BY <2>1 DEF At
  <2> QED BY <1>9, <2>2, <2>4, <2>5 DEF d
<1>10. CASE ch # NewLine
  <2>1. d.screen = drawn
    BY <1>6, <1>10
  <2>2. \A n \in 0 .. Cells - 1 : At(d, n) = IF n = Position(c) THEN ch ELSE At(c, n)
    BY <1>8, <2>1 DEF At
  <2>3. CASE i + 1 < NUM_COLUMNS
    <3>1. d = [x |-> i + 1, y |-> j, screen |-> drawn]
      BY <1>6, <1>10, <2>3
    <3>2. i + 1 \in Columns
      BY <1>3, <2>3 DEF Columns
    <3>3. d \in Consoles(S)
      BY <1>5, <3>1, <3>2 DEF Consoles
    <3>4. Position(d) = j * NUM_COLUMNS + (i + 1)
      BY <3>1 DEF Position
    <3>5. Position(d) = (Position(c) + 1) % Cells
      BY <1>7, <2>3, <3>4, NextPosition
    <3> QED BY <1>10, <2>2, <3>3, <3>5 DEF d
  <2>4. CASE ~(i + 1 < NUM_COLUMNS)
    <3>1. d = [x |-> 0, y |-> down, screen |-> drawn]
      BY <1>6, <1>10, <2>4
    <3>2. d \in Consoles(S)
      BY <1>3, <1>5, <3>1 DEF Consoles
    <3>3. Position(d) = down * NUM_COLUMNS + 0
      BY <3>1 DEF Position
    <3>4. Position(d) = (Position(c) + 1) % Cells
      BY <1>4, <1>7, <2>4, <3>3, NextPosition
    <3> QED BY <1>10, <2>2, <3>2, <3>4 DEF d
  <2> QED BY <2>3, <2>4
<1> QED BY <1>9, <1>10

\* A text moves the cursor and changes the screen character by character.
LEMMA PrintText ==
  ASSUME NEW S, NEW c \in Consoles(S), NEW text \in Seq(S)
  PROVE  \E f \in [0 .. Len(text) -> Consoles(S)] :
           /\ f[0] = c /\ \A i \in 1 .. Len(text) : f[i] = printc(f[i - 1], text[i])
           /\ print(c, text) = f[Len(text)]
<1>1. Len(text) \in Nat /\ \A i \in 1 .. Len(text) : text[i] \in S
  OBVIOUS
<1>2. PICK n \in Nat : n = Len(text)
  BY <1>1
<1> DEFINE G == [i \in 1 .. n |-> [d \in Consoles(S) |-> printc(d, text[i])]]
<1>3. \A i \in 1 .. n, d \in Consoles(S) : printc(d, text[i]) \in Consoles(S)
  BY <1>1, <1>2, Printc
<1>4. G \in [1 .. n -> [Consoles(S) -> Consoles(S)]]
  BY <1>3
<1> HIDE DEF G
<1>5. PICK f \in [0 .. n -> Consoles(S)] : f[0] = c /\ \A i \in 1 .. n : f[i] = G[i][f[i - 1]]
  <2>1. PICK D : D = Consoles(S)
    OBVIOUS
  <2>2. n \in Nat /\ c \in D /\ G \in [1 .. n -> [D -> D]]
    BY <1>2, <1>4, <2>1
  <2>3. \E f \in [0 .. n -> D] : Steps(f, c, G, n)
    BY <2>2, Recursion
  <2> QED BY <2>1, <2>3 DEF Steps
<1>6. \A i \in 1 .. n : f[i] = printc(f[i - 1], text[i])
  <2>1. SUFFICES ASSUME NEW i \in 1 .. n PROVE f[i] = printc(f[i - 1], text[i])
    OBVIOUS
  <2>2. i - 1 \in 0 .. n /\ f[i - 1] \in Consoles(S)
    BY <1>5
  <2> QED BY <1>5, <2>2 DEF G
<1> DEFINE Def(g) == [i \in 0 .. Len(text) |-> IF i = 0 THEN c ELSE printc(g[i - 1], text[i])]
           shown == CHOOSE g : g = Def(g)
<1>7. f = Def(f)
  <2>1. \A i \in 0 .. n : f[i] = IF i = 0 THEN c ELSE printc(f[i - 1], text[i])
    BY <1>5, <1>6
  <2>2. f = [i \in 0 .. n |-> f[i]]
    BY <1>5
  <2> QED BY <1>2, <2>1, <2>2
<1>8. shown = Def(shown)
  <2> HIDE DEF Def
  <2> QED BY <1>7
<1>9. print(c, text) = shown[n]
  BY <1>2 DEF print
<1>10. \A i \in 0 .. n : shown[i] = IF i = 0 THEN c ELSE printc(shown[i - 1], text[i])
  <2> HIDE DEF shown
  <2> QED BY <1>2, <1>8
<1> HIDE DEF shown, Def
<1>11. \A i \in 0 .. n : shown[i] = f[i]
  <2> DEFINE T == {i \in 0 .. n : shown[i] = f[i]}
  <2>1. 0 \in T
    BY <1>5, <1>10
  <2>2. ASSUME NEW i \in 1 .. n, i - 1 \in T PROVE i \in T
    BY <1>6, <1>10, <2>2
  <2>3. \A i \in 0 .. n : i \in T
    <3> HIDE DEF T
    <3> QED BY <2>1, <2>2, BoundedInduction
  <2> QED BY <2>3
<1>12. print(c, text) = f[n]
  BY <1>9, <1>11
<1>13. /\ f \in [0 .. Len(text) -> Consoles(S)] /\ f[0] = c
       /\ \A i \in 1 .. Len(text) : f[i] = printc(f[i - 1], text[i])
       /\ print(c, text) = f[Len(text)]
  BY <1>2, <1>5, <1>6, <1>12
<1> QED BY <1>13

\* What the cursor and the cells are after a text: the positions are those of Positions, and a
\* cell has the last character that was printed there.
LEMMA TextIsShown ==
  ASSUME NEW S, NEW c \in Consoles(S), NEW text \in Seq(S)
  PROVE  print(c, text) \in Consoles(S) /\ Shows(c, text, print(c, text))
<1>1. PICK f \in [0 .. Len(text) -> Consoles(S)] :
        /\ f[0] = c /\ \A i \in 1 .. Len(text) : f[i] = printc(f[i - 1], text[i])
        /\ print(c, text) = f[Len(text)]
  BY PrintText
<1>2. PICK n \in Nat : n = Len(text)
  OBVIOUS
<1>3. /\ \A i \in 0 .. n : f[i] \in Consoles(S)
      /\ \A i \in 1 .. n : text[i] \in S
      /\ f[0] = c /\ \A i \in 1 .. n : f[i] = printc(f[i - 1], text[i])
  BY <1>1, <1>2
<1>4. ASSUME NEW i \in 1 .. n
      PROVE  /\ Position(f[i]) =
                  IF text[i] = NewLine
                  THEN ((Position(f[i - 1]) \div NUM_COLUMNS + 1) * NUM_COLUMNS) % Cells
                  ELSE (Position(f[i - 1]) + 1) % Cells
             /\ \A m \in 0 .. Cells - 1 :
                  At(f[i], m) = IF text[i] # NewLine /\ m = Position(f[i - 1]) THEN text[i]
                                ELSE At(f[i - 1], m)
  <2>1. i - 1 \in 0 .. n
    OBVIOUS
  <2>2. f[i - 1] \in Consoles(S) /\ text[i] \in S /\ f[i] = printc(f[i - 1], text[i])
    BY <1>3, <2>1
  <2> QED BY <2>2, Printc
\* Positions
<1> DEFINE Def(g) == [i \in 0 .. Len(text) |->
                        IF i = 0 THEN Position(c)
                        ELSE IF text[i] = NewLine
                             THEN ((g[i - 1] \div NUM_COLUMNS + 1) * NUM_COLUMNS) % Cells
                             ELSE (g[i - 1] + 1) % Cells]
           after == CHOOSE g : g = Def(g)
           at == [i \in 0 .. n |-> Position(f[i])]
<1>5. Positions(Position(c), text) = after
  BY DEF Positions
<1>6. at = Def(at)
  <2>1. \A i \in 0 .. n :
          at[i] = IF i = 0 THEN Position(c)
                  ELSE IF text[i] = NewLine
                       THEN ((at[i - 1] \div NUM_COLUMNS + 1) * NUM_COLUMNS) % Cells
                       ELSE (at[i - 1] + 1) % Cells
    <3>1. SUFFICES ASSUME NEW i \in 0 .. n, i # 0
                   PROVE  at[i] = IF text[i] = NewLine
                                  THEN ((at[i - 1] \div NUM_COLUMNS + 1) * NUM_COLUMNS) % Cells
                                  ELSE (at[i - 1] + 1) % Cells
      BY <1>2, <1>3
    <3>2. i \in 1 .. n /\ i - 1 \in 0 .. n
      BY <1>2, <3>1
    <3>3. at[i] = Position(f[i]) /\ at[i - 1] = Position(f[i - 1])
      BY <3>2
    <3> HIDE DEF at
    <3> QED BY <1>4, <3>2, <3>3
  <2>2. at = [i \in 0 .. n |-> at[i]]
    OBVIOUS
  <2> HIDE DEF at
  <2> QED BY <1>2, <2>1, <2>2
<1>7. after = Def(after)
  <2> HIDE DEF Def, at
  <2> QED BY <1>6
<1>8. /\ after[0] = Position(c)
      /\ \A i \in 1 .. n : after[i] = IF text[i] = NewLine
                                      THEN ((after[i - 1] \div NUM_COLUMNS + 1) * NUM_COLUMNS) % Cells
                                      ELSE (after[i - 1] + 1) % Cells
  <2> HIDE DEF after
  <2>1. after = [i \in 0 .. n |->
                   IF i = 0 THEN Position(c)
                   ELSE IF text[i] = NewLine
                        THEN ((after[i - 1] \div NUM_COLUMNS + 1) * NUM_COLUMNS) % Cells
                        ELSE (after[i - 1] + 1) % Cells]
    BY <1>2, <1>7
  <2>2. ASSUME NEW i \in 0 .. n
        PROVE  after[i] = IF i = 0 THEN Position(c)
                          ELSE IF text[i] = NewLine
                               THEN ((after[i - 1] \div NUM_COLUMNS + 1) * NUM_COLUMNS) % Cells
                               ELSE (after[i - 1] + 1) % Cells
    BY <2>1, Zenon
  <2> QED BY <1>2, <2>2
<1> HIDE DEF after, at, Def
<1>9. \A i \in 0 .. n : after[i] = Position(f[i])
  <2> DEFINE T == {i \in 0 .. n : after[i] = Position(f[i])}
  <2>1. 0 \in T
    BY <1>2, <1>3, <1>8
  <2>2. ASSUME NEW i \in 1 .. n, i - 1 \in T PROVE i \in T
    BY <1>4, <1>8, <2>2
  <2>3. \A i \in 0 .. n : i \in T
    <3> HIDE DEF T
    <3> QED BY <1>2, <2>1, <2>2, BoundedInduction
  <2> QED BY <2>3
\* Cells
<1> DEFINE Hits(k, m) == {i \in 1 .. k : text[i] # NewLine /\ after[i - 1] = m}
           Left(k, m) == \/ Hits(k, m) = {} /\ At(f[k], m) = At(c, m)
                         \/ \E i \in Hits(k, m) : /\ \A j \in Hits(k, m) : j <= i
                                                  /\ At(f[k], m) = text[i]
<1>10. ASSUME NEW m \in 0 .. Cells - 1 PROVE Left(n, m)
  <2> DEFINE T == {k \in 0 .. n : Left(k, m)}
  <2>1. 0 \in T
    BY <1>2, <1>3
  <2>2. ASSUME NEW k \in 1 .. n, k - 1 \in T PROVE k \in T
    <3>1. k - 1 \in 0 .. n /\ after[k - 1] = Position(f[k - 1])
      BY <1>9
    <3>2. At(f[k], m) = IF text[k] # NewLine /\ m = Position(f[k - 1]) THEN text[k] ELSE At(f[k - 1], m)
      BY <1>4
    <3>3. CASE text[k] # NewLine /\ m = Position(f[k - 1])
      <4>1. k \in Hits(k, m) /\ \A j \in Hits(k, m) : j <= k
        BY <3>1, <3>3
      <4>2. At(f[k], m) = text[k]
        BY <3>2, <3>3
      <4> HIDE DEF Hits
      <4> QED BY <4>1, <4>2
    <3>4. CASE ~(text[k] # NewLine /\ m = Position(f[k - 1]))
      <4>1. Hits(k, m) = Hits(k - 1, m)
        BY <3>1, <3>4
      <4>2. At(f[k], m) = At(f[k - 1], m) /\ Left(k - 1, m)
        BY <2>2, <3>2, <3>4
      <4> HIDE DEF Hits
      <4> QED BY <4>1, <4>2
    <3> QED BY <3>3, <3>4
  <2>3. \A k \in 0 .. n : k \in T
    <3> HIDE DEF T
    <3> QED BY <1>2, <2>1, <2>2, BoundedInduction
  <2> HIDE DEF Left
  <2> QED BY <1>2, <2>3
<1>11. ASSUME NEW m \in 0 .. Cells - 1
       PROVE  At(f[n], m) = IF Hits(n, m) = {} THEN At(c, m)
                            ELSE text[CHOOSE i \in Hits(n, m) : \A j \in Hits(n, m) : j <= i]
  <2>1. CASE Hits(n, m) = {}
    BY <1>10, <2>1
  <2>2. CASE Hits(n, m) # {}
    <3>1. PICK i \in Hits(n, m) : (\A j \in Hits(n, m) : j <= i) /\ At(f[n], m) = text[i]
      BY <1>10, <2>2
    <3>2. Hits(n, m) \subseteq Int
      OBVIOUS
    <3> HIDE DEF Hits
    <3>3. \A j \in Hits(n, m) : (\A h \in Hits(n, m) : h <= j) => j = i
      BY <3>1, <3>2
    <3>4. (CHOOSE j \in Hits(n, m) : \A h \in Hits(n, m) : h <= j) = i
      BY <3>1, <3>3
    <3> QED BY <2>2, <3>1, <3>4
  <2> QED BY <2>1, <2>2
<1>12. print(c, text) = f[n] /\ f[n] \in Consoles(S) /\ Position(f[n]) = after[n]
  BY <1>1, <1>2, <1>3, <1>9
<1>13. Shows(c, text, f[n])
  BY <1>2, <1>5, <1>11, <1>12 DEF Shows
<1> QED BY <1>12, <1>13

-----------------------------------------------------------------------------
(* Writes *)

Char == {32} \cup {memory[a] : a \in 0 .. ADDRESSES - 1} \cup ClockFaces \cup 0 .. 255

LEMMA TextJoins ==
  ASSUME NEW addr \in Nat, NEW m \in Nat, NEW n \in Nat
  PROVE  /\ Text(addr, m) \in Seq(Char) /\ Len(Text(addr, m)) = m
         /\ Text(addr, m) \o Text(addr + m, n) = Text(addr, m + n)
<1>1. ADDRESSES \in Nat /\ ADDRESSES > 0
  BY Layout
<1>2. ASSUME NEW a \in Nat, NEW k \in Nat
      PROVE  /\ Text(a, k) \in Seq(Char) /\ Len(Text(a, k)) = k
             /\ \A i \in 1 .. k : Text(a, k)[i] = memory[(a + i - 1) % ADDRESSES]
  <2>1. \A i \in 1 .. k : (a + i - 1) % ADDRESSES \in 0 .. ADDRESSES - 1
    BY <1>1
  <2>2. \A i \in 1 .. k : memory[(a + i - 1) % ADDRESSES] \in Char
    BY <2>1 DEF Char
  <2>3. Text(a, k) = [i \in 1 .. k |-> memory[(a + i - 1) % ADDRESSES]]
    BY DEF Text
  <2> QED BY <2>2, <2>3
<1>3. addr + m \in Nat /\ m + n \in Nat
  OBVIOUS
<1> DEFINE l == Text(addr, m)
           r == Text(addr + m, n)
           t == Text(addr, m + n)
<1>4. /\ l \in Seq(Char) /\ Len(l) = m /\ \A i \in 1 .. m : l[i] = memory[(addr + i - 1) % ADDRESSES]
      /\ r \in Seq(Char) /\ Len(r) = n /\ \A i \in 1 .. n : r[i] = memory[(addr + m + i - 1) % ADDRESSES]
      /\ t \in Seq(Char) /\ Len(t) = m + n
      /\ \A i \in 1 .. m + n : t[i] = memory[(addr + i - 1) % ADDRESSES]
  BY <1>2, <1>3
<1> HIDE DEF l, r, t
<1>5. /\ l \o r \in Seq(Char) /\ Len(l \o r) = m + n
      /\ \A i \in 1 .. m + n : (l \o r)[i] = IF i <= m THEN l[i] ELSE r[i - m]
  <2>1. l \in Seq(Char) /\ r \in Seq(Char) /\ Len(l) = m /\ Len(r) = n
    BY <1>4
  <2>2. /\ Len(l \o r) = Len(l) + Len(r)
        /\ \A i \in 1 .. Len(l) + Len(r) : (l \o r)[i] = IF i <= Len(l) THEN l[i] ELSE r[i - Len(l)]
    BY <2>1, ConcatProperties
  <2>3. l \o r \in Seq(Char)
    BY <2>1, ConcatProperties
  <2> QED BY <2>1, <2>2, <2>3
<1>6. ASSUME NEW i \in 1 .. m + n PROVE (l \o r)[i] = t[i]
  <2>1. CASE i <= m
    <3>1. i \in 1 .. m
      BY <2>1
    <3> QED BY <1>4, <1>5, <2>1, <3>1
  <2>2. CASE i > m
    <3>1. i - m \in 1 .. n /\ addr + m + (i - m) - 1 = addr + i - 1
      BY <2>2
    <3>2. (l \o r)[i] = r[i - m]
      BY <1>5, <2>2
    <3>3. r[i - m] = memory[(addr + m + (i - m) - 1) % ADDRESSES]
      BY <1>4, <3>1
    <3> QED BY <1>4, <3>1, <3>2, <3>3
  <2>3. i <= m \/ i > m
    OBVIOUS
  <2> HIDE DEF l, r, t
  <2> QED BY <2>1, <2>2, <2>3
<1>7. l \o r = t
  BY <1>4, <1>5, <1>6, SeqEqual
<1> QED BY <1>4, <1>7 DEF l, r, t

\* len bytes in chunks: no less than size, less than one chunk more, and exactly size if the
\* chunks fit.
InChunks(size, len) ==
  /\ size <= len /\ len < size + CHUNK_SIZE
  /\ size <= CHUNK_SIZE \/ size % CHUNK_SIZE = 0 => len = size
  /\ \E q \in Nat : len = MoveSize(size) * q

\* The loop of sys_write prints a whole number of chunks from the start of the buffer.
LEMMA PrintedText ==
  ASSUME NEW buffer \in Nat, NEW size \in Nat
  PROVE  \E len \in Nat : Printed(buffer, size) = Text(buffer, len) /\ InChunks(size, len)
<1>1. CHUNK_SIZE \in Nat /\ CHUNK_SIZE > 0
  BY CallsAssumption
<1> DEFINE move_size == IF size < CHUNK_SIZE THEN size ELSE CHUNK_SIZE
           top == size + CHUNK_SIZE
<1>2. PICK move \in Nat : move = move_size
  BY <1>1
<1>3. move <= CHUNK_SIZE /\ move <= size /\ (size > 0 => move > 0) /\ top \in Nat
  BY <1>1, <1>2
<1> DEFINE Chunks(o) == (size - o + move - 1) \div move
           Def(g) == [offset \in 0 .. size + CHUNK_SIZE |->
                        IF offset >= size THEN <<>>
                        ELSE Chunk(buffer, offset, move_size) \o g[offset + move_size]]
           from == CHOOSE g : g = Def(g)
           f == [o \in 0 .. top |-> IF o >= size THEN <<>> ELSE Text(buffer + o, move * Chunks(o))]
<1>4. Printed(buffer, size) = from[0]
  BY DEF Printed, MoveSize
\* How many chunks are left at an offset.
<1>5. ASSUME NEW o \in 0 .. top, o < size
      PROVE  /\ Chunks(o) \in Nat /\ move * Chunks(o) \in Nat
             /\ o + move >= size => Chunks(o) = 1
             /\ o + move < size => move * Chunks(o) = move + move * Chunks(o + move)
  <2>1. move > 0
    BY <1>3, <1>5
  <2>2. CASE o + move >= size
    <3>1. size - o + move - 1 = 1 * move + (size - o - 1) /\ size - o - 1 \in 0 .. move - 1
      BY <1>5, <2>2
    <3>2. Chunks(o) = 1
      BY <2>1, <3>1, Division
    <3> QED BY <2>2, <3>2
  <2>3. CASE o + move < size
    <3>1. PICK a \in Nat : a = size - (o + move) + move - 1
      BY <2>3
    <3>2. PICK q \in Nat, r \in 0 .. move - 1 : a = q * move + r
      <4>1. a \div move \in Nat /\ a % move \in 0 .. move - 1 /\ a = (a \div move) * move + (a % move)
        BY <2>1
      <4> QED BY <4>1
    <3>3. a \div move = q
      BY <2>1, <3>2, Division
    <3>4. size - o + move - 1 = (q + 1) * move + r
      <4>1. (q + 1) * move = q * move + move /\ q * move \in Nat
        OBVIOUS
      <4> QED BY <3>1, <3>2, <4>1
    <3>5. Chunks(o) = q + 1
      BY <2>1, <3>4, Division
    <3>6. Chunks(o + move) = q
      BY <3>1, <3>3
    <3> HIDE DEF Chunks
    <3> QED BY <2>3, <3>5, <3>6
  <2> QED BY <2>2, <2>3
<1>6. ASSUME NEW o \in 0 .. top, o < size
      PROVE  o + move \in 0 .. top /\ f[o] = Chunk(buffer, o, move) \o f[o + move]
  <2>1. o + move \in 0 .. top /\ buffer + o \in Nat /\ buffer + (o + move) = (buffer + o) + move
    BY <1>1, <1>3, <1>6
  <2>2. Chunk(buffer, o, move) = Text(buffer + o, move)
    BY DEF Chunk
  <2>3. f[o] = Text(buffer + o, move * Chunks(o))
    BY <1>6
  <2>4. f[o + move] = IF o + move >= size THEN <<>> ELSE Text((buffer + o) + move, move * Chunks(o + move))
    BY <2>1
  <2> HIDE DEF f
  <2>5. CASE o + move >= size
    <3>1. move * Chunks(o) = move
      BY <1>5, <1>6, <2>5
    <3>2. Text(buffer + o, move) \in Seq(Char)
      BY <2>1, TextJoins
    <3>3. Text(buffer + o, move) \o <<>> = Text(buffer + o, move)
      BY <3>2
    <3> HIDE DEF Chunks
    <3> QED BY <2>1, <2>2, <2>3, <2>4, <2>5, <3>1, <3>3
  <2>6. CASE o + move < size
    <3>1. move * Chunks(o) = move + move * Chunks(o + move) /\ move * Chunks(o + move) \in Nat
      BY <1>5, <1>6, <2>1, <2>6
    <3> HIDE DEF Chunks
    <3>2. Text(buffer + o, move) \o Text((buffer + o) + move, move * Chunks(o + move)) =
            Text(buffer + o, move + move * Chunks(o + move))
      BY <2>1, <3>1, TextJoins
    <3>3. f[o + move] = Text((buffer + o) + move, move * Chunks(o + move))
      <4>1. ~(o + move >= size)
        BY <1>3, <2>6
      <4> QED BY <2>4, <4>1
    <3>4. f[o] = Text(buffer + o, move + move * Chunks(o + move))
      BY <2>3, <3>1
    <3>5. f[o] = Chunk(buffer, o, move) \o f[o + move]
      BY <2>2, <3>2, <3>3, <3>4
    <3> QED BY <2>1, <3>5
  <2> QED BY <2>1, <2>5, <2>6
<1>7. f = Def(f)
  <2>1. \A o \in 0 .. top : f[o] = IF o >= size THEN <<>> ELSE Chunk(buffer, o, move_size) \o f[o + move_size]
    <3>1. SUFFICES ASSUME NEW o \in 0 .. top
                   PROVE  f[o] = IF o >= size THEN <<>>
                                 ELSE Chunk(buffer, o, move_size) \o f[o + move_size]
      OBVIOUS
    <3>2. o >= size => f[o] = <<>>
      OBVIOUS
    <3>3. o < size => f[o] = Chunk(buffer, o, move_size) \o f[o + move_size]
      <4> HIDE DEF f
      <4> QED BY <1>2, <1>6
    <3> HIDE DEF f, from, Def, Chunks, move_size
    <3>4. o >= size \/ o < size
      BY <1>3
    <3>5. CASE o >= size
      BY <3>2, <3>5
    <3>6. CASE ~(o >= size)
      BY <3>3, <3>4, <3>6
    <3> QED BY <3>5, <3>6
  <2>2. f = [o \in 0 .. top |-> f[o]]
    OBVIOUS
  <2> HIDE DEF f
  <2> QED BY <2>1, <2>2
<1>8. from = Def(from)
  <2> HIDE DEF Def, f
  <2> QED BY <1>7
<1>9. \A o \in 0 .. top : from[o] = IF o >= size THEN <<>> ELSE Chunk(buffer, o, move) \o from[o + move]
  <2> HIDE DEF from
  <2>1. from = [offset \in 0 .. top |->
                  IF offset >= size THEN <<>> ELSE Chunk(buffer, offset, move) \o from[offset + move]]
    BY <1>2, <1>8
  <2> QED BY <2>1
<1> HIDE DEF from, Def
<1>10. from[0] = f[0]
  <2> DEFINE T == {i \in 0 .. top : \A o \in 0 .. top : o >= top - i => from[o] = f[o]}
  <2>1. 0 \in T
    <3>1. \A o \in 0 .. top : o >= top => o >= size
      BY <1>1
    <3> QED BY <1>3, <1>9, <3>1
  <2>2. ASSUME NEW i \in 1 .. top, i - 1 \in T PROVE i \in T
    <3>1. i \in 0 .. top /\ top - (i - 1) = (top - i) + 1
      BY <1>3
    <3>2. ASSUME NEW o \in 0 .. top, o >= top - i PROVE from[o] = f[o]
      <4>1. CASE o >= size
        BY <1>9, <4>1
      <4>2. CASE o < size
        <5>1. o + move \in 0 .. top /\ o + move >= top - (i - 1)
          <6>1. o + move \in 0 .. top
            BY <1>6, <4>2
          <6>2. move > 0
            BY <1>3, <4>2
          <6> QED BY <1>3, <3>2, <6>1, <6>2
        <5>2. from[o + move] = f[o + move]
          <6> HIDE DEF f
          <6> QED BY <2>2, <5>1
        <5>3. f[o] = Chunk(buffer, o, move) \o f[o + move]
          BY <1>6, <4>2
        <5>4. from[o] = Chunk(buffer, o, move) \o from[o + move]
          <6>1. ~(o >= size)
            BY <1>3, <4>2
          <6> QED BY <1>9, <6>1
        <5> HIDE DEF f
        <5> QED BY <5>2, <5>3, <5>4
      <4> QED BY <1>3, <4>1, <4>2
    <3> HIDE DEF f
    <3> QED BY <3>1, <3>2
  <2>3. \A i \in 0 .. top : i \in T
    <3> HIDE DEF T
    <3> QED BY <1>3, <2>1, <2>2, BoundedInduction
  <2> HIDE DEF f
  <2>4. top \in T /\ 0 \in 0 .. top /\ 0 >= top - top
    BY <1>3, <2>3
  <2> QED BY <2>4
\* The length.
<1>11. CASE size = 0
  <2>1. from[0] = <<>>
    BY <1>3, <1>9, <1>11
  <2>2. Text(buffer, 0) = <<>>
    <3>1. Text(buffer, 0) \in Seq(Char) /\ Len(Text(buffer, 0)) = 0
      BY TextJoins
    <3> QED BY <3>1, EmptySeq
  <2>3. 0 \in Nat /\ Printed(buffer, size) = Text(buffer, 0) /\ size <= 0 /\ 0 < size + CHUNK_SIZE
    BY <1>1, <1>4, <1>11, <2>1, <2>2
  <2>4. 0 = MoveSize(size) * 0
    BY <1>2 DEF MoveSize
  <2>5. InChunks(size, 0)
    BY <1>11, <2>3, <2>4 DEF InChunks
  <2> QED BY <2>3, <2>5
<1>12. CASE size > 0
  <2>1. PICK q \in Nat, r \in 0 .. move - 1 : size + move - 1 = q * move + r
    <3>1. PICK a \in Nat : a = size + move - 1
      BY <1>12
    <3>2. a \div move \in Nat /\ a % move \in 0 .. move - 1 /\ a = (a \div move) * move + (a % move)
      BY <1>3, <1>12
    <3> QED BY <3>1, <3>2
  <2>2. Chunks(0) = q
    <3>1. size - 0 + move - 1 = q * move + r
      BY <2>1
    <3> QED BY <1>3, <1>12, <3>1, Division
  <2>3. f[0] = Text(buffer + 0, move * Chunks(0)) /\ buffer + 0 = buffer
    BY <1>3, <1>12
  <2> HIDE DEF Chunks, f
  <2>4. PICK len \in Nat : len = move * q
    OBVIOUS
  <2>5. Printed(buffer, size) = Text(buffer, len)
    BY <1>4, <1>10, <2>2, <2>3, <2>4
  <2>6. len = size + move - 1 - r
    <3>1. move * q = q * move
      OBVIOUS
    <3> QED BY <2>1, <2>4, <3>1
  <2>7. size <= len /\ len < size + CHUNK_SIZE
    BY <1>1, <1>3, <2>6
  <2>8. ASSUME size <= CHUNK_SIZE PROVE len = size
    <3>1. move = size
      BY <1>1, <1>2, <2>8
    <3>2. q * move + r = 1 * move + (size - 1) /\ size - 1 \in 0 .. move - 1
      BY <2>1, <3>1, <1>12
    <3>3. r = size - 1
      BY <1>3, <1>12, <3>2, Division
    <3> QED BY <2>6, <3>1, <3>3
  <2>9. ASSUME size > CHUNK_SIZE, size % CHUNK_SIZE = 0 PROVE len = size
    <3>1. move = CHUNK_SIZE
      BY <1>1, <1>2, <2>9
    <3>2. PICK p \in Nat : size = p * move
      <4>1. size \div CHUNK_SIZE \in Nat /\ size = (size \div CHUNK_SIZE) * CHUNK_SIZE + (size % CHUNK_SIZE)
        BY <1>1
      <4> QED BY <2>9, <3>1, <4>1
    <3>3. q * move + r = p * move + (move - 1) /\ move - 1 \in 0 .. move - 1
      <4>1. p * move \in Nat /\ q * move \in Nat
        OBVIOUS
      <4> QED BY <1>3, <1>12, <2>1, <3>2, <4>1
    <3>4. r = move - 1
      BY <1>3, <1>12, <3>3, Division
    <3> QED BY <2>6, <3>4
  <2>10. len = MoveSize(size) * q
    BY <1>2, <2>4 DEF MoveSize
  <2>11. size <= CHUNK_SIZE \/ size % CHUNK_SIZE = 0 => len = size
    BY <1>1, <2>8, <2>9
  <2>12. InChunks(size, len)
    BY <2>7, <2>10, <2>11 DEF InChunks
  <2> HIDE DEF move_size
  <2> QED BY <2>5, <2>12
<1> QED BY <1>11, <1>12

-----------------------------------------------------------------------------
(* Numbers *)

LEMMA StrongInduction ==
  ASSUME NEW T \in SUBSET Nat, \A n \in Nat : (\A m \in 0 .. n - 1 : m \in T) => n \in T
  PROVE  T = Nat
<1> DEFINE U == {n \in Nat : \A m \in 0 .. n : m \in T}
<1>1. 0 \in U
  <2>1. 0 \in T
    OBVIOUS
  <2>2. \A m \in 0 .. 0 : m = 0
    OBVIOUS
  <2> QED BY <2>1, <2>2
<1>2. \A n \in U : n + 1 \in U
  <2>1. SUFFICES ASSUME NEW n \in U PROVE n + 1 \in U
    OBVIOUS
  <2>2. n \in Nat /\ \A m \in 0 .. n : m \in T
    OBVIOUS
  <2>3. n + 1 \in Nat /\ (n + 1) - 1 = n
    BY <2>2
  <2>4. n + 1 \in T
    BY <2>2, <2>3
  <2>5. \A m \in 0 .. n + 1 : m \in 0 .. n \/ m = n + 1
    BY <2>2
  <2> QED BY <2>2, <2>3, <2>4, <2>5
<1>3. U = Nat
  <2>1. U \in SUBSET Nat
    OBVIOUS
  <2> HIDE DEF U
  <2> QED BY <1>1, <1>2, <2>1, Induction
<1>4. \A n \in Nat : n \in 0 .. n
  OBVIOUS
<1> QED BY <1>3, <1>4

Digit == 48 .. 57

\* The function g is LowFirst for the numbers up to a.
Lows(g, a) ==
  /\ g \in [0 .. a -> Seq(Digit)]
  /\ g[0] = <<>>
  /\ \A i \in 1 .. a : g[i] = <<48 + (i % 10)>> \o g[i \div 10]

LEMMA TenthIsLess ==
  ASSUME NEW a \in Nat, a > 0
  PROVE  a \div 10 \in 0 .. a - 1 /\ a % 10 \in 0 .. 9 /\ a = 10 * (a \div 10) + (a % 10)
OBVIOUS

LEMMA LowsAreUnique ==
  ASSUME NEW a \in Nat, NEW b \in Nat, NEW g, NEW h, Lows(g, a), Lows(h, b)
  PROVE  \A i \in Nat : i <= a /\ i <= b => g[i] = h[i]
<1> DEFINE T == {i \in Nat : i <= a /\ i <= b => g[i] = h[i]}
<1>1. ASSUME NEW n \in Nat, \A m \in 0 .. n - 1 : m \in T PROVE n \in T
  <2>1. SUFFICES ASSUME n <= a, n <= b PROVE g[n] = h[n]
    OBVIOUS
  <2>2. CASE n = 0
    BY <2>2 DEF Lows
  <2>3. CASE n > 0
    <3>1. n \div 10 \in 0 .. n - 1
      BY <2>3, TenthIsLess
    <3>2. n \div 10 \in T /\ n \div 10 <= a /\ n \div 10 <= b
      BY <1>1, <2>1, <3>1
    <3>3. g[n \div 10] = h[n \div 10]
      BY <3>2
    <3>4. n \in 1 .. a /\ n \in 1 .. b
      BY <2>1, <2>3
    <3> QED BY <3>3, <3>4 DEF Lows
  <2> QED BY <2>2, <2>3
<1>2. T = Nat
  <2>1. T \in SUBSET Nat
    OBVIOUS
  <2> HIDE DEF T
  <2> QED BY <1>1, <2>1, StrongInduction
<1> QED BY <1>2

LEMMA LowsExist ==
  ASSUME NEW a \in Nat
  PROVE  \E g : Lows(g, a)
<1> DEFINE T == {n \in Nat : \E g : Lows(g, n)}
<1>1. 0 \in T
  <2>1. [i \in 0 .. 0 |-> <<>>] \in [0 .. 0 -> Seq(Digit)]
    OBVIOUS
  <2>2. Lows([i \in 0 .. 0 |-> <<>>], 0)
    BY <2>1 DEF Lows
  <2> QED BY <2>2
<1>2. ASSUME NEW n \in T PROVE n + 1 \in T
  <2>1. PICK g : Lows(g, n)
    OBVIOUS
  <2>2. n \in Nat /\ n + 1 \in Nat
    OBVIOUS
  <2>3. PICK m \in Nat : m = n + 1 /\ m > 0 /\ m - 1 = n
    BY <2>2
  <2>4. m \div 10 \in 0 .. n /\ m % 10 \in 0 .. 9
    BY <2>3, TenthIsLess
  <2>5. PICK s \in Seq(Digit) : s = <<48 + (m % 10)>> \o g[m \div 10]
    <3>1. g[m \div 10] \in Seq(Digit)
      BY <2>1, <2>4 DEF Lows
    <3>2. <<48 + (m % 10)>> \in Seq(Digit)
      BY <2>4 DEF Digit
    <3>3. <<48 + (m % 10)>> \o g[m \div 10] \in Seq(Digit)
      BY <3>1, <3>2, ConcatProperties
    <3> QED BY <3>3
  <2> DEFINE h == [i \in 0 .. m |-> IF i = m THEN s ELSE g[i]]
  <2>6. \A i \in 0 .. m : i # m => i \in 0 .. n
    BY <2>2, <2>3
  <2>7. h \in [0 .. m -> Seq(Digit)]
    BY <2>1, <2>6 DEF Lows
  <2>8. \A i \in 0 .. m : h[i] = IF i = m THEN s ELSE g[i]
    OBVIOUS
  <2> HIDE DEF h
  <2>9. h[0] = <<>>
    <3>1. 0 \in 0 .. m /\ 0 # m
      BY <2>3
    <3>2. g[0] = <<>>
      BY <2>1 DEF Lows
    <3>3. h[0] = IF 0 = m THEN s ELSE g[0]
      BY <2>8, <3>1
    <3> QED BY <3>1, <3>2, <3>3
  <2>10. ASSUME NEW i \in 1 .. m PROVE h[i] = <<48 + (i % 10)>> \o h[i \div 10]
    <3>1. i \div 10 \in 0 .. i - 1 /\ i \in Nat /\ i \in 0 .. m
      BY TenthIsLess
    <3>2. i \div 10 \in 0 .. m /\ i \div 10 # m
      BY <2>3, <3>1
    <3>3. h[i \div 10] = g[i \div 10]
      BY <2>8, <3>2
    <3>4. CASE i = m
      BY <2>5, <2>8, <3>1, <3>3, <3>4
    <3>5. CASE i # m
      <4>1. i \in 1 .. n
        BY <2>2, <2>3, <3>5
      <4> QED BY <2>1, <2>8, <3>1, <3>3, <3>5, <4>1 DEF Lows
    <3> QED BY <3>4, <3>5
  <2>11. Lows(h, m)
    BY <2>7, <2>9, <2>10 DEF Lows
  <2> QED BY <2>2, <2>3, <2>11
<1>3. T = Nat
  <2>1. T \in SUBSET Nat
    OBVIOUS
  <2> HIDE DEF T
  <2> QED BY <1>1, <1>2, <2>1, Induction
<1> QED BY <1>3

\* LowFirst gives the digits of the number, the last one first.
LEMMA LowFirstIs ==
  /\ LowFirst[0] = <<>>
  /\ \A a \in Nat : LowFirst[a] \in Seq(Digit)
  /\ \A a \in Nat \ {0} : LowFirst[a] = <<48 + (a % 10)>> \o LowFirst[a \div 10]
<1> DEFINE Def(g) == [a \in Nat |-> IF a = 0 THEN <<>> ELSE <<48 + (a % 10)>> \o g[a \div 10]]
           g(a) == CHOOSE g : Lows(g, a)
           F == [a \in Nat |-> g(a)[a]]
<1>1. \A a \in Nat : Lows(g(a), a)
  BY LowsExist
<1> HIDE DEF g
<1>2. ASSUME NEW a \in Nat
      PROVE  /\ F[a] \in Seq(Digit)
             /\ F[a] = IF a = 0 THEN <<>> ELSE <<48 + (a % 10)>> \o F[a \div 10]
  <2>1. F[a] = g(a)[a] /\ Lows(g(a), a)
    BY <1>1
  <2>2. a \in 0 .. a
    OBVIOUS
  <2>3. F[a] \in Seq(Digit)
    BY <2>1, <2>2 DEF Lows
  <2>4. CASE a = 0
    BY <2>1, <2>3, <2>4 DEF Lows
  <2>5. CASE a > 0
    <3>1. PICK b \in Nat : b = a \div 10 /\ b <= a
      <4>1. a \div 10 \in 0 .. a - 1
        BY <2>5, TenthIsLess
      <4> QED BY <4>1
    <3>2. F[b] = g(b)[b] /\ Lows(g(b), b)
      BY <1>1
    <3>3. g(a)[b] = g(b)[b]
      BY <2>1, <3>1, <3>2, LowsAreUnique
    <3>4. a \in 1 .. a
      BY <2>5
    <3> HIDE DEF F
    <3> QED BY <2>1, <2>3, <2>5, <3>1, <3>2, <3>3, <3>4 DEF Lows
  <2> HIDE DEF F
  <2> QED BY <2>3, <2>4, <2>5
<1>3. F = Def(F)
  <2>1. F = [a \in Nat |-> F[a]]
    OBVIOUS
  <2> HIDE DEF F
  <2> QED BY <1>2, <2>1
<1>4. LowFirst = CHOOSE h : h = Def(h)
  BY DEF LowFirst
<1>5. LowFirst = Def(LowFirst)
  <2> HIDE DEF Def, F
  <2> QED BY <1>3, <1>4
<1> HIDE DEF F
<1>6. \A a \in Nat : LowFirst[a] = IF a = 0 THEN <<>> ELSE <<48 + (a % 10)>> \o LowFirst[a \div 10]
  BY <1>5
<1> HIDE DEF Def
<1>7. LowFirst[0] = <<>> /\ \A a \in Nat \ {0} : LowFirst[a] = <<48 + (a % 10)>> \o LowFirst[a \div 10]
  BY <1>6
<1>8. \A a \in Nat : LowFirst[a] \in Seq(Digit)
  <2> DEFINE T == {a \in Nat : LowFirst[a] \in Seq(Digit)}
  <2>1. ASSUME NEW n \in Nat, \A m \in 0 .. n - 1 : m \in T PROVE n \in T
    <3>1. CASE n = 0
      BY <1>7, <3>1, EmptySeq
    <3>2. CASE n > 0
      <4>1. n \div 10 \in 0 .. n - 1 /\ n % 10 \in 0 .. 9
        BY <3>2, TenthIsLess
      <4>2. LowFirst[n \div 10] \in Seq(Digit)
        BY <2>1, <4>1
      <4>3. <<48 + (n % 10)>> \in Seq(Digit)
        BY <4>1 DEF Digit
      <4>4. <<48 + (n % 10)>> \o LowFirst[n \div 10] \in Seq(Digit)
        BY <4>2, <4>3, ConcatProperties
      <4>5. n \in Nat \ {0}
        BY <3>2
      <4> QED BY <1>7, <4>4, <4>5
    <3> QED BY <3>1, <3>2
  <2>2. T = Nat
    <3>1. T \in SUBSET Nat
      OBVIOUS
    <3> HIDE DEF T
    <3> QED BY <2>1, <3>1, StrongInduction
  <2> QED BY <2>2
<1> QED BY <1>7, <1>8

\* What the digits of s mean, read from the last to the first.
Reads(s, v) ==
  \E g \in [0 .. Len(s) -> Int] :
    /\ g[0] = 0
    /\ \A i \in 1 .. Len(s) : g[i] = 10 * g[i - 1] + s[Len(s) + 1 - i] - 48
    /\ g[Len(s)] = v

LEMMA LowFirstReads ==
  ASSUME NEW a \in Nat
  PROVE  /\ Reads(LowFirst[a], a)
         /\ a > 0 => Len(LowFirst[a]) > 0 /\ LowFirst[a][Len(LowFirst[a])] # 48
<1> DEFINE Good(n) == /\ Reads(LowFirst[n], n)
                      /\ n > 0 => Len(LowFirst[n]) > 0 /\ LowFirst[n][Len(LowFirst[n])] # 48
           T == {n \in Nat : Good(n)}
<1>1. Good(0)
  <2>1. LowFirst[0] = <<>> /\ Len(<<>>) = 0
    BY LowFirstIs
  <2>2. PICK g \in [0 .. 0 -> Int] : g[0] = 0
    <3> DEFINE zero == [i \in 0 .. 0 |-> 0]
    <3>1. zero \in [0 .. 0 -> Int] /\ zero[0] = 0
      OBVIOUS
    <3> HIDE DEF zero
    <3> QED BY <3>1
  <2>3. Reads(<<>>, 0)
    <3>1. PICK k \in Int : k = Len(<<>>) /\ k = 0
      BY <2>1
    <3>2. g \in [0 .. k -> Int] /\ g[k] = 0
      BY <2>2, <3>1
    <3>3. \A i \in 1 .. k : g[i] = 10 * g[i - 1] + <<>>[k + 1 - i] - 48
      BY <3>1
    <3> QED BY <2>2, <3>1, <3>2, <3>3, Zenon DEF Reads
  <2> QED BY <2>1, <2>3
<1>2. ASSUME NEW n \in Nat, n > 0, \A m \in 0 .. n - 1 : m \in T PROVE Good(n)
  <2>1. PICK b \in Nat, d \in 0 .. 9 : /\ b = n \div 10 /\ d = n % 10 /\ n = 10 * b + d
                                       /\ b \in 0 .. n - 1
    BY <1>2, TenthIsLess
  <2>2. Good(b)
    BY <1>2, <2>1
  <2>3. PICK s \in Seq(Digit) : s = LowFirst[b]
    BY LowFirstIs
  <2>4. PICK t \in Seq(Digit) : t = LowFirst[n] /\ t = <<48 + d>> \o s
    <3>1. n \in Nat \ {0}
      BY <1>2
    <3>2. LowFirst[n] \in Seq(Digit)
      BY LowFirstIs
    <3>3. LowFirst[n] = <<48 + (n % 10)>> \o LowFirst[n \div 10]
      BY <3>1, LowFirstIs
    <3>4. LowFirst[n] = <<48 + d>> \o s
      BY <2>1, <2>3, <3>3
    <3> QED BY <3>2, <3>4
  <2>5. PICK k \in Nat : k = Len(s)
    OBVIOUS
  <2>6. /\ Len(t) = k + 1 /\ t[1] = 48 + d
        /\ \A i \in 2 .. k + 1 : t[i] = s[i - 1]
    <3>1. <<48 + d>> \in Seq(Digit) /\ Len(<<48 + d>>) = 1 /\ <<48 + d>>[1] = 48 + d
      BY DEF Digit
    <3>2. /\ Len(t) = 1 + k
          /\ \A i \in 1 .. 1 + k : t[i] = IF i <= 1 THEN <<48 + d>>[i] ELSE s[i - 1]
      BY <2>4, <2>5, <3>1, ConcatProperties
    <3> QED BY <3>1, <3>2
  <2>7. PICK g \in [0 .. k -> Int] :
          /\ g[0] = 0
          /\ \A i \in 1 .. k : g[i] = 10 * g[i - 1] + s[k + 1 - i] - 48
          /\ g[k] = b
    BY <2>2, <2>3, <2>5 DEF Reads
  <2> DEFINE h == [i \in 0 .. k + 1 |-> IF i = k + 1 THEN n ELSE g[i]]
  <2>8. \A i \in 0 .. k + 1 : h[i] = IF i = k + 1 THEN n ELSE g[i]
    OBVIOUS
  <2>9. h \in [0 .. k + 1 -> Int]
    <3>1. \A i \in 0 .. k + 1 : i # k + 1 => i \in 0 .. k
      OBVIOUS
    <3> QED BY <3>1, <2>7
  <2> HIDE DEF h
  <2>10. h[0] = 0 /\ h[k + 1] = n
    BY <2>7, <2>8
  <2>11. ASSUME NEW i \in 1 .. k + 1 PROVE h[i] = 10 * h[i - 1] + t[(k + 1) + 1 - i] - 48
    <3>1. i - 1 \in 0 .. k /\ h[i - 1] = g[i - 1]
      BY <2>8
    <3>2. CASE i = k + 1
      <4>1. t[(k + 1) + 1 - i] = 48 + d /\ h[i - 1] = b
        BY <2>6, <2>7, <3>1, <3>2
      <4> QED BY <2>1, <2>10, <3>2, <4>1
    <3>3. CASE i # k + 1
      <4>1. i \in 1 .. k /\ (k + 1) + 1 - i \in 2 .. k + 1 /\ ((k + 1) + 1 - i) - 1 = k + 1 - i
        BY <3>3
      <4>2. t[(k + 1) + 1 - i] = s[k + 1 - i]
        BY <2>6, <4>1
      <4>3. h[i] = g[i]
        BY <2>8, <3>3
      <4> QED BY <2>7, <3>1, <4>1, <4>2, <4>3
    <3> QED BY <3>2, <3>3
  <2>12. Reads(t, n)
    BY <2>6, <2>9, <2>10, <2>11 DEF Reads
  <2>13. Len(t) > 0 /\ t[Len(t)] # 48
    <3>1. CASE b = 0
      <4>1. k = 0
        BY <2>3, <2>5, <3>1, LowFirstIs
      <4> QED BY <1>2, <2>1, <2>6, <3>1, <4>1
    <3>2. CASE b > 0
      <4>1. k > 0 /\ s[k] # 48
        BY <2>2, <2>3, <2>5, <3>2
      <4> QED BY <2>6, <4>1
    <3> QED BY <3>1, <3>2
  <2> QED BY <2>4, <2>12, <2>13
<1>3. ASSUME NEW n \in Nat, \A m \in 0 .. n - 1 : m \in T PROVE n \in T
  <2> HIDE DEF Good
  <2> QED BY <1>1, <1>2, <1>3
<1>4. T = Nat
  <2>1. T \in SUBSET Nat
    OBVIOUS
  <2> HIDE DEF T
  <2> QED BY <1>3, <2>1, StrongInduction
<1> QED BY <1>4

\* The loop that swaps the digits turns them round.
LEMMA ItoaTurns ==
  ASSUME NEW a \in Int
  PROVE  \E b \in Seq(Digit) :
           /\ b = IF a = 0 THEN <<48>> ELSE IF a < 0 THEN <<>> ELSE LowFirst[a]
           /\ itoa(a) \in Seq(Digit) /\ Len(itoa(a)) = Len(b)
           /\ \A j \in 1 .. Len(b) : itoa(a)[j] = b[Len(b) + 1 - j]
<1>1. PICK b \in Seq(Digit) : b = IF a = 0 THEN <<48>> ELSE IF a < 0 THEN <<>> ELSE LowFirst[a]
  <2>1. <<48>> \in Seq(Digit) /\ <<>> \in Seq(Digit)
    BY EmptySeq DEF Digit
  <2>2. a > 0 => LowFirst[a] \in Seq(Digit)
    BY LowFirstIs
  <2>3. CASE a = 0
    BY <2>1, <2>3
  <2>4. CASE a < 0
    BY <2>1, <2>4
  <2>5. CASE a > 0
    BY <2>2, <2>5
  <2> QED BY <2>3, <2>4, <2>5
<1>2. PICK n \in Nat : n = Len(b)
  OBVIOUS
<1>3. b \in [1 .. n -> Digit]
  BY <1>2
<1> DEFINE Def(g) == [i1 \in 0 .. n |->
                        IF i1 = 0 THEN b
                        ELSE [g[i1 - 1] EXCEPT ![i1] = g[i1 - 1][n - i1 + 1],
                                               ![n - i1 + 1] = g[i1 - 1][i1]]]
           swapped == CHOOSE g : g = Def(g)
           D == [1 .. n -> Digit]
           G == [i \in 1 .. n |-> [s \in D |-> [s EXCEPT ![i] = s[n - i + 1], ![n - i + 1] = s[i]]]]
<1>4. itoa(a) = swapped[Swaps(n)]
  BY <1>1, <1>2 DEF itoa
<1>5. ASSUME NEW i \in 1 .. n, NEW s \in D
      PROVE  [s EXCEPT ![i] = s[n - i + 1], ![n - i + 1] = s[i]] \in D
  <2>1. n - i + 1 \in 1 .. n
    OBVIOUS
  <2> QED BY <2>1
<1>6. G \in [1 .. n -> [D -> D]]
  <2> HIDE DEF D
  <2> QED BY <1>5
<1>7. PICK f \in [0 .. n -> D] : Steps(f, b, G, n)
  <2> HIDE DEF D, G
  <2>1. b \in D
    BY <1>3 DEF D
  <2> QED BY <1>6, <2>1, Recursion
<1>8. \A i \in 0 .. n : f[i] = IF i = 0 THEN b
                               ELSE [f[i - 1] EXCEPT ![i] = f[i - 1][n - i + 1],
                                                     ![n - i + 1] = f[i - 1][i]]
  <2>1. f[0] = b
    BY <1>7 DEF Steps
  <2>2. ASSUME NEW i \in 0 .. n, i # 0
        PROVE  f[i] = [f[i - 1] EXCEPT ![i] = f[i - 1][n - i + 1], ![n - i + 1] = f[i - 1][i]]
    <3> HIDE DEF D, G
    <3>1. i \in 1 .. n /\ i - 1 \in 0 .. n
      BY <2>2
    <3>2. f[i] = G[i][f[i - 1]]
      BY <1>7, <3>1 DEF Steps
    <3>3. f[i - 1] \in D
      BY <3>1
    <3>4. G[i] = [s \in D |-> [s EXCEPT ![i] = s[n - i + 1], ![n - i + 1] = s[i]]]
      BY <3>1 DEF G
    <3>5. PICK s \in D : s = f[i - 1]
      BY <3>3
    <3>6. G[i][s] = [s EXCEPT ![i] = s[n - i + 1], ![n - i + 1] = s[i]]
      BY <3>4
    <3> QED BY <3>2, <3>5, <3>6
  <2> HIDE DEF D, G
  <2> QED BY <2>1, <2>2
<1>9. f = Def(f)
  <2>1. f = [i \in 0 .. n |-> f[i]]
    BY <1>7
  <2> HIDE DEF D, G
  <2> QED BY <1>8, <2>1
<1>10. swapped = Def(swapped)
  <2> HIDE DEF Def
  <2> QED BY <1>9
<1>11. \A i \in 0 .. n : swapped[i] = IF i = 0 THEN b
                                      ELSE [swapped[i - 1] EXCEPT ![i] = swapped[i - 1][n - i + 1],
                                                                  ![n - i + 1] = swapped[i - 1][i]]
  <2> HIDE DEF swapped
  <2> QED BY <1>10, Zenon
<1> HIDE DEF swapped, Def, G
<1> DEFINE Turned(i, s) == \A j \in 1 .. n : s[j] = IF j <= i \/ j > n - i THEN b[n + 1 - j] ELSE b[j]
           h == n \div 2
           T == {i \in 0 .. h : swapped[i] \in D /\ Turned(i, swapped[i])}
<1>12. h \in Nat /\ 2 * h <= n /\ n <= 2 * h + 1
  OBVIOUS
<1> HIDE DEF h
<1>13. 0 \in T
  <2>1. swapped[0] = b
    <3>1. 0 \in 0 .. n
      OBVIOUS
    <3> QED BY <1>11, <3>1, Zenon
  <2>2. Turned(0, b)
    BY <1>3
  <2> HIDE DEF Turned
  <2> QED BY <1>3, <1>12, <2>1, <2>2
<1>14. ASSUME NEW i \in 1 .. h, i - 1 \in T PROVE i \in T
  <2>1. PICK s \in D : s = swapped[i - 1] /\ Turned(i - 1, s)
    BY <1>14
  <2>2. i \in 1 .. n /\ n - i + 1 \in 1 .. n /\ n - i + 1 > i /\ i \in 0 .. h
    BY <1>12
  <2>3. swapped[i] = [s EXCEPT ![i] = s[n - i + 1], ![n - i + 1] = s[i]]
    <3>1. i \in 0 .. n /\ i # 0
      BY <2>2
    <3>2. swapped[i] = [swapped[i - 1] EXCEPT ![i] = swapped[i - 1][n - i + 1],
                                              ![n - i + 1] = swapped[i - 1][i]]
      BY <1>11, <3>1, Zenon
    <3> QED BY <2>1, <3>2, Zenon
  <2>4. swapped[i] \in D
    BY <1>5, <2>2, <2>3
  <2>5. \A j \in 1 .. n : swapped[i][j] = IF j = i THEN s[n - i + 1] ELSE IF j = n - i + 1 THEN s[i] ELSE s[j]
    BY <2>2, <2>3
  <2>6. s[i] = b[i] /\ s[n - i + 1] = b[n - i + 1]
    <3>1. ~(i <= i - 1) /\ ~(i > n - (i - 1)) /\ ~(n - i + 1 <= i - 1) /\ ~(n - i + 1 > n - (i - 1))
      BY <2>2
    <3> QED BY <2>1, <2>2, <3>1
  <2>7. Turned(i, swapped[i])
    <3>1. SUFFICES ASSUME NEW j \in 1 .. n
                   PROVE  swapped[i][j] = IF j <= i \/ j > n - i THEN b[n + 1 - j] ELSE b[j]
      OBVIOUS
    <3>2. CASE j = i
      <4>1. n + 1 - j = n - i + 1
        BY <3>2
      <4> QED BY <2>5, <2>6, <3>2, <4>1
    <3>3. CASE j = n - i + 1
      <4>1. n + 1 - j = i /\ j > n - i /\ j # i
        BY <2>2, <3>3
      <4> QED BY <2>5, <2>6, <3>3, <4>1
    <3>4. CASE j # i /\ j # n - i + 1
      <4>1. (j <= i \/ j > n - i) <=> (j <= i - 1 \/ j > n - (i - 1))
        BY <3>4
      <4> QED BY <2>1, <2>5, <3>4, <4>1
    <3> QED BY <3>2, <3>3, <3>4
  <2> HIDE DEF Turned
  <2> QED BY <2>2, <2>4, <2>7
<1>15. h \in T
  <2> HIDE DEF T
  <2>1. \A i \in 0 .. h : i \in T
    BY <1>12, <1>13, <1>14, BoundedInduction
  <2> QED BY <1>12, <2>1
<1>16. itoa(a) \in D /\ Turned(h, itoa(a))
  <2>1. Swaps(n) = h
    BY DEF Swaps, h
  <2> QED BY <1>4, <1>15, <2>1
<1>17. ASSUME NEW j \in 1 .. n PROVE itoa(a)[j] = b[n + 1 - j]
  <2>1. CASE j <= h \/ j > n - h
    BY <1>16, <2>1
  <2>2. CASE ~(j <= h \/ j > n - h)
    <3>1. n + 1 - j = j
      BY <1>12, <2>2
    <3> QED BY <1>16, <2>2, <3>1
  <2> QED BY <2>1, <2>2
<1>18. itoa(a) \in Seq(Digit) /\ Len(itoa(a)) = n
  <2>1. itoa(a) \in [1 .. n -> Digit]
    BY <1>16
  <2> QED BY <2>1
<1> QED BY <1>1, <1>2, <1>17, <1>18

\* What a sequence of digits means: the number NumbersReadBack reads.
ValueOf(digits) ==
  LET value[i \in 0 .. Len(digits)] ==
        IF i = 0 THEN 0 ELSE 10 * value[i - 1] + digits[i] - 48
  IN  value[Len(digits)]

LEMMA ValueIs ==
  ASSUME NEW s \in Seq(Digit), NEW g \in [0 .. Len(s) -> Int],
         g[0] = 0, \A i \in 1 .. Len(s) : g[i] = 10 * g[i - 1] + s[i] - 48
  PROVE  ValueOf(s) = g[Len(s)]
<1> DEFINE Def(h) == [i \in 0 .. Len(s) |-> IF i = 0 THEN 0 ELSE 10 * h[i - 1] + s[i] - 48]
           value == CHOOSE h : h = Def(h)
<1>1. g = Def(g)
  <2>1. \A i \in 0 .. Len(s) : g[i] = IF i = 0 THEN 0 ELSE 10 * g[i - 1] + s[i] - 48
    <3>1. ASSUME NEW i \in 0 .. Len(s), i # 0 PROVE i \in 1 .. Len(s)
      BY <3>1
    <3> QED BY <3>1
  <2>2. g = [i \in 0 .. Len(s) |-> g[i]]
    OBVIOUS
  <2> QED BY <2>1, <2>2, Zenon
<1>2. value = Def(value)
  <2> HIDE DEF Def
  <2> QED BY <1>1
<1>3. ValueOf(s) = value[Len(s)]
  BY DEF ValueOf
<1> HIDE DEF value
<1>4. \A i \in 0 .. Len(s) : value[i] = IF i = 0 THEN 0 ELSE 10 * value[i - 1] + s[i] - 48
  BY <1>2, Zenon
<1> HIDE DEF Def
<1>5. PICK n \in Nat : n = Len(s)
  OBVIOUS
<1> DEFINE T == {i \in 0 .. n : value[i] = g[i]}
<1>6. 0 \in T
  BY <1>4, <1>5
<1>7. ASSUME NEW i \in 1 .. n, i - 1 \in T PROVE i \in T
  <2>1. i \in 0 .. n /\ i # 0 /\ i \in 1 .. Len(s)
    BY <1>5
  <2>2. value[i] = 10 * value[i - 1] + s[i] - 48
    BY <1>4, <1>5, <2>1
  <2>3. g[i] = 10 * g[i - 1] + s[i] - 48
    BY <2>1
  <2>4. value[i - 1] = g[i - 1]
    BY <1>7
  <2> QED BY <2>1, <2>2, <2>3, <2>4
<1>8. n \in T
  <2> HIDE DEF T
  <2>1. \A i \in 0 .. n : i \in T
    BY <1>6, <1>7, BoundedInduction
  <2> QED BY <2>1
<1> QED BY <1>3, <1>5, <1>8

\* itoa prints the digits of the number, the first one first.
LEMMA ItoaReads ==
  ASSUME NEW a \in Int
  PROVE  /\ itoa(a) \in Seq(Digit)
         /\ a < 0 => itoa(a) = <<>>
         /\ a >= 0 => ValueOf(itoa(a)) = a /\ (Len(itoa(a)) > 1 => itoa(a)[1] # 48)
<1>1. PICK b \in Seq(Digit) :
        /\ b = IF a = 0 THEN <<48>> ELSE IF a < 0 THEN <<>> ELSE LowFirst[a]
        /\ itoa(a) \in Seq(Digit) /\ Len(itoa(a)) = Len(b)
        /\ \A j \in 1 .. Len(b) : itoa(a)[j] = b[Len(b) + 1 - j]
  BY ItoaTurns
<1>2. PICK d \in Seq(Digit) : d = itoa(a)
  BY <1>1
<1>3. PICK n \in Nat : n = Len(b)
  OBVIOUS
<1>4. Len(d) = n /\ \A j \in 1 .. n : d[j] = b[n + 1 - j]
  BY <1>1, <1>2, <1>3
<1>5. CASE a < 0
  <2>1. b = <<>> /\ Len(d) = 0
    BY <1>1, <1>3, <1>4, <1>5
  <2>2. d = <<>>
    BY <2>1, EmptySeq
  <2> QED BY <1>2, <1>5, <2>2
<1>6. CASE a >= 0
  <2>1. Reads(b, a) /\ (n > 1 => b[n] # 48)
    <3>1. CASE a > 0
      <4>1. b = LowFirst[a]
        BY <1>1, <3>1
      <4> QED BY <1>3, <3>1, <4>1, LowFirstReads
    <3>2. CASE a = 0
      <4>1. b = <<48>> /\ n = 1 /\ b[1] = 48
        BY <1>1, <1>3, <3>2
      <4> DEFINE g == [i \in 0 .. 1 |-> 0]
      <4>2. g \in [0 .. 1 -> Int] /\ g[0] = 0 /\ g[1] = 0
        OBVIOUS
      <4> HIDE DEF g
      <4>3. \A i \in 1 .. 1 : g[i] = 10 * g[i - 1] + b[1 + 1 - i] - 48
        <5>1. \A i \in 1 .. 1 : i = 1
          OBVIOUS
        <5>2. g[1] = 10 * g[0] + b[1] - 48
          BY <4>1, <4>2
        <5>3. g[1] = 10 * g[1 - 1] + b[1 + 1 - 1] - 48
          BY <5>2
        <5> QED BY <5>1, <5>3, Zenon
      <4>4. Reads(b, 0)
        BY <1>3, <4>1, <4>2, <4>3 DEF Reads
      <4> QED BY <3>2, <4>1, <4>4
    <3> QED BY <1>6, <3>1, <3>2
  <2>2. PICK g \in [0 .. n -> Int] :
          /\ g[0] = 0
          /\ \A i \in 1 .. n : g[i] = 10 * g[i - 1] + b[n + 1 - i] - 48
          /\ g[n] = a
    BY <1>3, <2>1 DEF Reads
  <2>3. \A i \in 1 .. n : g[i] = 10 * g[i - 1] + d[i] - 48
    BY <1>4, <2>2
  <2>4. ValueOf(d) = g[n]
    BY <1>4, <2>2, <2>3, ValueIs
  <2>5. n > 1 => d[1] = b[n]
    <3>1. n > 1 => 1 \in 1 .. n /\ n + 1 - 1 = n
      OBVIOUS
    <3> QED BY <1>4, <3>1
  <2> QED BY <1>2, <1>4, <1>6, <2>1, <2>2, <2>4, <2>5
<1> QED BY <1>1, <1>5, <1>6

-----------------------------------------------------------------------------
(* In every state: what the last call printed. *)

Errors == {0, ESRCH, EBADF, EFAULT, EINVAL}

LastPrinted ==
  /\ errno \in Errors /\ calls \in Nat
  /\ console \in Consoles(Char)
  /\ last.call = "number" => last.size \in Int /\ last.printed = itoa(last.size)
  /\ WriteShowsBuffer

\* A text of memory begins with every shorter one.
LEMMA TextPrefix ==
  ASSUME NEW addr \in Nat, NEW m \in Nat, NEW n \in Nat, m <= n
  PROVE  IsPrefix(Text(addr, m), Text(addr, n)) /\ SubSeq(Text(addr, n), 1, m) = Text(addr, m)
<1>1. ASSUME NEW k \in Nat
      PROVE  /\ Text(addr, k) \in Seq(Char) /\ Len(Text(addr, k)) = k
             /\ \A i \in 1 .. k : Text(addr, k)[i] = memory[(addr + i - 1) % ADDRESSES]
  <2>1. Text(addr, k) \in Seq(Char) /\ Len(Text(addr, k)) = k
    BY TextJoins
  <2> QED BY <2>1 DEF Text
<1>2. PICK s \in Seq(Char), t \in Seq(Char) : s = Text(addr, m) /\ t = Text(addr, n)
  BY <1>1
<1>3. /\ Len(s) = m /\ Len(t) = n
      /\ \A i \in 1 .. m : s[i] \in Char /\ t[i] \in Char /\ s[i] = t[i]
  <2>1. Len(s) = m /\ Len(t) = n
    BY <1>1, <1>2
  <2>2. ASSUME NEW i \in 1 .. m PROVE s[i] = t[i]
    <3>1. i \in 1 .. n
      OBVIOUS
    <3> QED BY <1>1, <1>2, <3>1
  <2> QED BY <2>1, <2>2
<1>4. /\ SubSeq(s, 1, m) \in Seq(Char) /\ Len(SubSeq(s, 1, m)) = m
      /\ \A i \in 1 .. m : SubSeq(s, 1, m)[i] = s[i]
      /\ SubSeq(t, 1, m) \in Seq(Char) /\ Len(SubSeq(t, 1, m)) = m
      /\ \A i \in 1 .. m : SubSeq(t, 1, m)[i] = t[i]
  <2>1. m - 1 + 1 = m /\ (IF 1 <= m THEN m ELSE 0) = m /\ \A i \in 1 .. m : 1 + i - 1 = i
    OBVIOUS
  <2>2. /\ SubSeq(s, 1, m) \in Seq(Char) /\ Len(SubSeq(s, 1, m)) = IF 1 <= m THEN m - 1 + 1 ELSE 0
        /\ \A i \in 1 .. m - 1 + 1 : SubSeq(s, 1, m)[i] = s[1 + i - 1]
    BY <1>3, SubSeqProperties
  <2>3. /\ SubSeq(t, 1, m) \in Seq(Char) /\ Len(SubSeq(t, 1, m)) = IF 1 <= m THEN m - 1 + 1 ELSE 0
        /\ \A i \in 1 .. m - 1 + 1 : SubSeq(t, 1, m)[i] = t[1 + i - 1]
    BY <1>3, SubSeqProperties
  <2> QED BY <2>1, <2>2, <2>3
<1>5. SubSeq(s, 1, m) = SubSeq(t, 1, m)
  BY <1>3, <1>4, SeqEqual
<1>6. IsPrefix(s, t)
  BY <1>3, <1>5 DEF IsPrefix
<1>7. SubSeq(s, 1, m) = s
  BY <1>3, <1>4, SeqEqual
<1> QED BY <1>2, <1>5, <1>6, <1>7

\* The first byte that is not there.
LEMMA FirstIsLeast ==
  ASSUME NEW S \in SUBSET Nat, S # {}
  PROVE  Min(S) \in S /\ Min(S) \in Nat /\ \A y \in S : Min(S) <= y
<1>1. PICK x \in S : \A y \in S : ~ (<<y, x>> \in OpToRel(<, Nat))
  BY NatLessThanWellFounded, WFMin
<1>2. ASSUME NEW y \in S PROVE x <= y
  <2>1. x \in Nat /\ y \in Nat
    BY Zenon
  <2>2. ~ (y < x)
    BY <1>1, <2>1, Zenon DEF OpToRel
  <2> QED BY <2>1, <2>2
<1>3. Min(S) \in S /\ \A y \in S : Min(S) <= y
  BY <1>2, Zenon DEF Min
<1> QED BY <1>3

\* Where the chunk with a byte of a text starts.
LEMMA ChunkStart ==
  ASSUME NEW move \in Nat, move > 0, NEW q \in Nat, NEW b \in Nat, b < move * q
  PROVE  LET k == b - (b % move)
         IN  /\ k \in Nat /\ k % move = 0 /\ k <= b /\ b - k \in 0 .. move - 1
             /\ k <= move * q - move
<1>1. PICK p \in Nat, r \in 0 .. move - 1 : b = p * move + r /\ r = b % move
  <2>1. b \div move \in Nat /\ b % move \in 0 .. move - 1 /\ b = (b \div move) * move + (b % move)
    OBVIOUS
  <2> QED BY <2>1
<1>2. PICK k \in Nat : k = p * move
  OBVIOUS
<1>3. k = b - (b % move) /\ k <= b /\ b - k \in 0 .. move - 1
  BY <1>1, <1>2
<1>4. k % move = 0
  <2>1. k = p * move + 0 /\ 0 \in 0 .. move - 1
    BY <1>2
  <2> QED BY <2>1, Division
<1>5. p < q
  <2>1. SUFFICES ASSUME p >= q PROVE FALSE
    OBVIOUS
  <2>2. PICK d \in Nat : p = q + d
    <3>1. p - q \in Nat /\ p = q + (p - q)
      BY <2>1
    <3> QED BY <3>1
  <2>3. p * move = move * q + d * move /\ d * move \in Nat /\ move * q \in Nat
    BY <2>2
  <2> QED BY <1>1, <2>3
<1>6. k <= move * q - move
  <2>1. PICK d \in Nat : q = p + 1 + d
    <3>1. q - (p + 1) \in Nat /\ q = p + 1 + (q - (p + 1))
      BY <1>5
    <3> QED BY <3>1
  <2>2. move * q = p * move + move + d * move /\ d * move \in Nat
    BY <2>1
  <2> QED BY <1>2, <2>2
<1> QED BY <1>3, <1>4, <1>6

\* The length of a string that ends.
LEMMA Strlen ==
  ASSUME NEW addr \in 0 .. ADDRESSES - 1, NEW a \in addr .. ADDRESSES - 1, memory[a] = 0
  PROVE  strlen(addr) \in Nat
<1> DEFINE T == {n \in Nat : addr + n <= ADDRESSES - 1 => memory[addr + n] # 0}
<1>1. ADDRESSES \in Nat
  BY Layout
<1>2. a - addr \in Nat /\ a - addr \notin T
  BY <1>1
<1>3. T # Nat
  <2> HIDE DEF T
  <2> QED BY <1>2
<1>4. \E n \in Nat : n \notin T /\ \A m \in 0 .. n - 1 : m \in T
  <2>1. T \in SUBSET Nat
    OBVIOUS
  <2> HIDE DEF T
  <2> QED BY <1>3, <2>1, StrongInduction
<1>5. PICK n \in Nat : n \notin T /\ \A m \in 0 .. n - 1 : m \in T
  BY <1>4
<1>6. n \in 0 .. ADDRESSES - 1 - addr /\ memory[addr + n] = 0
  BY <1>1, <1>5
<1>7. \A i \in 0 .. n - 1 : memory[addr + i] # 0
  <2>1. SUFFICES ASSUME NEW i \in 0 .. n - 1 PROVE memory[addr + i] # 0
    OBVIOUS
  <2>2. i \in T
    BY <1>5
  <2>3. addr + i <= ADDRESSES - 1
    BY <1>1, <1>6
  <2> QED BY <2>2, <2>3
<1>8. strlen(addr) \in 0 .. ADDRESSES - 1 - addr
  <2> DEFINE P(k) == memory[addr + k] = 0 /\ \A i \in 0 .. k - 1 : memory[addr + i] # 0
             D == 0 .. ADDRESSES - 1 - addr
  <2>1. n \in D /\ P(n)
    BY <1>6, <1>7
  <2>2. strlen(addr) = CHOOSE k \in D : P(k)
    BY DEF strlen
  <2>3. strlen(addr) \in D
    <3> HIDE DEF P, D
    <3> QED BY <2>1, <2>2
  <2> QED BY <2>3
<1> QED BY <1>1, <1>8

\* The results of the calls.
LEMMA Results ==
  ASSUME NEW fd, NEW good, NEW buffer, NEW size \in Int
  PROVE  LET result == Checked(fd, good, buffer, size)
         IN  /\ result \in Int
             /\ result < 0 => -result \in {EBADF, EFAULT, EINVAL}
             /\ result >= 0 => size >= 0
<1>1. \/ Checked(fd, good, buffer, size) = -EBADF
      \/ Checked(fd, good, buffer, size) = -EFAULT
      \/ Checked(fd, good, buffer, size) = -EINVAL
      \/ Checked(fd, good, buffer, size) = size /\ ~(size < 0)
  <2>1. CASE fd # good
    BY <2>1 DEF Checked, check_fd
  <2>2. CASE fd = good /\ buffer = NULL
    BY <2>2 DEF Checked, check_fd
  <2>3. CASE fd = good /\ buffer # NULL /\ size < 0
    BY <2>3 DEF Checked, check_fd
  <2>4. CASE fd = good /\ buffer # NULL /\ ~(size < 0)
    BY <2>4 DEF Checked, check_fd
  <2> QED BY <2>1, <2>2, <2>3, <2>4
<1>2. EBADF = 9 /\ EFAULT = 14 /\ EINVAL = 22
  BY DEF EBADF, EFAULT, EINVAL
<1> QED BY <1>1, <1>2

\* What a write prints, by its arguments and by what became of it.
ShowsBuffer(buffer, size, heap_pages, result, printed, halt) ==
  LET asked == Text(buffer, size)
  IN  /\ result < 0 => printed = <<>> /\ halt = "no"
      /\ result >= 0 /\ halt = "no" =>
           /\ IsPrefix(asked, printed)
           /\ Len(printed) < size + CHUNK_SIZE
           /\ Fits(size) => printed = asked
           /\ Unmapped(buffer, size, heap_pages) = {}
      /\ result >= 0 /\ halt # "no" =>
           \E n \in 0 .. size - 1 :
             /\ printed = Text(buffer, n) \o pf_message[halt]
             /\ n % CHUNK_SIZE = 0
             /\ Unmapped(buffer + n, IF Fits(size) THEN size - n ELSE CHUNK_SIZE, heap_pages) # {}

LEMMA WriteShows ==
  WriteShowsBuffer <=>
    (last.call = "write" =>
       ShowsBuffer(last.buffer, last.size, last.heap_pages, last.result, last.printed, halted))
BY DEF WriteShowsBuffer, ShowsBuffer

LEMMA PrintedInit == Init => LastPrinted
<1>1. SUFFICES ASSUME Init PROVE LastPrinted
  OBVIOUS
<1>2. 0 \in Columns /\ Rows = 0 .. NUM_ROWS - 1
  BY ScreenAssumption DEF Columns, Rows
<1>3. console \in Consoles(Char)
  <2>1. PICK s : s = [cell \in Cell |-> 32]
    OBVIOUS
  <2>2. s \in [Cell -> Char]
    BY <2>1 DEF Char
  <2>3. console \in [x : {0}, y : Rows, screen : {s}]
    BY <1>1, <1>2, <2>1 DEF Init
  <2> QED BY <1>2, <2>2, <2>3 DEF Consoles
<1>4. WriteShowsBuffer
  BY <1>1, WriteShows DEF Init
<1> QED BY <1>1, <1>3, <1>4 DEF Init, LastPrinted, Errors

\* A sequence over a set is one over any larger set.
LEMMA WiderSeq ==
  ASSUME NEW S, NEW T, S \subseteq T, NEW s \in Seq(S)
  PROVE  s \in Seq(T)
<1>1. PICK n \in Nat : s \in [1 .. n -> S]
  <2>1. Len(s) \in Nat /\ s \in [1 .. Len(s) -> S]
    BY LenProperties
  <2> QED BY <2>1
<1>2. s \in [1 .. n -> T]
  BY <1>1
<1> QED BY <1>2, SeqDef

\* The messages of pf_rsi.
LEMMA FaultMessages ==
  ASSUME NEW addr, NEW heap_pages
  PROVE  /\ pf_rsi(addr, heap_pages) # "no"
         /\ pf_message[pf_rsi(addr, heap_pages)] \in Seq(Char)
<1>1. pf_rsi(addr, heap_pages) \in {"WRONG ACCESS", "KERNEL PANIC"}
  BY DEF pf_rsi
<1>2. pf_message[pf_rsi(addr, heap_pages)] \in Seq(0 .. 255)
  BY <1>1, PrintingAssumption
<1>3. 0 .. 255 \subseteq Char
  BY DEF Char
<1>4. pf_rsi(addr, heap_pages) # "no"
  BY <1>1
<1> DEFINE message == pf_message[pf_rsi(addr, heap_pages)]
<1>5. message \in Seq(Char)
  <2>1. message \in Seq(0 .. 255)
    BY <1>2
  <2> HIDE DEF message
  <2> QED BY <1>3, <2>1, WiderSeq
<1> QED BY <1>4, <1>5

\* A write that reads nothing that is not there.
LEMMA WholeWrite ==
  ASSUME NEW buffer \in Nat, NEW size \in Nat, NEW heap_pages, NEW result \in Nat,
         Unmapped(buffer, Len(Printed(buffer, size)), heap_pages) = {}
  PROVE  /\ Printed(buffer, size) \in Seq(Char)
         /\ ShowsBuffer(buffer, size, heap_pages, result, Printed(buffer, size), "no")
<1>0. PICK len \in Nat : Printed(buffer, size) = Text(buffer, len) /\ InChunks(size, len)
  BY PrintedText
<1>1. /\ Printed(buffer, size) = Text(buffer, len)
      /\ size <= len /\ len < size + CHUNK_SIZE
      /\ size <= CHUNK_SIZE \/ size % CHUNK_SIZE = 0 => len = size
  BY <1>0 DEF InChunks
<1>2. Text(buffer, len) \in Seq(Char) /\ Len(Text(buffer, len)) = len
  BY TextJoins
<1>3. IsPrefix(Text(buffer, size), Text(buffer, len))
  BY <1>1, TextPrefix
<1>4. Unmapped(buffer, size, heap_pages) = {}
  <2>1. 0 .. size - 1 \subseteq 0 .. len - 1
    BY <1>1
  <2> QED BY <1>1, <1>2, <2>1 DEF Unmapped
<1>5. Fits(size) => len = size
  BY <1>1 DEF Fits
<1>6. ShowsBuffer(buffer, size, heap_pages, result, Text(buffer, len), "no")
  BY <1>1, <1>2, <1>3, <1>4, <1>5 DEF ShowsBuffer
<1> QED BY <1>1, <1>2, <1>6

\* A write that gets to a byte that is not there.
LEMMA StoppedWrite ==
  ASSUME NEW buffer \in Nat, NEW size \in Nat, NEW heap_pages, NEW result \in Nat,
         NEW bad, bad = Unmapped(buffer, Len(Printed(buffer, size)), heap_pages), bad # {},
         NEW why, why # "no", pf_message[why] \in Seq(Char)
  PROVE  LET printed == SubSeq(Printed(buffer, size), 1, Min(bad) - (Min(bad) % MoveSize(size)))
                          \o pf_message[why]
         IN  printed \in Seq(Char) /\ ShowsBuffer(buffer, size, heap_pages, result, printed, why)
<1>0. PICK len \in Nat : Printed(buffer, size) = Text(buffer, len) /\ InChunks(size, len)
  BY PrintedText
<1>q. PICK q \in Nat : len = MoveSize(size) * q
  BY <1>0 DEF InChunks
<1>1. /\ Printed(buffer, size) = Text(buffer, len)
      /\ size <= len /\ len < size + CHUNK_SIZE
      /\ size <= CHUNK_SIZE \/ size % CHUNK_SIZE = 0 => len = size
      /\ len = MoveSize(size) * q
  BY <1>0, <1>q DEF InChunks
<1>2. CHUNK_SIZE \in Nat /\ CHUNK_SIZE > 0
  BY CallsAssumption
<1>3. Len(Text(buffer, len)) = len
  BY TextJoins
<1>4. bad = {i \in 0 .. len - 1 : PageOf(buffer + i) \notin Mapped(heap_pages)}
  BY <1>1, <1>3 DEF Unmapped
<1>5. PICK first \in 0 .. len - 1 : first = Min(bad) /\ PageOf(buffer + first) \notin Mapped(heap_pages)
  <2>1. bad \in SUBSET Nat
    BY <1>4
  <2>2. Min(bad) \in bad
    BY <2>1, FirstIsLeast
  <2> QED BY <1>4, <2>2
<1>6. PICK move \in Nat : move = MoveSize(size) /\ (size < CHUNK_SIZE => move = size)
                          /\ (size >= CHUNK_SIZE => move = CHUNK_SIZE)
  BY <1>2 DEF MoveSize
<1>7. size > 0 /\ move > 0
  <2>1. CASE size = 0
    BY <1>1, <1>2, <1>5, <2>1
  <2> QED BY <1>2, <1>6, <2>1
<1>8. PICK n \in Nat : n = first - (first % move) /\ n % move = 0 /\ n <= first
                       /\ first - n \in 0 .. move - 1 /\ n <= len - move
  <2>1. first \in Nat /\ first < move * q
    BY <1>1, <1>5, <1>6
  <2> QED BY <1>1, <1>6, <1>7, <2>1, ChunkStart
<1>9. n \in 0 .. size - 1 /\ n % CHUNK_SIZE = 0
  <2>1. CASE size < CHUNK_SIZE
    <3>1. len = size /\ move = size
      BY <1>1, <1>2, <1>6, <2>1
    <3>2. n = 0
      BY <1>8, <3>1
    <3>3. 0 % CHUNK_SIZE = 0
      BY <1>2
    <3> QED BY <1>7, <3>2, <3>3
  <2>2. CASE size >= CHUNK_SIZE
    BY <1>1, <1>2, <1>6, <1>8, <2>2
  <2> QED BY <1>2, <2>1, <2>2
<1>10. SubSeq(Printed(buffer, size), 1, first - (first % MoveSize(size))) = Text(buffer, n)
  <2>1. n <= len
    BY <1>5, <1>8
  <2>2. SubSeq(Text(buffer, len), 1, n) = Text(buffer, n)
    BY <2>1, TextPrefix
  <2>3. n = first - (first % MoveSize(size))
    BY <1>6, <1>8
  <2> QED BY <1>1, <2>2, <2>3
<1>11. Unmapped(buffer + n, IF Fits(size) THEN size - n ELSE CHUNK_SIZE, heap_pages) # {}
  <2>1. PICK i \in Nat : i = first - n /\ buffer + n + i = buffer + first
    BY <1>5, <1>8
  <2>2. CASE Fits(size)
    <3>1. i \in 0 .. (size - n) - 1
      <4>1. len = size
        BY <1>1, <2>2 DEF Fits
      <4> QED BY <1>5, <1>8, <2>1, <4>1
    <3>2. i \in Unmapped(buffer + n, size - n, heap_pages)
      BY <1>5, <2>1, <3>1 DEF Unmapped
    <3> QED BY <2>2, <3>2
  <2>3. CASE ~Fits(size)
    <3>1. i \in 0 .. CHUNK_SIZE - 1
      <4>1. move = CHUNK_SIZE
        BY <1>2, <1>6, <2>3 DEF Fits
      <4> QED BY <1>2, <1>8, <2>1, <4>1
    <3>2. i \in Unmapped(buffer + n, CHUNK_SIZE, heap_pages)
      BY <1>5, <2>1, <3>1 DEF Unmapped
    <3> QED BY <2>3, <3>2
  <2> QED BY <2>2, <2>3
<1> DEFINE text == Text(buffer, n) \o pf_message[why]
<1>12. text \in Seq(Char)
  <2>1. Text(buffer, n) \in Seq(Char)
    BY TextJoins
  <2> QED BY <2>1, ConcatProperties
<1>13. ShowsBuffer(buffer, size, heap_pages, result, text, why)
  <2>1. text = Text(buffer, n) \o pf_message[why]
    OBVIOUS
  <2>2. ~(result < 0) /\ why # "no"
    OBVIOUS
  <2> HIDE DEF text
  <2>3. \E k \in 0 .. size - 1 :
          /\ text = Text(buffer, k) \o pf_message[why]
          /\ k % CHUNK_SIZE = 0
          /\ Unmapped(buffer + k, IF Fits(size) THEN size - k ELSE CHUNK_SIZE, heap_pages) # {}
    BY <1>9, <1>11, <2>1
  <2> QED BY <2>2, <2>3 DEF ShowsBuffer
<1> QED BY <1>5, <1>10, <1>12, <1>13

-----------------------------------------------------------------------------

\* What a step does to the screen.
Shown == LastPrinted' /\ calls' # calls /\ Shows(console, last'.printed, console')

\* A call prints characters.
LEMMA Prints ==
  ASSUME LastPrinted, NEW call, NEW buffer, NEW size, NEW heap_pages, NEW result, NEW printed \in Seq(Char),
         Called(call, buffer, size, heap_pages, result, printed)
  PROVE  /\ console' \in Consoles(Char) /\ Shows(console, last'.printed, console')
         /\ calls' \in Nat /\ calls' # calls
         /\ last'.call = call /\ last'.buffer = buffer /\ last'.size = size /\ last'.printed = printed
         /\ last'.heap_pages = heap_pages /\ last'.result = result
<1>1. console \in Consoles(Char) /\ console' = print(console, printed) /\ calls \in Nat
  BY DEF LastPrinted, Called
<1>2. /\ last'.call = call /\ last'.buffer = buffer /\ last'.size = size /\ last'.printed = printed
      /\ last'.heap_pages = heap_pages /\ last'.result = result
  BY DEF Called
<1>3. console' \in Consoles(Char) /\ Shows(console, printed, console')
  BY <1>1, TextIsShown
<1>4. calls' = calls + 1
  BY DEF Called
<1> QED BY <1>1, <1>2, <1>3, <1>4

\* The property of writes after a step, from the record.
LEMMA WritesNext ==
  WriteShowsBuffer' <=>
    (last'.call = "write" =>
       ShowsBuffer(last'.buffer, last'.size, last'.heap_pages, last'.result, last'.printed, halted'))
BY DEF WriteShowsBuffer, ShowsBuffer

\* What each call does.
LEMMA WriteStep ==
  ASSUME LastPrinted, halted = "no", NEW fd, NEW buffer \in Nat, NEW size \in Int, NEW heap_pages,
         Write(fd, buffer, size, heap_pages)
  PROVE  Shown
<1> DEFINE result == Checked(fd, 1, buffer, size)
           bad == Unmapped(buffer, Len(Printed(buffer, size)), heap_pages)
           start == SubSeq(Printed(buffer, size), 1, Min(bad) - (Min(bad) % MoveSize(size)))
           why == pf_rsi(buffer + Min(bad), heap_pages)
<1>1. /\ result \in Int
      /\ result < 0 => -result \in {EBADF, EFAULT, EINVAL}
      /\ result >= 0 => size >= 0
  BY Results
<1>2. \/ result < 0 /\ Returns("write", buffer, size, heap_pages, result, <<>>)
      \/ /\ result >= 0 /\ bad = {}
         /\ Returns("write", buffer, size, heap_pages, result, Printed(buffer, size))
      \/ /\ result >= 0 /\ bad # {}
         /\ Stops("write", buffer, size, heap_pages, result, start, buffer + Min(bad))
  BY DEF Write
<1> HIDE DEF result
<1>3. \E printed \in Seq(Char) :
        /\ Called("write", buffer, size, heap_pages, result, printed)
        /\ ShowsBuffer(buffer, size, heap_pages, result, printed, halted')
        /\ errno' \in Errors
  <2>1. CASE result < 0 /\ Returns("write", buffer, size, heap_pages, result, <<>>)
    <3>1. <<>> \in Seq(Char)
      BY EmptySeq
    <3>2. halted' = "no" /\ Called("write", buffer, size, heap_pages, result, <<>>) /\ errno' = -result
      BY <2>1 DEF Returns
    <3>3. ShowsBuffer(buffer, size, heap_pages, result, <<>>, halted')
      BY <1>1, <2>1, <3>2 DEF ShowsBuffer
    <3>4. errno' \in Errors
      BY <1>1, <2>1, <3>2 DEF Errors
    <3> QED BY <3>1, <3>2, <3>3, <3>4
  <2>2. CASE /\ result >= 0 /\ bad = {}
             /\ Returns("write", buffer, size, heap_pages, result, Printed(buffer, size))
    <3>1. size \in Nat /\ result \in Nat
      BY <1>1, <2>2
    <3>2. /\ halted' = "no" /\ errno' = errno
          /\ Called("write", buffer, size, heap_pages, result, Printed(buffer, size))
      <4> HIDE DEF bad
      <4> QED BY <2>2, <3>1 DEF Returns
    <3>3. /\ Printed(buffer, size) \in Seq(Char)
          /\ ShowsBuffer(buffer, size, heap_pages, result, Printed(buffer, size), "no")
      BY <2>2, <3>1, WholeWrite
    <3>4. errno' \in Errors
      BY <3>2 DEF LastPrinted
    <3> HIDE DEF bad
    <3> QED BY <3>2, <3>3, <3>4
  <2>3. CASE /\ result >= 0 /\ bad # {}
             /\ Stops("write", buffer, size, heap_pages, result, start, buffer + Min(bad))
    <3>1. size \in Nat /\ result \in Nat
      BY <1>1, <2>3
    <3>2. /\ halted' = why /\ errno' = errno
          /\ Called("write", buffer, size, heap_pages, result, start \o pf_message[why])
      <4> HIDE DEF bad, start
      <4> QED BY <2>3 DEF Stops
    <3>3. why # "no" /\ pf_message[why] \in Seq(Char)
      <4> HIDE DEF bad
      <4> QED BY FaultMessages
    <3>4. /\ start \o pf_message[why] \in Seq(Char)
          /\ ShowsBuffer(buffer, size, heap_pages, result, start \o pf_message[why], why)
      <4>1. bad # {} /\ bad = Unmapped(buffer, Len(Printed(buffer, size)), heap_pages)
        BY <2>3
      <4> HIDE DEF bad, why
      <4> QED BY <3>1, <3>3, <4>1, StoppedWrite
    <3>5. errno' \in Errors
      BY <3>2 DEF LastPrinted
    <3> HIDE DEF bad, start, why
    <3> QED BY <3>2, <3>4, <3>5
  <2> HIDE DEF bad, start, why
  <2> QED BY <1>2, <2>1, <2>2, <2>3
<1>4. PICK printed \in Seq(Char) :
        /\ Called("write", buffer, size, heap_pages, result, printed)
        /\ ShowsBuffer(buffer, size, heap_pages, result, printed, halted')
        /\ errno' \in Errors
  BY <1>3
<1>5. /\ console' \in Consoles(Char) /\ Shows(console, last'.printed, console')
      /\ calls' \in Nat /\ calls' # calls
      /\ last'.call = "write" /\ last'.buffer = buffer /\ last'.size = size /\ last'.printed = printed
      /\ last'.heap_pages = heap_pages /\ last'.result = result
  BY <1>4, Prints
<1>6. WriteShowsBuffer'
  BY <1>4, <1>5, WritesNext
<1> QED BY <1>4, <1>5, <1>6 DEF Shown, LastPrinted

LEMMA NumberStep ==
  ASSUME LastPrinted, NEW a \in Int, Number(a)
  PROVE  Shown
<1>1. itoa(a) \in Seq(Digit)
  BY ItoaReads
<1>2. itoa(a) \in Seq(Char)
  <2>1. Digit \subseteq Char
    BY DEF Digit, Char
  <2> QED BY <1>1, <2>1
<1>3. Returns("number", NULL, a, 0, Len(itoa(a)), itoa(a))
  BY DEF Number
<1>4. /\ console' \in Consoles(Char) /\ Shows(console, last'.printed, console')
      /\ calls' \in Nat /\ calls' # calls
      /\ last'.call = "number" /\ last'.size = a /\ last'.printed = itoa(a)
  <2>1. Called("number", NULL, a, 0, Len(itoa(a)), itoa(a))
    BY <1>3 DEF Returns
  <2> QED BY <1>2, <2>1, Prints
<1>6. errno' = errno
  <2>1. Len(itoa(a)) \in Nat
    BY <1>1
  <2> QED BY <1>3, <2>1 DEF Returns
<1>7. WriteShowsBuffer'
  BY <1>4, WritesNext
<1> QED BY <1>4, <1>6, <1>7 DEF LastPrinted, Shown

\* The calls that print nothing, unless they fault.
LEMMA SilentStep ==
  ASSUME LastPrinted, halted = "no", NEW call \in {"read", "get_stats"}, NEW buffer, NEW size,
         NEW heap_pages, NEW result \in Int, result < 0 => -result \in Errors,
         Stores(call, buffer, size, heap_pages, result)
  PROVE  Shown
<1> DEFINE bad == Unmapped(buffer, size, heap_pages)
           why == pf_rsi(buffer + Min(bad), heap_pages)
<1>1. \/ Returns(call, buffer, size, heap_pages, result, <<>>)
      \/ Stops(call, buffer, size, heap_pages, result, <<>>, buffer + Min(bad))
  BY DEF Stores
<1> HIDE DEF bad
<1>2. \E printed \in Seq(Char) : Called(call, buffer, size, heap_pages, result, printed)
  <2>1. <<>> \in Seq(Char)
    BY EmptySeq
  <2>2. CASE Returns(call, buffer, size, heap_pages, result, <<>>)
    BY <2>1, <2>2 DEF Returns
  <2>3. CASE Stops(call, buffer, size, heap_pages, result, <<>>, buffer + Min(bad))
    <3>1. Called(call, buffer, size, heap_pages, result, <<>> \o pf_message[why])
      BY <2>3 DEF Stops
    <3>2. pf_message[why] \in Seq(Char)
      BY FaultMessages
    <3> HIDE DEF why
    <3>3. <<>> \o pf_message[why] \in Seq(Char)
      BY <2>1, <3>2, ConcatProperties
    <3> QED BY <3>1, <3>3
  <2> QED BY <1>1, <2>2, <2>3
<1>3. PICK printed \in Seq(Char) : Called(call, buffer, size, heap_pages, result, printed)
  BY <1>2
<1>4. /\ console' \in Consoles(Char) /\ Shows(console, last'.printed, console')
      /\ calls' \in Nat /\ calls' # calls /\ last'.call = call
  BY <1>3, Prints
<1>5. errno' \in Errors
  <2>1. CASE Returns(call, buffer, size, heap_pages, result, <<>>)
    BY <2>1 DEF Returns, LastPrinted
  <2>2. CASE Stops(call, buffer, size, heap_pages, result, <<>>, buffer + Min(bad))
    BY <2>2 DEF Stops, LastPrinted
  <2> QED BY <1>1, <2>1, <2>2
<1>6. WriteShowsBuffer'
  BY <1>4, WritesNext
<1> QED BY <1>4, <1>5, <1>6 DEF LastPrinted, Shown

\* The clock shows itself and puts the cursor back.
LEMMA ClockStep ==
  ASSUME LastPrinted, Clock
  PROVE  /\ LastPrinted' /\ calls' = calls /\ Position(console') = Position(console)
         /\ \A cell \in Cell \ {ClockCell} : console'.screen[cell] = console.screen[cell]
<1>1. PICK face \in ClockFaces : console' = printc_xy(console, ClockCell[1], ClockCell[2], face)
  BY DEF Clock
<1>2. face \in Char
  BY DEF Char
<1>3. PICK i \in Columns, j \in Rows, s \in [Cell -> Char] : console = [x |-> i, y |-> j, screen |-> s]
  BY DEF LastPrinted, Consoles
<1>4. PICK mx \in Columns, my \in Rows : mx = ClockCell[1] /\ my = ClockCell[2] /\ ClockCell = <<mx, my>>
  <2>1. ClockCell \in Cell
    BY PrintingAssumption
  <2> QED BY <2>1 DEF Cell, Columns, Rows
<1> DEFINE c == [x |-> mx, y |-> my, screen |-> s]
<1>5. [console EXCEPT !.x = mx, !.y = my] = c
  <2>1. [console EXCEPT !.x = mx] = [x |-> mx, y |-> j, screen |-> s]
    BY <1>3, CursorSet
  <2>2. [console EXCEPT !.x = mx, !.y = my] = [[console EXCEPT !.x = mx] EXCEPT !.y = my]
    OBVIOUS
  <2>3. [[x |-> mx, y |-> j, screen |-> s] EXCEPT !.y = my] = c
    BY RowSet
  <2> HIDE DEF c
  <2> QED BY <2>1, <2>2, <2>3
<1>6. c \in Consoles(Char)
  BY DEF Consoles
<1>7. PICK p \in Columns, q \in Rows, t \in [Cell -> Char] : printc(c, face) = [x |-> p, y |-> q, screen |-> t]
  <2>1. printc(c, face) \in Consoles(Char)
    <3> HIDE DEF c
    <3> QED BY <1>2, <1>6, Printc
  <2> QED BY <2>1 DEF Consoles
<1>8. console' = [x |-> i, y |-> j, screen |-> t]
  <2>1. console' = [printc(c, face) EXCEPT !.x = i, !.y = j]
    <3> HIDE DEF c
    <3> QED BY <1>1, <1>3, <1>4, <1>5 DEF printc_xy
  <2>2. [printc(c, face) EXCEPT !.x = i] = [x |-> i, y |-> q, screen |-> t]
    BY <1>7, CursorSet
  <2>3. console' = [[printc(c, face) EXCEPT !.x = i] EXCEPT !.y = j]
    BY <2>1
  <2> QED BY <2>2, <2>3, RowSet
<1>9. ASSUME NEW cell \in Cell, cell # ClockCell PROVE t[cell] = s[cell]
  <2> DEFINE drawn == [o \in Cell |-> IF o = <<mx, my>> THEN face ELSE s[o]]
  <2>1. drawn[cell] = s[cell]
    BY <1>4, <1>9
  <2>2. t = s \/ t = drawn
    <3>1. CASE face = NewLine
      <4>1. printc(c, face) = NextRow(c)
        BY <3>1 DEF printc
      <4>2. NextRow(c).screen = s
        BY DEF NextRow
      <4> QED BY <1>7, <4>1, <4>2
    <3>2. CASE face # NewLine
      <4> DEFINE shown == [c EXCEPT !.screen = [o \in Cell |-> IF o = <<c.x, c.y>> THEN face ELSE @[o]],
                                    !.x = @ + 1]
      <4>1. printc(c, face) = IF Wraps(shown.x) THEN NextRow(shown) ELSE shown
        BY <3>2 DEF printc
      <4>2. shown.screen = drawn
        OBVIOUS
      <4> HIDE DEF shown, drawn
      <4>3. NextRow(shown).screen = shown.screen
        BY DEF NextRow
      <4> QED BY <1>7, <4>1, <4>2, <4>3
    <3> QED BY <3>1, <3>2
  <2> QED BY <2>1, <2>2
<1>10. console' \in Consoles(Char)
  BY <1>8 DEF Consoles
<1>11. Position(console') = Position(console)
  BY <1>3, <1>8 DEF Position
<1>12. LastPrinted'
  <2>1. last' = last /\ halted' = halted
    BY DEF Clock
  <2>2. WriteShowsBuffer'
    BY <2>1, WriteShows, WritesNext DEF LastPrinted
  <2> QED BY <1>10, <2>1, <2>2 DEF Clock, LastPrinted
<1> QED BY <1>3, <1>8, <1>9, <1>11, <1>12 DEF Clock

LEMMA PrintedStep ==
  ASSUME LastPrinted, [Next]_vars
  PROVE  /\ LastPrinted'
         /\ \/ UNCHANGED vars
            \/ /\ calls' = calls /\ Position(console') = Position(console)
               /\ \A cell \in Cell \ {ClockCell} : console'.screen[cell] = console.screen[cell]
            \/ calls' # calls /\ Shows(console, last'.printed, console')
<1>1. CASE UNCHANGED vars
  <2>1. WriteShowsBuffer'
    BY <1>1, WriteShows, WritesNext DEF LastPrinted, vars
  <2> QED BY <1>1, <2>1 DEF vars, LastPrinted
<1>2. CASE Clock
  BY <1>2, ClockStep
<1>3. ASSUME NEW fd \in Descriptors, NEW buffer \in Buffers, NEW size \in Sizes, NEW heap_pages \in HeapPages,
             halted = "no", Write(fd, buffer, size, heap_pages)
      PROVE  Shown
  <2>1. buffer \in Nat /\ size \in Int
    BY CallsAssumption
  <2> QED BY <1>3, <2>1, WriteStep
<1>4. ASSUME NEW fd \in Descriptors, NEW buffer \in Buffers, NEW size \in Sizes, NEW heap_pages \in HeapPages,
             halted = "no", Read(fd, buffer, size, heap_pages)
      PROVE  Shown
  <2> DEFINE result == sys_read(fd, buffer, size, heap_pages)
  <2>1. size \in Int
    BY CallsAssumption
  <2>2. LET checked == Checked(fd, 0, buffer, size)
        IN  checked \in Int /\ (checked < 0 => -checked \in {EBADF, EFAULT, EINVAL})
    BY <2>1, Results
  <2>3. result = Checked(fd, 0, buffer, size) \/ result = -EFAULT
    BY DEF sys_read
  <2>4. result \in Int /\ (result < 0 => -result \in Errors)
    <3> HIDE DEF result
    <3> QED BY <2>2, <2>3 DEF Errors, EBADF, EFAULT, EINVAL
  <2>5. Stores("read", buffer, size, heap_pages, result)
    BY <1>4 DEF Read
  <2> HIDE DEF result
  <2> QED BY <1>4, <2>4, <2>5, SilentStep
<1>5. ASSUME NEW pid \in {-1, 1}, NEW buffer \in Buffers, NEW heap_pages \in HeapPages,
             halted = "no", GetStats(pid, buffer, heap_pages)
      PROVE  Shown
  <2>1. PICK found \in BOOLEAN :
          Stores("get_stats", buffer, StatsSize, heap_pages, sys_get_stats(pid, buffer, heap_pages, found))
    BY <1>5 DEF GetStats
  <2> DEFINE result == sys_get_stats(pid, buffer, heap_pages, found)
  <2>2. result \in {-EINVAL, -EFAULT, -ESRCH, 0}
    BY DEF sys_get_stats
  <2>3. result \in Int /\ (result < 0 => -result \in Errors)
    <3> HIDE DEF result
    <3> QED BY <2>2 DEF Errors, EFAULT, EINVAL, ESRCH
  <2> HIDE DEF result
  <2> QED BY <1>5, <2>1, <2>3, SilentStep DEF result
<1>6. ASSUME NEW heap_pages \in HeapPages, halted = "no", perror(heap_pages) PROVE Shown
  <2> DEFINE start == error_message[errno]
  <2>1. start \in 0 .. ADDRESSES - 1 /\ \E a \in start .. ADDRESSES - 1 : memory[a] = 0
    BY PrintingAssumption DEF LastPrinted, Errors
  <2>2. strlen(start) \in Nat
    <3> HIDE DEF start
    <3> QED BY <2>1, Strlen
  <2>3. start \in Nat /\ strlen(start) \in Int
    BY <2>1, <2>2
  <2>4. Write(1, start, strlen(start), heap_pages)
    BY <1>6 DEF perror
  <2> HIDE DEF start
  <2> QED BY <1>6, <2>3, <2>4, WriteStep
<1>7. ASSUME NEW a \in Numbers, Number(a) PROVE Shown
  <2>1. a \in Int
    BY CallsAssumption
  <2> QED BY <1>7, <2>1, NumberStep
<1>8. CASE halted = "no" /\ Call
  <2>1. Shown
    BY <1>3, <1>4, <1>5, <1>6, <1>7, <1>8 DEF Call
  <2> QED BY <2>1 DEF Shown
<1>9. UNCHANGED vars \/ Clock \/ (halted = "no" /\ Call)
  BY DEF Next
<1> QED BY <1>1, <1>2, <1>8, <1>9

\* sys_write, for every size of its chunks, every buffer, every size and every heap: a write that
\* returns has printed the text the program asked for, and less than a chunk more, and just that
\* text when the chunks fit; one that does not has printed whole chunks of it, and stopped
\* at a byte that is not there; a write that fails prints nothing.
THEOREM WritesAreWhole == Spec => []WriteShowsBuffer
<1>1. ASSUME LastPrinted PROVE WriteShowsBuffer
  BY <1>1 DEF LastPrinted
<1>2. ASSUME LastPrinted, [Next]_vars PROVE LastPrinted'
  BY <1>2, PrintedStep
<1> QED BY <1>1, <1>2, PrintedInit, PTL DEF Spec

\* itoa, for every number: the digits it prints are those of the number, and the first one of
\* several is not 0; it prints none for a negative number.
THEOREM NumbersAreRead == Spec => []NumbersReadBack
<1>1. ASSUME LastPrinted PROVE NumbersReadBack
  <2>1. SUFFICES ASSUME last.call = "number"
                 PROVE  IF last.size < 0 THEN last.printed = <<>>
                        ELSE /\ ValueOf(last.printed) = last.size
                             /\ Len(last.printed) > 1 => last.printed[1] # 48
    BY DEF NumbersReadBack, ValueOf
  <2>2. PICK a \in Int : a = last.size /\ last.printed = itoa(a)
    BY <1>1, <2>1 DEF LastPrinted
  <2>3. /\ a < 0 => itoa(a) = <<>>
        /\ a >= 0 => ValueOf(itoa(a)) = a /\ (Len(itoa(a)) > 1 => itoa(a)[1] # 48)
    BY ItoaReads
  <2> QED BY <2>2, <2>3
<1>2. ASSUME LastPrinted, [Next]_vars PROVE LastPrinted'
  BY <1>2, PrintedStep
<1> QED BY <1>1, <1>2, PrintedInit, PTL DEF Spec

\* printc and zeos_show_clock, for every size of the screen and every text: what a call prints
\* fills the screen cell by cell from where the cursor was, over what was there, and the clock
\* changes one cell and leaves the cursor alone.
THEOREM TextFillsScreen == Spec => ScreenShowsText
<1> DEFINE Step == IF calls' = calls
                   THEN /\ Position(console') = Position(console)
                        /\ \A cell \in Cell \ {ClockCell} : console'.screen[cell] = console.screen[cell]
                   ELSE Shows(console, last'.printed, console')
<1>1. ASSUME LastPrinted, [Next]_vars PROVE LastPrinted' /\ [Step]_vars
  <2>1. LastPrinted'
    BY <1>1, PrintedStep
  <2>2. \/ UNCHANGED vars
        \/ /\ calls' = calls /\ Position(console') = Position(console)
           /\ \A cell \in Cell \ {ClockCell} : console'.screen[cell] = console.screen[cell]
        \/ calls' # calls /\ Shows(console, last'.printed, console')
    BY <1>1, PrintedStep
  <2> QED BY <2>1, <2>2, Zenon
<1> HIDE DEF Step
<1>2. Spec => [][Step]_vars
  BY <1>1, PrintedInit, PTL DEF Spec
<1>3. ScreenShowsText <=> [][Step]_vars
  BY PTL DEF ScreenShowsText, Step
<1> QED BY <1>2, <1>3, PTL
=============================================================================
