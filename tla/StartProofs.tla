---------------------------- MODULE StartProofs ----------------------------
(***************************************************************************)
(* Theorems about how a program comes to run: the ELF loader and the hosts *)
(* that preload it (Preload), the boot ROM's hand-over of all harts to it  *)
(* (SmpBoot), and the C runtime that one of them then enters (Runtime).    *)
(***************************************************************************)
EXTENDS Preload, SmpBoot, Runtime, WellFoundedInduction, TLAPS

----------------------------------------------------------------------------
(* Preloading, for files of any number of segments and every memory and    *)
(* size of beats, bursts and pages of whole beats: first arithmetic, then  *)
(* the invariant, one lemma per action, and what follows from it.          *)

(* What division and remainder are, and multiples.                         *)
LEMMA Divided ==
  \A a \in Int, d \in Nat \ {0} :
    a = d * (a \div d) + (a % d) /\ a \div d \in Int /\ a % d \in 0 .. d - 1
  OBVIOUS

LEMMA Multiple ==
  \A z \in Int, d \in Nat \ {0} : (d * z) % d = 0
<1> SUFFICES ASSUME NEW z \in Int, NEW d \in Nat \ {0} PROVE (d * z) % d = 0
  OBVIOUS
<1> DEFINE q == (d * z) \div d
           r == (d * z) % d
           x == z - q
<1>1. d * z \in Int
  OBVIOUS
<1>2. d * z = d * q + r /\ q \in Int /\ r \in 0 .. d - 1
  BY <1>1, Divided
<1>3. r = d * x /\ x \in Int
  <2>1. d * (z - q) = d * z - d * q
    <3>1. \A i, j, k \in Int : i * (j - k) = i * j - i * k
      OBVIOUS
    <3> HIDE DEF q
    <3> QED
      BY <3>1, <1>2
  <2> QED
    BY <2>1, <1>2
<1> HIDE DEF q, r, x
<1>4. x = 0
  <2>1. ASSUME x >= 1 PROVE FALSE
    <3>1. d * x >= d
      BY <2>1, <1>3
    <3> QED
      BY <3>1, <1>2, <1>3
  <2>2. ASSUME x <= -1 PROVE FALSE
    <3>1. d * x <= -d
      BY <2>2, <1>3
    <3> QED
      BY <3>1, <1>2, <1>3
  <2> QED
    BY <2>1, <2>2, <1>3
<1>5. r = 0
  BY <1>3, <1>4
<1> QED
  BY <1>5 DEF r

LEMMA MultipleOf ==
  \A a \in Int, d \in Nat \ {0} : a % d = 0 => a = d * (a \div d)
<1> SUFFICES ASSUME NEW a \in Int, NEW d \in Nat \ {0}, a % d = 0 PROVE a = d * (a \div d)
  OBVIOUS
<1>1. a = d * (a \div d) + (a % d) /\ a \div d \in Int
  BY Divided
<1> QED
  BY <1>1

LEMMA MultiplesAdd ==
  \A a, b \in Int, d \in Nat \ {0} : a % d = 0 /\ b % d = 0 => (a + b) % d = 0
<1> SUFFICES ASSUME NEW a \in Int, NEW b \in Int, NEW d \in Nat \ {0}, a % d = 0, b % d = 0
             PROVE  (a + b) % d = 0
  OBVIOUS
<1>1. a = d * (a \div d) /\ b = d * (b \div d) /\ a \div d \in Int /\ b \div d \in Int
  BY Divided, MultipleOf
<1>2. a + b = d * ((a \div d) + (b \div d))
  BY <1>1
<1>3. (d * ((a \div d) + (b \div d))) % d = 0
  BY <1>1, Multiple
<1> QED
  BY <1>2, <1>3

(* Order of multiples and of quotients.                                    *)
LEMMA FloorIs ==
  \A a \in Int, d \in Nat \ {0} :
    /\ a - (a % d) = d * (a \div d) /\ (a - (a % d)) % d = 0
    /\ \A m \in Int : m % d = 0 /\ m <= a => m <= a - (a % d)
    /\ \A m \in Int : m % d = 0 /\ m > a => m >= a - (a % d) + d
<1> SUFFICES ASSUME NEW a \in Int, NEW d \in Nat \ {0}
             PROVE  /\ a - (a % d) = d * (a \div d) /\ (a - (a % d)) % d = 0
                    /\ \A m \in Int : m % d = 0 /\ m <= a => m <= a - (a % d)
                    /\ \A m \in Int : m % d = 0 /\ m > a => m >= a - (a % d) + d
  OBVIOUS
<1>1. a = d * (a \div d) + (a % d) /\ a \div d \in Int /\ a % d \in 0 .. d - 1
  BY Divided
<1> DEFINE q == a \div d
           r == a % d
<1>2. a = d * q + r /\ q \in Int /\ r \in 0 .. d - 1
  BY <1>1
<1>3. (d * q) % d = 0
  BY <1>2, Multiple
<1> HIDE DEF q, r
<1>4. a - r = d * q /\ d * q \in Int
  BY <1>2
<1>5. \A m \in Int : m % d = 0 => m = d * (m \div d) /\ m \div d \in Int
  BY Divided, MultipleOf
<1>6. ASSUME NEW m \in Int, m % d = 0, m <= a PROVE m <= a - r
  <2> DEFINE p == m \div d
  <2>1. m = d * p /\ p \in Int
    BY <1>5, <1>6
  <2> HIDE DEF p
  <2>2. ASSUME p >= q + 1 PROVE FALSE
    <3>1. d * p >= d * (q + 1)
      BY <2>1, <2>2, <1>2
    <3>2. d * (q + 1) = d * q + d
      BY <1>2
    <3> QED
      BY <3>1, <3>2, <2>1, <1>2, <1>4, <1>6
  <2>3. p <= q
    BY <2>1, <2>2, <1>2
  <2>4. d * p <= d * q
    BY <2>1, <2>3, <1>2
  <2> QED
    BY <2>1, <2>4, <1>4
<1>7. ASSUME NEW m \in Int, m % d = 0, m > a PROVE m >= a - r + d
  <2> DEFINE p == m \div d
  <2>1. m = d * p /\ p \in Int
    BY <1>5, <1>7
  <2> HIDE DEF p
  <2>2. ASSUME p <= q PROVE FALSE
    <3>1. d * p <= d * q
      BY <2>1, <2>2, <1>2
    <3> QED
      BY <3>1, <2>1, <1>2, <1>4, <1>7
  <2>3. p >= q + 1
    BY <2>1, <2>2, <1>2
  <2>4. d * p >= d * (q + 1)
    BY <2>1, <2>3, <1>2
  <2>5. d * (q + 1) = d * q + d
    BY <1>2
  <2> QED
    BY <2>1, <2>4, <2>5, <1>4
<1> QED
  BY <1>3, <1>4, <1>6, <1>7 DEF q, r

LEMMA Quotients ==
  \A a, b \in Int, d \in Nat \ {0} :
    /\ a <= b => a \div d <= b \div d
    /\ a \in b - (b % d) .. b => a \div d = b \div d
    /\ a \div d < b \div d => a < b - (b % d)
<1> SUFFICES ASSUME NEW a \in Int, NEW b \in Int, NEW d \in Nat \ {0}
             PROVE  /\ a <= b => a \div d <= b \div d
                    /\ a \in b - (b % d) .. b => a \div d = b \div d
                    /\ a \div d < b \div d => a < b - (b % d)
  OBVIOUS
<1> DEFINE p == a \div d
           r == a % d
           q == b \div d
           t == b % d
<1>1. /\ a = d * p + r /\ p \in Int /\ r \in 0 .. d - 1
      /\ b = d * q + t /\ q \in Int /\ t \in 0 .. d - 1
  BY Divided
<1> HIDE DEF p, q, r, t
<1>2. ASSUME p >= q + 1 PROVE a > b
  <2>1. d * p >= d * (q + 1)
    BY <1>1, <1>2
  <2>2. d * (q + 1) = d * q + d
    BY <1>1
  <2> QED
    BY <2>1, <2>2, <1>1
<1>3. ASSUME p + 1 <= q PROVE a < d * q
  <2>1. d * (p + 1) <= d * q
    BY <1>1, <1>3
  <2>2. d * (p + 1) = d * p + d
    BY <1>1
  <2> QED
    BY <2>1, <2>2, <1>1
<1>4. b - t = d * q
  BY <1>1
<1>5. a <= b => p <= q
  BY <1>1, <1>2
<1>6. a \in b - t .. b => p = q
  BY <1>1, <1>3, <1>4, <1>5
<1>7. p < q => a < b - t
  BY <1>1, <1>3, <1>4
<1> QED
  BY <1>5, <1>6, <1>7 DEF p, q, r, t

LEMMA Sized ==
  /\ Beat \in Nat \ {0} /\ BurstBytes \in Nat \ {0} /\ PageBytes \in Nat \ {0}
  /\ BurstBytes % Beat = 0
  /\ \A a \in Int : a % PageBytes = 0 => a % Beat = 0
<1>1. /\ Beat \in Nat \ {0} /\ BurstBytes \in Nat \ {0} /\ PageBytes \in Nat \ {0}
      /\ BurstBytes % Beat = 0 /\ PageBytes % Beat = 0
  BY BeatAssumption
<1>2. ASSUME NEW a \in Int, a % PageBytes = 0 PROVE a % Beat = 0
  <2> DEFINE p == PageBytes \div Beat
             q == a \div PageBytes
  <2>1. a = PageBytes * q /\ q \in Int /\ PageBytes = Beat * p /\ p \in Int
    BY <1>1, <1>2, Divided, MultipleOf
  <2> HIDE DEF p, q
  <2>2. a = Beat * (p * q) /\ p * q \in Int
    BY <2>1, <1>1
  <2> QED
    BY <2>2, <1>1, Multiple
<1> QED
  BY <1>1, <1>2

(* The beats that carry n bytes from c: where they start and end.          *)
LEMMA BeatsAround ==
  ASSUME NEW c \in Nat, NEW n \in Nat \ {0}
  PROVE  LET first == c - (c % Beat)
             beats == ((c % Beat) + n + Beat - 1) \div Beat
             last  == first + beats * Beat - 1
         IN  /\ first \in Nat /\ beats \in Nat \ {0} /\ last \in Nat
             /\ first <= c /\ c < first + Beat
             /\ c + n - 1 <= last /\ last < c + n - 1 + Beat
             /\ beats * Beat <= (c % Beat) + n + Beat - 1
             /\ \A m \in Int : m % Beat = 0 /\ m <= c => m <= first
             /\ \A m \in Int : m % Beat = 0 /\ c + n <= m => last < m
<1> DEFINE first == c - (c % Beat)
           x     == (c % Beat) + n + Beat - 1
           beats == x \div Beat
           last  == first + beats * Beat - 1
<1>1. Beat \in Nat \ {0}
  BY Sized
<1>2. c % Beat \in 0 .. Beat - 1 /\ c = Beat * (c \div Beat) + (c % Beat) /\ c \div Beat \in Int
  BY <1>1, Divided
<1>3. x \in Int /\ x >= 1
  BY <1>1, <1>2
<1>4. x = Beat * beats + (x % Beat) /\ beats \in Int /\ x % Beat \in 0 .. Beat - 1
  BY <1>1, <1>3, Divided
<1>5. first % Beat = 0 /\ \A m \in Int : m % Beat = 0 /\ m <= c => m <= first
  <2>1. c \in Int
    OBVIOUS
  <2> QED
    BY <1>1, <2>1, FloorIs, Zenon
<1>6. 0 % Beat = 0
  BY <1>1
<1>7. first \in Int /\ first <= c /\ c < first + Beat /\ x = c - first + n + Beat - 1
  BY <1>1, <1>2
<1>8. first >= 0
  BY <1>5, <1>6
<1> HIDE DEF first, x, beats
<1>9. Beat * beats \in Int /\ beats * Beat = Beat * beats /\ (Beat * beats) % Beat = 0
  BY <1>1, <1>4, Multiple
<1>10. Beat * beats <= x /\ Beat * beats >= x - Beat + 1
  <2> DEFINE rest == x % Beat
             all  == Beat * beats
  <2>1. x = all + rest /\ rest \in 0 .. Beat - 1 /\ all \in Int
    BY <1>4, <1>9
  <2> HIDE DEF rest, all
  <2>2. all <= x /\ all >= x - Beat + 1
    BY <2>1, <1>1, <1>3
  <2> QED
    BY <2>2 DEF all
<1>11. beats >= 1
  <2> SUFFICES ASSUME beats <= 0 PROVE FALSE
    BY <1>4
  <2>1. Beat * beats <= 0
    BY <1>1, <1>4
  <2> QED
    BY <2>1, <1>1, <1>7, <1>9, <1>10
<1>12. last + 1 = first + Beat * beats
  BY <1>7, <1>9 DEF last
<1>13. last \in Int /\ c + n <= last + 1 /\ last + 1 < c + n + Beat
  BY <1>1, <1>7, <1>9, <1>10, <1>12 DEF last
<1> HIDE DEF last
<1>14. (last + 1) % Beat = 0
  <2>1. (first + Beat * beats) % Beat = 0
    BY <1>1, <1>5, <1>7, <1>9, MultiplesAdd, Zenon
  <2> QED
    BY <2>1, <1>12
<1>15. ASSUME NEW m \in Int, m % Beat = 0, c + n <= m PROVE last < m
  <2> SUFFICES ASSUME m <= last PROVE FALSE
    BY <1>13
  <2>1. last % Beat \in 0 .. Beat - 1
    BY <1>1, <1>13, Divided
  <2>2. \A y \in Int : y % Beat = 0 /\ y > m => y >= m - (m % Beat) + Beat
    BY <1>1, FloorIs
  <2>3. last + 1 \in Int /\ last + 1 > m
    BY <1>13, <1>15
  <2>4. last + 1 >= m - (m % Beat) + Beat
    BY <2>2, <2>3, <1>14, Zenon
  <2>5. last + 1 >= m + Beat
    BY <2>4, <1>15, <1>1
  <2> QED
    BY <2>5, <1>1, <1>13, <1>15
<1>16. beats * Beat <= (c % Beat) + n + Beat - 1
  BY <1>9, <1>10 DEF x
<1>17. /\ first \in Nat /\ beats \in Nat \ {0} /\ last \in Nat
       /\ first <= c /\ c < first + Beat
       /\ c + n - 1 <= last /\ last < c + n - 1 + Beat
  BY <1>1, <1>4, <1>7, <1>8, <1>11, <1>13
<1>18. /\ first \in Nat /\ beats \in Nat \ {0} /\ last \in Nat
       /\ first <= c /\ c < first + Beat
       /\ c + n - 1 <= last /\ last < c + n - 1 + Beat
       /\ beats * Beat <= (c % Beat) + n + Beat - 1
       /\ \A m \in Int : m % Beat = 0 /\ m <= c => m <= first
       /\ \A m \in Int : m % Beat = 0 /\ c + n <= m => last < m
  BY <1>5, <1>15, <1>16, <1>17
<1> QED
  BY <1>18, Zenon DEF last, beats, x, first

Phases == {"wait", "read", "headers", "sections", "write", "launched", "fatal", "aborted"}

LoadTyped ==
  /\ phase \in Phases /\ via \in {"slink", "jtag"}
  /\ file \in Files /\ file.segs \in Seq(Segment)
  /\ header \in 0 .. Len(file.segs) /\ entry \in Nat
  /\ sections \in Seq(Segment) /\ index \in 0 .. Len(sections)
  /\ bf \in Seq(Int) /\ offs \in Nat
  /\ ram \in [Addresses -> Int]
  /\ via = "jtag" => \A k \in DOMAIN file.segs : file.segs[k].paddr % Beat = 0

(* The loader's list holds the loadable segments of the headers looked at, *)
(* in their order, and nothing else.                                       *)
Listed ==
  /\ \A n \in 1 .. Len(sections) :
       Loadable(sections[n]) /\ \E k \in 1 .. header : sections[n] = file.segs[k]
  /\ \A k \in 1 .. header : phase # "aborted" /\ Loadable(file.segs[k]) =>
       \E n \in 1 .. Len(sections) : sections[n] = file.segs[k]
  /\ \A m \in 1 .. Len(sections) : \A n \in 1 .. m - 1 :
       \E j \in 1 .. header : \E k \in 1 .. j - 1 : sections[n] = file.segs[k] /\ sections[m] = file.segs[j]

(* How far the loader is by phase.                                         *)
Stages ==
  /\ phase \in {"wait", "read", "headers"} => index = 0
  /\ phase \in {"wait", "read"} => header = 0 /\ entry = 0
  /\ phase \in {"headers", "sections", "write", "launched"} /\ file.defect # "phdrs" => entry = file.entry
  /\ phase \in {"sections", "write", "launched"} /\ file.defect # "phdrs" => header = Len(file.segs)
  /\ file.defect = "phdrs" =>
       phase # "headers" /\ sections = <<>> /\ entry = 0 /\ \A a \in Addresses : ram[a] = Old
  /\ phase = "launched" => index = Len(sections) /\ launched = entry

(* The byte at address a of a section, as the file has it or zero.         *)
Wanted(s, a) == IF a - s.paddr < s.filesz THEN ByteOf(s, a - s.paddr) ELSE Zero

(* The host's copy of the section it writes.                               *)
Filled ==
  phase = "write" =>
    /\ index > 0 /\ Len(bf) = sections[index].memsz
    /\ via = "jtag" => offs % Beat = 0 /\ offs <= SecLen + Beat
    /\ Tidy => \A k \in 1 .. Len(bf) : bf[k] = Wanted(sections[index], sections[index].paddr + k - 1)

(* A burst starts at a beat, or after whole longest bursts within the page *)
(* of the section's start.                                                 *)
Cuts ==
  phase = "write" /\ via = "slink" /\ offs < SecLen =>
    \/ Cur % Beat = 0
    \/ \E k \in 0 .. offs : offs = k * BurstBytes /\ Cur \div PageBytes = SecAddr \div PageBytes

(* Bytes of the n-th section that the host has written.                    *)
Done(n) ==
  IF phase \in {"sections", "launched"} /\ n <= index THEN sections[n].memsz
  ELSE IF phase = "write" /\ n < index THEN sections[n].memsz
  ELSE IF phase = "write" /\ n = index THEN offs ELSE 0

There ==
  Tidy => \A n \in 1 .. Len(sections) : \A a \in BytesOf(sections[n]) \ Lost(sections[n]) :
    a - sections[n].paddr < Done(n) => ram[a] = Wanted(sections[n], a)

LoadInv == LoadTyped /\ Listed /\ Stages /\ Filled /\ Cuts /\ There /\ NothingElse

LEMMA SegmentFields ==
  \A s \in Segment : s.id \in Nat /\ s.paddr \in Nat /\ s.filesz \in Nat /\ s.memsz \in Nat
  BY DEF Segment

LEMMA FileFields ==
  \A f \in Files : f.entry \in Nat \ {0} /\ f.segs \in Seq(Segment) /\ f.defect \in Defects
  BY FileAssumption

(* What the invariant says of a section of the list.                       *)
LEMMA SectionIs ==
  LoadTyped /\ Listed => \A n \in 1 .. Len(sections) :
    LET s == sections[n]
    IN  /\ s \in Segment /\ Loadable(s) /\ Held(s) /\ s \in Segs
        /\ s.id \in Nat /\ s.paddr \in Nat /\ s.filesz \in Nat \ {0} /\ s.memsz \in Nat \ {0}
        /\ BytesOf(s) \subseteq Addresses
        /\ via = "jtag" => s.paddr % Beat = 0
<1> SUFFICES ASSUME LoadTyped, Listed, NEW n \in 1 .. Len(sections)
             PROVE  LET s == sections[n]
                    IN  /\ s \in Segment /\ Loadable(s) /\ Held(s) /\ s \in Segs
                        /\ s.id \in Nat /\ s.paddr \in Nat /\ s.filesz \in Nat \ {0} /\ s.memsz \in Nat \ {0}
                        /\ BytesOf(s) \subseteq Addresses
                        /\ via = "jtag" => s.paddr % Beat = 0
  OBVIOUS
<1>1. sections[n] \in Segment
  BY DEF LoadTyped
<1>2. Loadable(sections[n]) /\ Held(sections[n])
  BY DEF Listed, Loadable, Held
<1>3. PICK k \in 1 .. header : sections[n] = file.segs[k]
  BY DEF Listed
<1>4. k \in DOMAIN file.segs /\ file \in Files
  BY <1>3 DEF LoadTyped
<1>5. sections[n] \in Segs
  BY <1>3, <1>4 DEF Segs
<1>6. BytesOf(sections[n]) \subseteq Addresses
  BY <1>2, <1>3, <1>4, MemoryAssumption
<1>7. /\ sections[n].id \in Nat /\ sections[n].paddr \in Nat
      /\ sections[n].filesz \in Nat \ {0} /\ sections[n].memsz \in Nat \ {0}
  BY <1>1, <1>2, SegmentFields DEF Loadable
<1>8. via = "jtag" => sections[n].paddr % Beat = 0
  BY <1>3, <1>4 DEF LoadTyped
<1> QED
  BY <1>1, <1>2, <1>5, <1>6, <1>7, <1>8

(* Sections of a tidy file share no beat, and are in ascending order.      *)
LEMMA SectionsApart ==
  LoadTyped /\ Listed /\ Tidy => \A m \in 1 .. Len(sections) : \A n \in 1 .. m - 1 :
    \A a \in BytesOf(sections[n]) :
      /\ a \div Beat < sections[m].paddr \div Beat
      /\ a < sections[m].paddr - (sections[m].paddr % Beat)
<1> SUFFICES ASSUME LoadTyped, Listed, Tidy, NEW m \in 1 .. Len(sections), NEW n \in 1 .. m - 1,
                    NEW a \in BytesOf(sections[n])
             PROVE  /\ a \div Beat < sections[m].paddr \div Beat
                    /\ a < sections[m].paddr - (sections[m].paddr % Beat)
  OBVIOUS
<1> DEFINE s == sections[n]
           t == sections[m]
<1>1. n \in 1 .. Len(sections) /\ Len(sections) \in Nat
  BY DEF LoadTyped
<1>2. /\ Held(s) /\ s.paddr \in Nat /\ s.memsz \in Nat \ {0}
      /\ Held(t) /\ t.paddr \in Nat
  BY <1>1, SectionIs
<1>3. PICK j \in 1 .. header : \E k \in 1 .. j - 1 : s = file.segs[k] /\ t = file.segs[j]
  BY DEF Listed
<1>4. PICK k \in 1 .. j - 1 : s = file.segs[k] /\ t = file.segs[j]
  BY <1>3
<1>5. j \in DOMAIN file.segs /\ k \in DOMAIN file.segs /\ k < j
  BY <1>3, <1>4 DEF LoadTyped
<1>6. BeatOf(s.paddr + s.memsz - 1) < BeatOf(t.paddr)
  BY <1>2, <1>4, <1>5 DEF Tidy
<1> DEFINE b == s.paddr + s.memsz - 1
<1>7. a \in Int /\ b \in Int /\ a <= b
  BY <1>2 DEF BytesOf
<1>8. b \div Beat < t.paddr \div Beat
  BY <1>6 DEF BeatOf
<1> HIDE DEF s, t, b
<1>9. a \div Beat <= b \div Beat
  BY <1>7, Sized, Quotients
<1>10. t.paddr \in Int
  BY <1>2
<1>11. a \div Beat \in Int /\ b \div Beat \in Int /\ t.paddr \div Beat \in Int
  BY <1>7, <1>10, Sized, Divided, Zenon
<1>12. a \div Beat < t.paddr \div Beat
  <2>1. \A x, y, z \in Int : x <= y /\ y < z => x < z
    OBVIOUS
  <2> QED
    BY <2>1, <1>8, <1>9, <1>11, Zenon
<1>13. a < t.paddr - (t.paddr % Beat)
  BY <1>7, <1>10, <1>12, Sized, Quotients, Zenon
<1> QED
  BY <1>12, <1>13 DEF t

(* Of a tidy file the loader finds each section by its address.            *)
LEMMA OwnHolder ==
  LoadTyped /\ Listed /\ Tidy => \A m \in 1 .. Len(sections) : Holder(sections[m]) = m
<1> SUFFICES ASSUME LoadTyped, Listed, Tidy, NEW m \in 1 .. Len(sections)
             PROVE  Holder(sections[m]) = m
  OBVIOUS
<1>1. Len(sections) \in Nat /\ DOMAIN sections = 1 .. Len(sections)
  BY DEF LoadTyped
<1>2. ASSUME NEW p \in 1 .. Len(sections), NEW q \in 1 .. p - 1
      PROVE  sections[q].paddr # sections[p].paddr
  <2>1. q \in 1 .. Len(sections)
    BY <1>1, <1>2
  <2>2. /\ sections[q].paddr \in Nat /\ sections[q].memsz \in Nat \ {0}
        /\ sections[p].paddr \in Nat
    BY <2>1, <1>2, SectionIs
  <2>3. sections[q].paddr \in BytesOf(sections[q])
    BY <2>2 DEF BytesOf
  <2>4. sections[q].paddr \div Beat < sections[p].paddr \div Beat
    BY <2>3, <1>2, SectionsApart
  <2>5. \A x \in Int : ~(x < x)
    OBVIOUS
  <2>6. sections[p].paddr \div Beat \in Int
    <3>1. sections[p].paddr \in Int
      BY <2>2
    <3> QED
      BY <3>1, Sized, Divided, Zenon
  <2> QED
    BY <2>4, <2>5, <2>6
<1> DEFINE P(k) == /\ sections[k].paddr = sections[m].paddr
                   /\ \A j \in 1 .. k - 1 : sections[j].paddr # sections[m].paddr
<1>3. P(m)
  BY <1>2
<1>4. ASSUME NEW k \in DOMAIN sections, P(k) PROVE k = m
  <2>1. k \in 1 .. Len(sections)
    BY <1>1, <1>4
  <2>2. CASE k < m
    <3>1. k \in 1 .. m - 1
      BY <1>1, <2>1, <2>2
    <3> QED
      BY <3>1, <1>2, <1>4
  <2>3. CASE k > m
    <3>1. m \in 1 .. k - 1
      BY <1>1, <2>1, <2>3
    <3> QED
      BY <3>1, <1>4
  <2> QED
    BY <1>1, <2>1, <2>2, <2>3
<1>5. m \in DOMAIN sections
  BY <1>1
<1>6. Holder(sections[m]) = CHOOSE k \in DOMAIN sections : P(k)
  BY DEF Holder
<1> HIDE DEF P
<1> QED
  BY <1>3, <1>4, <1>5, <1>6

(* A tidy file's held segments are loadable, and fill what they hold.      *)
LEMMA TidyFits ==
  LoadTyped /\ Tidy => \A k \in DOMAIN file.segs :
    Held(file.segs[k]) => Loadable(file.segs[k]) /\ file.segs[k].filesz <= file.segs[k].memsz
<1> SUFFICES ASSUME LoadTyped, Tidy, NEW k \in DOMAIN file.segs, Held(file.segs[k])
             PROVE  Loadable(file.segs[k]) /\ file.segs[k].filesz <= file.segs[k].memsz
  OBVIOUS
<1>1. file.segs[k] \in Segment /\ file.segs[k] \in Segs
  BY DEF LoadTyped, Segs
<1>2. file.segs[k].filesz <= file.segs[k].memsz
  BY <1>1 DEF Tidy
<1>3. file.segs[k].filesz \in Nat /\ file.segs[k].memsz \in Nat
  BY <1>1, SegmentFields
<1> QED
  BY <1>2, <1>3 DEF Held, Loadable

(* What depends only on the file, the host and the memory.                 *)
LEMMA SameFile ==
  UNCHANGED file => (Tidy' <=> Tidy) /\ Segs' = Segs
  BY DEF Tidy, Segs

LEMMA SameHost ==
  UNCHANGED via => \A s : Lost(s)' = Lost(s) /\ Around(s)' = Around(s)
  BY DEF Lost, Around

LEMMA NothingKept ==
  NothingElse /\ UNCHANGED <<file, via, ram>> => NothingElse'
<1> SUFFICES ASSUME NothingElse, UNCHANGED <<file, via, ram>>, NEW a \in Addresses, ram'[a] # Old
             PROVE  \E s \in Segs' : Held(s) /\ a \in Around(s)'
  BY DEF NothingElse
<1>1. PICK s \in Segs : Held(s) /\ a \in Around(s)
  BY DEF NothingElse
<1> QED
  BY <1>1, SameFile, SameHost

LEMMA ListedKept ==
  Listed /\ UNCHANGED <<file, header, sections>> /\ phase # "aborted" => Listed'
<1> SUFFICES ASSUME Listed, file' = file, header' = header, sections' = sections, phase # "aborted"
             PROVE  Listed'
  OBVIOUS
<1>1. /\ \A n \in 1 .. Len(sections') :
           Loadable(sections'[n]) /\ \E k \in 1 .. header' : sections'[n] = file'.segs[k]
      /\ \A k \in 1 .. header' : phase' # "aborted" /\ Loadable(file'.segs[k]) =>
           \E n \in 1 .. Len(sections') : sections'[n] = file'.segs[k]
  BY DEF Listed
<1>2. \A m \in 1 .. Len(sections') : \A n \in 1 .. m - 1 :
        \E j \in 1 .. header' : \E k \in 1 .. j - 1 : sections'[n] = file'.segs[k] /\ sections'[m] = file'.segs[j]
  BY DEF Listed
<1> QED
  BY <1>1, <1>2 DEF Listed

LEMMA ThereKept ==
  /\ There /\ UNCHANGED <<file, via, sections, ram>>
  /\ \A n \in 1 .. Len(sections) : \A a \in BytesOf(sections[n]) :
       a - sections[n].paddr < Done(n)' => a - sections[n].paddr < Done(n)
  => There'
<1> SUFFICES ASSUME There, UNCHANGED <<file, via, sections, ram>>,
                    \A n \in 1 .. Len(sections) : \A a \in BytesOf(sections[n]) :
                      a - sections[n].paddr < Done(n)' => a - sections[n].paddr < Done(n),
                    Tidy', NEW n \in 1 .. Len(sections), NEW a \in BytesOf(sections[n]) \ Lost(sections[n])',
                    a - sections[n].paddr < Done(n)'
             PROVE  ram[a] = Wanted(sections[n], a)
  BY DEF There
<1>1. Tidy /\ a \in BytesOf(sections[n]) \ Lost(sections[n])
  BY SameFile, SameHost
<1> QED
  BY <1>1 DEF There

(* Before the host writes there is nothing to find.                        *)
LEMMA ThereEarly ==
  LoadTyped' /\ Listed' /\ (\A n \in 1 .. Len(sections') : Done(n)' = 0) => There'
<1> SUFFICES ASSUME LoadTyped', Listed', \A n \in 1 .. Len(sections') : Done(n)' = 0,
                    NEW n \in 1 .. Len(sections'), NEW a \in BytesOf(sections'[n])
             PROVE  ~(a - sections'[n].paddr < Done(n)')
  BY DEF There
<1>1. sections'[n].paddr \in Nat /\ sections'[n].memsz \in Nat
  BY SegmentFields DEF LoadTyped
<1>2. a \in Int /\ a >= sections'[n].paddr
  BY <1>1 DEF BytesOf
<1>3. Done(n)' = 0
  OBVIOUS
<1> QED
  BY <1>1, <1>2, <1>3

LEMMA LoadInitially == LoadInit => LoadInv
<1> SUFFICES ASSUME LoadInit PROVE LoadInv
  OBVIOUS
<1>1. file \in Files /\ file.segs \in Seq(Segment) /\ file.entry \in Nat /\ Len(file.segs) \in Nat
  BY FileFields DEF LoadInit
<1>2. sections = <<>> /\ Len(sections) = 0 /\ sections \in Seq(Segment) /\ bf \in Seq(Int)
  BY DEF LoadInit
<1>3. ram = [a \in Addresses |-> Old] /\ ram \in [Addresses -> Int]
  BY DEF LoadInit, Old
<1>4. LoadTyped
  BY <1>1, <1>2, <1>3 DEF LoadInit, LoadTyped, Phases
<1>5. Listed
  BY <1>2 DEF Listed, LoadInit
<1>6. Stages /\ Filled /\ Cuts
  BY <1>2, <1>3 DEF Stages, Filled, Cuts, LoadInit
<1>7. There
  BY <1>2 DEF There
<1>8. NothingElse
  BY <1>3 DEF NothingElse
<1> QED
  BY <1>4, <1>5, <1>6, <1>7, <1>8 DEF LoadInv

LEMMA WaitForLlcKeeps == LoadInv /\ WaitForLlc => LoadInv'
<1> SUFFICES ASSUME LoadInv, WaitForLlc PROVE LoadInv'
  OBVIOUS
<1>1. /\ LoadTyped /\ Listed /\ Stages /\ There /\ NothingElse
      /\ phase = "wait" /\ phase' = "read"
      /\ UNCHANGED <<via, posix, file, header, entry, sections, index, bf, offs, launched, ram>>
  BY DEF LoadInv, WaitForLlc, Proceed, loader
<1>2. LoadTyped'
  BY <1>1 DEF LoadTyped, Phases
<1>3. Listed' /\ NothingElse'
  BY <1>1, ListedKept, NothingKept
<1>4. Stages' /\ Filled' /\ Cuts'
  BY <1>1 DEF Stages, Filled, Cuts
<1>5. There'
  BY <1>1, <1>2, <1>3, ThereEarly DEF Done
<1> QED
  BY <1>2, <1>3, <1>4, <1>5 DEF LoadInv

LEMMA ReadElfKeeps == LoadInv /\ ReadElf => LoadInv'
<1> SUFFICES ASSUME LoadInv, ReadElf PROVE LoadInv'
  OBVIOUS
<1>1. /\ LoadTyped /\ Listed /\ Stages /\ There /\ NothingElse
      /\ phase = "read" /\ index = 0 /\ header = 0 /\ entry = 0
      /\ UNCHANGED <<via, posix, file, header, sections, index, bf, offs, launched, ram>>
  BY DEF LoadInv, ReadElf, Stages
<1>2. \/ phase' = "fatal" /\ entry' = entry
      \/ phase' = "sections" /\ entry' = entry /\ file.defect = "phdrs"
      \/ phase' = "headers" /\ entry' = file.entry /\ file.defect # "phdrs"
  BY DEF ReadElf, LoadElf
<1>3. file \in Files /\ file.entry \in Nat
  BY <1>1, FileFields DEF LoadTyped
<1>4. LoadTyped'
  BY <1>1, <1>2, <1>3 DEF LoadTyped, Phases
<1>5. Listed' /\ NothingElse'
  BY <1>1, ListedKept, NothingKept
<1>6. Stages'
  BY <1>1, <1>2 DEF Stages
<1>7. Filled' /\ Cuts'
  BY <1>2 DEF Filled, Cuts
<1>8. \A n \in 1 .. Len(sections') : Done(n)' = 0
  BY <1>1, <1>2 DEF Done
<1>9. There'
  BY <1>4, <1>5, <1>8, ThereEarly
<1> QED
  BY <1>4, <1>5, <1>6, <1>7, <1>9 DEF LoadInv

LEMMA HeadersDoneKeeps == LoadInv /\ HeadersDone => LoadInv'
<1> SUFFICES ASSUME LoadInv, HeadersDone PROVE LoadInv'
  OBVIOUS
<1>1. /\ LoadTyped /\ Listed /\ Stages /\ There /\ NothingElse
      /\ phase = "headers" /\ phase' = "sections" /\ index = 0 /\ header = Len(file.segs)
      /\ UNCHANGED <<via, posix, file, header, entry, sections, index, bf, offs, launched, ram>>
  BY DEF LoadInv, HeadersDone, Proceed, loader, Stages
<1>2. LoadTyped'
  BY <1>1 DEF LoadTyped, Phases
<1>3. Listed' /\ NothingElse'
  BY <1>1, ListedKept, NothingKept
<1>4. Stages' /\ Filled' /\ Cuts'
  BY <1>1 DEF Stages, Filled, Cuts
<1>5. \A n \in 1 .. Len(sections') : Done(n)' = 0
  BY <1>1 DEF Done
<1>6. There'
  BY <1>2, <1>3, <1>5, ThereEarly
<1> QED
  BY <1>2, <1>3, <1>4, <1>6 DEF LoadInv

(* Looking at one more header lists its segment, if that is loadable.      *)
LEMMA NextHeaderKeeps == LoadInv /\ NextHeader => LoadInv'
<1> SUFFICES ASSUME LoadInv, NextHeader PROVE LoadInv'
  OBVIOUS
<1> DEFINE seg == file.segs[header + 1]
<1>1. /\ LoadTyped /\ Listed /\ Stages /\ There /\ NothingElse
      /\ phase = "headers" /\ index = 0 /\ header < Len(file.segs) /\ header' = header + 1
      /\ UNCHANGED <<via, posix, file, entry, index, bf, offs, launched, ram>>
      /\ \/ ~Loadable(seg) /\ UNCHANGED <<phase, sections>>
         \/ phase' = "aborted" /\ UNCHANGED sections
         \/ Loadable(seg) /\ sections' = Append(sections, seg) /\ UNCHANGED phase
  BY DEF LoadInv, NextHeader, Stages
<1>2. /\ header \in Nat /\ header + 1 \in 1 .. Len(file.segs) /\ Len(file.segs) \in Nat /\ seg \in Segment
      /\ sections \in Seq(Segment) /\ Len(sections) \in Nat
  BY <1>1 DEF LoadTyped
<1>3. \/ sections' = sections
      \/ /\ Loadable(seg) /\ phase' = phase
         /\ sections' \in Seq(Segment) /\ Len(sections') = Len(sections) + 1
         /\ sections'[Len(sections) + 1] = seg
         /\ \A n \in 1 .. Len(sections) : sections'[n] = sections[n]
  BY <1>1, <1>2
<1>4. LoadTyped'
  BY <1>1, <1>2, <1>3 DEF LoadTyped, Phases
<1>5. Listed'
  <2> HIDE DEF seg
  <2>1. /\ \A n \in 1 .. Len(sections') :
             \/ n \in 1 .. Len(sections) /\ sections'[n] = sections[n]
             \/ Loadable(seg) /\ n = Len(sections) + 1 /\ sections'[n] = seg
        /\ \A n \in 1 .. Len(sections) : n \in 1 .. Len(sections') /\ sections'[n] = sections[n]
    BY <1>2, <1>3
  <2>2. /\ \A k \in 1 .. header : k \in 1 .. header' /\ k < header + 1
        /\ \A k \in 1 .. header' : k \in 1 .. header \/ k = header + 1
        /\ header + 1 \in 1 .. header' /\ seg = file.segs[header + 1]
    BY <1>1, <1>2 DEF seg
  <2>3. \A n \in 1 .. Len(sections') :
          Loadable(sections'[n]) /\ \E k \in 1 .. header' : sections'[n] = file'.segs[k]
    BY <2>1, <2>2, <1>1 DEF Listed
  <2>4. ASSUME NEW k \in 1 .. header', phase' # "aborted", Loadable(file'.segs[k])
        PROVE  \E n \in 1 .. Len(sections') : sections'[n] = file'.segs[k]
    <3>1. CASE k \in 1 .. header
      BY <3>1, <2>1, <2>4, <1>1 DEF Listed
    <3>2. CASE k = header + 1
      <4>1. sections' = Append(sections, seg)
        BY <3>2, <2>4, <1>1 DEF seg
      <4>2. Len(sections) + 1 \in 1 .. Len(sections') /\ sections'[Len(sections) + 1] = seg
        BY <4>1, <1>2
      <4> QED
        BY <4>2, <3>2, <2>2, <1>1
    <3> QED
      BY <3>1, <3>2, <2>2
  <2>5. ASSUME NEW m \in 1 .. Len(sections'), NEW n \in 1 .. m - 1
        PROVE  \E j \in 1 .. header' : \E k \in 1 .. j - 1 :
                 sections'[n] = file'.segs[k] /\ sections'[m] = file'.segs[j]
    <3>1. m \in Nat /\ n \in Nat /\ n < m /\ n \in 1 .. Len(sections)
      BY <1>2, <1>3, <2>1
    <3>2. CASE m \in 1 .. Len(sections) /\ sections'[m] = sections[m]
      <4>1. PICK j \in 1 .. header : \E k \in 1 .. j - 1 : sections[n] = file.segs[k] /\ sections[m] = file.segs[j]
        BY <3>2, <1>1 DEF Listed
      <4> QED
        BY <4>1, <3>1, <3>2, <2>1, <2>2, <1>1
    <3>3. CASE sections'[m] = seg
      <4>1. PICK k \in 1 .. header : sections[n] = file.segs[k]
        BY <3>1, <1>1 DEF Listed
      <4>2. k \in 1 .. (header + 1) - 1
        BY <4>1, <1>2
      <4> QED
        BY <4>1, <4>2, <3>1, <3>3, <2>1, <2>2, <1>1
    <3> QED
      BY <3>2, <3>3, <2>1
  <2> QED
    BY <2>3, <2>4, <2>5 DEF Listed
<1>6. NothingElse'
  BY <1>1, NothingKept
<1>7. Stages' /\ Filled' /\ Cuts'
  BY <1>1, <1>3 DEF Stages, Filled, Cuts
<1>8. \A n \in 1 .. Len(sections') : Done(n)' = 0
  BY <1>1 DEF Done
<1>9. There'
  BY <1>4, <1>5, <1>8, ThereEarly
<1> QED
  BY <1>4, <1>5, <1>6, <1>7, <1>9 DEF LoadInv

(* A non-empty set of numbers has a least one; of sections at one address, *)
(* the loader's map holds the first.                                       *)
LEMMA LeastOf ==
  ASSUME NEW T, T \subseteq Nat, T # {}
  PROVE  \E x \in T : \A y \in T : x <= y
<1>1. PICK x \in T : \A y \in T : <<y, x>> \notin OpToRel(<, Nat)
  BY WFMin, NatLessThanWellFounded, Zenon
<1>2. x \in Nat /\ \A y \in T : y \in Nat /\ ~(y < x)
  BY <1>1, Zenon DEF OpToRel
<1> QED
  BY <1>2

LEMMA HolderListed ==
  LoadTyped => \A m \in 1 .. Len(sections) : Holder(sections[m]) \in 1 .. Len(sections)
<1> SUFFICES ASSUME LoadTyped, NEW m \in 1 .. Len(sections)
             PROVE  Holder(sections[m]) \in 1 .. Len(sections)
  OBVIOUS
<1> DEFINE P(k) == /\ sections[k].paddr = sections[m].paddr
                   /\ \A j \in 1 .. k - 1 : sections[j].paddr # sections[m].paddr
           T == {k \in 1 .. Len(sections) : sections[k].paddr = sections[m].paddr}
<1>1. Len(sections) \in Nat /\ DOMAIN sections = 1 .. Len(sections)
  BY DEF LoadTyped
<1>2. PICK x \in T : \A y \in T : x <= y
  <2>1. T \subseteq Nat /\ m \in T
    BY <1>1
  <2> HIDE DEF T
  <2> QED
    BY <2>1, LeastOf
<1>3. P(x) /\ x \in DOMAIN sections
  BY <1>1, <1>2
<1>4. Holder(sections[m]) = CHOOSE k \in DOMAIN sections : P(k)
  BY DEF Holder
<1> HIDE DEF P
<1> QED
  BY <1>1, <1>3, <1>4

LEMMA WantedAt ==
  \A s \in Segment, k \in Int :
    Wanted(s, s.paddr + k - 1) = IF k <= s.filesz THEN ByteOf(s, k - 1) ELSE Zero
<1> SUFFICES ASSUME NEW s \in Segment, NEW k \in Int
             PROVE  Wanted(s, s.paddr + k - 1) = IF k <= s.filesz THEN ByteOf(s, k - 1) ELSE Zero
  OBVIOUS
<1>1. s.paddr \in Nat /\ s.filesz \in Nat
  BY SegmentFields
<1>2. (s.paddr + k - 1) - s.paddr = k - 1 /\ (k - 1 < s.filesz <=> k <= s.filesz)
  BY <1>1
<1> QED
  BY <1>2 DEF Wanted

LEMMA NextSectionKeeps == LoadInv /\ NextSection => LoadInv'
<1> SUFFICES ASSUME LoadInv, NextSection PROVE LoadInv'
  OBVIOUS
<1> DEFINE n0  == index + 1
           seg == sections[n0]
           src == sections[Holder(seg)]
           B(k) == IF k <= src.filesz THEN ByteOf(src, k - 1) ELSE Zero
<1>1. /\ LoadTyped /\ Listed /\ Stages /\ There /\ NothingElse
      /\ phase = "sections" /\ index < Len(sections) /\ index' = n0 /\ offs' = 0
      /\ phase' = IF src.filesz > seg.memsz THEN "fatal" ELSE "write"
      /\ bf' = [k \in 1 .. seg.memsz |-> B(k)]
      /\ UNCHANGED <<via, posix, file, header, entry, sections, launched, ram>>
  BY DEF LoadInv, NextSection, loader
<1>2. n0 \in 1 .. Len(sections) /\ index \in Nat /\ index < n0 /\ Len(sections) \in Nat
  BY <1>1 DEF LoadTyped
<1>3. /\ seg \in Segment /\ seg.paddr \in Nat /\ seg.memsz \in Nat \ {0} /\ seg.filesz \in Nat
  BY <1>1, <1>2, SectionIs
<1>4. src \in Segment /\ src.id \in Nat /\ src.filesz \in Nat
  BY <1>1, <1>2, HolderListed, SegmentFields DEF LoadTyped
<1>5. \A k \in 1 .. seg.memsz : B(k) \in Int
  BY <1>3, <1>4 DEF ByteOf, Zero
<1>6. bf' \in Seq(Int) /\ Len(bf') = seg.memsz
  <2> HIDE DEF B, seg
  <2>1. bf' \in [1 .. seg.memsz -> Int]
    BY <1>1, <1>5
  <2> QED
    BY <2>1, <1>3
<1>7. LoadTyped'
  BY <1>1, <1>2, <1>6 DEF LoadTyped, Phases
<1>8. Listed' /\ NothingElse'
  BY <1>1, ListedKept, NothingKept
<1>9. Stages'
  <2>1. file.defect # "phdrs"
    BY <1>1, <1>2 DEF Stages
  <2> QED
    BY <2>1, <1>1 DEF Stages
<1>10. Filled'
  <2>1. 0 % Beat = 0 /\ Beat \in Nat
    BY Sized
  <2>2. ASSUME Tidy, NEW k \in 1 .. seg.memsz PROVE bf'[k] = Wanted(seg, seg.paddr + k - 1)
    <3>1. Holder(seg) = n0
      BY <1>1, <1>2, <2>2, OwnHolder
    <3>2. bf'[k] = IF k <= seg.filesz THEN ByteOf(seg, k - 1) ELSE Zero
      BY <3>1, <1>1
    <3> HIDE DEF seg
    <3>3. Wanted(seg, seg.paddr + k - 1) = IF k <= seg.filesz THEN ByteOf(seg, k - 1) ELSE Zero
      BY <1>3, WantedAt
    <3> QED
      BY <3>2, <3>3
  <2>3. sections'[index'] = seg
    BY <1>1
  <2>4. index' > 0 /\ offs' % Beat = 0 /\ offs' <= SecLen' + Beat
    BY <2>1, <1>1, <1>2, <1>3, <1>6 DEF SecLen
  <2>5. Tidy' => \A k \in 1 .. Len(bf') : bf'[k] = Wanted(seg, seg.paddr + k - 1)
    BY <2>2, <1>1, <1>6, SameFile
  <2> HIDE DEF seg
  <2> QED
    BY <2>3, <2>4, <2>5, <1>6 DEF Filled
<1>11. Cuts'
  <2>1. offs' = 0 * BurstBytes /\ 0 \in 0 .. offs'
    BY <1>1, Sized
  <2>2. SecAddr' \in Nat
    BY <1>1, <1>2, <1>3 DEF SecAddr
  <2>3. Cur' = SecAddr'
    <3>1. SecAddr' = seg.paddr /\ Cur' = seg.paddr + 0
      BY <1>1 DEF Cur, SecAddr
    <3> HIDE DEF seg
    <3> QED
      BY <1>3, <3>1
  <2> QED
    BY <2>1, <2>3 DEF Cuts
<1>12. There'
  <2>1. ASSUME NEW n \in 1 .. Len(sections), NEW a \in BytesOf(sections[n]), a - sections[n].paddr < Done(n)'
        PROVE  a - sections[n].paddr < Done(n)
    <3>1. sections[n].paddr \in Nat /\ sections[n].memsz \in Nat
      BY <1>1, SectionIs
    <3>2. a \in Int /\ a - sections[n].paddr >= 0
      BY <3>1 DEF BytesOf
    <3>3. Done(n)' # 0
      BY <3>1, <3>2, <2>1
    <3>4. phase' = "write" /\ n < n0 /\ Done(n)' = sections[n].memsz
      BY <3>3, <1>1, <1>2 DEF Done
    <3>5. n <= index
      BY <3>4, <1>2
    <3>6. Done(n) = sections[n].memsz
      BY <3>5, <1>1 DEF Done
    <3> QED
      BY <3>4, <3>6, <2>1
  <2> QED
    BY <2>1, <1>1, ThereKept
<1> QED
  BY <1>7, <1>8, <1>9, <1>10, <1>11, <1>12 DEF LoadInv

(* The section that is being written.                                      *)
LEMMA Written ==
  LoadInv /\ phase = "write" =>
    /\ index \in 1 .. Len(sections) /\ SecAddr = sections[index].paddr /\ SecLen = sections[index].memsz
    /\ SecAddr \in Nat /\ SecLen \in Nat \ {0} /\ offs \in Nat /\ Cur = SecAddr + offs /\ Cur \in Nat
    /\ file.defect # "phdrs"
<1> SUFFICES ASSUME LoadInv, phase = "write"
             PROVE  /\ index \in 1 .. Len(sections) /\ SecAddr = sections[index].paddr /\ SecLen = sections[index].memsz
                    /\ SecAddr \in Nat /\ SecLen \in Nat \ {0} /\ offs \in Nat /\ Cur = SecAddr + offs /\ Cur \in Nat
                    /\ file.defect # "phdrs"
  OBVIOUS
<1>1. LoadTyped /\ Listed /\ Stages /\ Filled
  BY DEF LoadInv
<1>2. index \in 1 .. Len(sections) /\ SecAddr = sections[index].paddr /\ SecLen = sections[index].memsz /\ offs \in Nat
  BY <1>1 DEF LoadTyped, Filled, SecAddr, SecLen
<1>3. SecAddr \in Nat /\ SecLen \in Nat \ {0}
  BY <1>1, <1>2, SectionIs
<1>4. Cur = SecAddr + offs /\ Cur \in Nat
  BY <1>2, <1>3 DEF Cur
<1>5. file.defect # "phdrs"
  BY <1>1, <1>2 DEF Stages
<1> QED
  BY <1>2, <1>3, <1>4, <1>5

LEMMA SectionDoneKeeps == LoadInv /\ SectionDone => LoadInv'
<1> SUFFICES ASSUME LoadInv, SectionDone PROVE LoadInv'
  OBVIOUS
<1>1. /\ LoadTyped /\ Listed /\ Stages /\ There /\ NothingElse
      /\ phase = "write" /\ phase' = "sections"
      /\ UNCHANGED <<via, posix, file, header, entry, sections, index, bf, offs, launched, ram>>
  BY DEF LoadInv, SectionDone, Proceed, loader
<1>2. /\ index \in 1 .. Len(sections) /\ SecLen = sections[index].memsz /\ SecLen \in Nat /\ offs \in Nat
      /\ file.defect # "phdrs"
  BY <1>1, Written
<1>3. offs >= SecLen
  BY <1>2 DEF SectionDone, JtagMore
<1>4. LoadTyped'
  BY <1>1 DEF LoadTyped, Phases
<1>5. Listed' /\ NothingElse'
  BY <1>1, ListedKept, NothingKept
<1>6. Stages' /\ Filled' /\ Cuts'
  BY <1>1, <1>2 DEF Stages, Filled, Cuts
<1>7. There'
  <2>1. ASSUME NEW n \in 1 .. Len(sections), NEW a \in BytesOf(sections[n]), a - sections[n].paddr < Done(n)'
        PROVE  a - sections[n].paddr < Done(n)
    <3>1. sections[n].paddr \in Nat /\ sections[n].memsz \in Nat
      BY <1>1, SectionIs
    <3>2. a \in Int /\ a - sections[n].paddr >= 0
      BY <3>1 DEF BytesOf
    <3>3. n <= index /\ Done(n)' = sections[n].memsz
      BY <3>1, <3>2, <2>1, <1>1 DEF Done
    <3>4. CASE n < index
      BY <3>3, <3>4, <2>1, <1>1 DEF Done
    <3>5. CASE n = index
      <4>1. Done(n) = offs
        BY <3>5, <1>1, <1>2 DEF Done
      <4> QED
        BY <4>1, <3>1, <3>2, <3>3, <3>5, <2>1, <1>2, <1>3
    <3> QED
      BY <3>3, <3>4, <3>5, <1>2
  <2> QED
    BY <2>1, <1>1, ThereKept
<1> QED
  BY <1>4, <1>5, <1>6, <1>7 DEF LoadInv

LEMMA LaunchKeeps == LoadInv /\ Launch => LoadInv'
<1> SUFFICES ASSUME LoadInv, Launch PROVE LoadInv'
  OBVIOUS
<1>1. /\ LoadTyped /\ Listed /\ Stages /\ There /\ NothingElse
      /\ phase = "sections" /\ phase' = "launched" /\ index >= Len(sections) /\ launched' = entry
      /\ UNCHANGED <<via, posix, file, header, entry, sections, index, bf, offs, ram>>
  BY DEF LoadInv, Launch, Proceed, loader
<1>2. index = Len(sections)
  BY <1>1 DEF LoadTyped
<1>3. LoadTyped'
  BY <1>1 DEF LoadTyped, Phases
<1>4. Listed' /\ NothingElse'
  BY <1>1, ListedKept, NothingKept
<1>5. Stages' /\ Filled' /\ Cuts'
  BY <1>1, <1>2 DEF Stages, Filled, Cuts
<1>6. There'
  <2>1. \A n \in 1 .. Len(sections) : Done(n)' = Done(n)
    BY <1>1 DEF Done
  <2> QED
    BY <2>1, <1>1, ThereKept
<1> QED
  BY <1>3, <1>4, <1>5, <1>6 DEF LoadInv

(* More on quotients, for the cuts of a section.                           *)
LEMMA SameQuotient ==
  \A x, y \in Int, d \in Nat \ {0} : x <= y /\ y < x - (x % d) + d => x \div d = y \div d
<1> SUFFICES ASSUME NEW x \in Int, NEW y \in Int, NEW d \in Nat \ {0}, x <= y, y < x - (x % d) + d
             PROVE  x \div d = y \div d
  OBVIOUS
<1> DEFINE m == y - (y % d)
           f == x - (x % d)
<1>1. x % d \in 0 .. d - 1 /\ y % d \in 0 .. d - 1
  BY Divided
<1>2. m \in Int /\ m <= y /\ f \in Int
  BY <1>1
<1>3. m % d = 0 /\ \A z \in Int : z % d = 0 /\ z > x => z >= f + d
  BY FloorIs, Zenon
<1>4. y < f + d
  OBVIOUS
<1> HIDE DEF m, f
<1>5. m <= x
  <2> SUFFICES ASSUME m > x PROVE FALSE
    BY <1>2
  <2>1. m >= f + d
    BY <1>2, <1>3
  <2> QED
    BY <2>1, <1>2, <1>4
<1>6. x \in y - (y % d) .. y
  BY <1>1, <1>5 DEF m
<1> QED
  BY <1>6, Quotients, Zenon

LEMMA NegatedMultiple ==
  \A a \in Int, d \in Nat \ {0} : a % d = 0 => (-a) % d = 0
<1> SUFFICES ASSUME NEW a \in Int, NEW d \in Nat \ {0}, a % d = 0 PROVE (-a) % d = 0
  OBVIOUS
<1> DEFINE q == a \div d
<1>1. a = d * q /\ q \in Int
  BY Divided, MultipleOf
<1> HIDE DEF q
<1>2. -a = d * (-q) /\ -q \in Int
  BY <1>1
<1> QED
  BY <1>2, Multiple

(* What a write changes: the bytes of the section from Cur to end.         *)
LEMMA Stored ==
  ASSUME LoadInv, phase = "write", NEW first \in Int, NEW last \in Int, NEW end \in Int,
         Store(first, last, Cur, end), end < SecAddr + SecLen
  PROVE  /\ ram' \in [Addresses -> Int]
         /\ \A a \in Addresses : a \notin first .. last => ram'[a] = ram[a]
         /\ \A a \in Addresses : a \in first .. last /\ a \in Cur .. end =>
              /\ a - SecAddr + 1 \in 1 .. SecLen
              /\ ram'[a] = bf[a - SecAddr + 1]
<1>1. /\ SecAddr \in Nat /\ SecLen \in Nat /\ Cur \in Nat /\ Cur >= SecAddr
      /\ bf \in Seq(Int) /\ Len(bf) = SecLen /\ ram \in [Addresses -> Int]
  <2>1. SecAddr \in Nat /\ SecLen \in Nat /\ Cur \in Nat /\ offs \in Nat /\ Cur = SecAddr + offs
    BY Written
  <2>2. bf \in Seq(Int) /\ Len(bf) = SecLen /\ ram \in [Addresses -> Int]
    BY DEF LoadInv, LoadTyped, SecLen
  <2>3. Cur >= SecAddr
    BY <2>1
  <2> QED
    BY <2>1, <2>2, <2>3
<1> DEFINE V(a) == IF a \notin first .. last THEN ram[a]
                   ELSE IF a \in Cur .. end THEN bf[a - SecAddr + 1] ELSE Zero
<1>2. ram' = [a \in Addresses |-> V(a)]
  BY DEF Store
<1>3. ASSUME NEW a \in Addresses, a \in Cur .. end
      PROVE  a - SecAddr + 1 \in 1 .. SecLen /\ bf[a - SecAddr + 1] \in Int
  <2>1. a - SecAddr + 1 \in 1 .. SecLen
    BY <1>1, <1>3
  <2> QED
    BY <2>1, <1>1
<1>4. ASSUME NEW a \in Addresses PROVE V(a) \in Int
  <2>1. ram[a] \in Int /\ Zero \in Int
    BY <1>1 DEF Zero
  <2>2. a \in Cur .. end => bf[a - SecAddr + 1] \in Int
    BY <1>3
  <2> QED
    BY <2>1, <2>2
<1>5. \A a \in Addresses : ram'[a] = V(a)
  BY <1>2
<1>6. ram' \in [Addresses -> Int]
  <2> HIDE DEF V
  <2> QED
    BY <1>2, <1>4
<1> QED
  BY <1>3, <1>5, <1>6

(* A write that starts at Cur keeps all but the cuts, if it reaches no     *)
(* byte before it but lost ones and stays around the section.              *)
LEMMA WriteKeeps ==
  ASSUME LoadInv, phase = "write", NEW first \in Int, NEW last \in Int, NEW end \in Int,
         Store(first, last, Cur, end),
         UNCHANGED <<phase, via, file, header, entry, sections, index, bf>>, offs' \in Nat,
         first <= Cur, end <= last, end < SecAddr + SecLen, SecAddr - (SecAddr % Beat) <= first,
         \A a \in BytesOf(sections[index]) : a - SecAddr < offs' => a <= end,
         \A a \in BytesOf(sections[index]) \ Lost(sections[index]) : a < Cur => a < first,
         first .. last \subseteq Around(sections[index])
  PROVE  LoadTyped' /\ Listed' /\ Stages' /\ There' /\ NothingElse'
<1> DEFINE sec == sections[index]
<1>1. /\ LoadTyped /\ Listed /\ Stages /\ Filled /\ There /\ NothingElse
  BY DEF LoadInv
<1>2. /\ index \in 1 .. Len(sections) /\ SecAddr = sec.paddr /\ SecLen = sec.memsz
      /\ SecAddr \in Nat /\ SecLen \in Nat \ {0} /\ offs \in Nat /\ Cur = SecAddr + offs /\ Cur \in Nat
      /\ file.defect # "phdrs"
  BY Written
<1>3. sec \in Segs /\ sec \in Segment /\ Held(sec) /\ BytesOf(sec) \subseteq Addresses
  BY <1>1, <1>2, SectionIs
<1>4. /\ ram' \in [Addresses -> Int]
      /\ \A a \in Addresses : a \notin first .. last => ram'[a] = ram[a]
      /\ \A a \in Addresses : a \in first .. last /\ a \in Cur .. end =>
              /\ a - SecAddr + 1 \in 1 .. SecLen
              /\ ram'[a] = bf[a - SecAddr + 1]
  BY Stored
<1>5. LoadTyped'
  BY <1>1, <1>4 DEF LoadTyped
<1>6. Listed'
  BY <1>1, ListedKept
<1>7. Stages'
  BY <1>1, <1>2 DEF Stages
<1>8. NothingElse'
  <2> SUFFICES ASSUME NEW a \in Addresses, ram'[a] # Old
               PROVE  \E s \in Segs' : Held(s) /\ a \in Around(s)'
    BY DEF NothingElse
  <2>1. \E s \in Segs : Held(s) /\ a \in Around(s)
    <3>1. CASE a \in first .. last
      BY <3>1, <1>3
    <3>2. CASE a \notin first .. last
      BY <3>2, <1>1, <1>4 DEF NothingElse
    <3> QED
      BY <3>1, <3>2
  <2> QED
    BY <2>1, SameFile, SameHost
<1>9. There'
  <2> SUFFICES ASSUME Tidy', NEW n \in 1 .. Len(sections), NEW a \in BytesOf(sections[n]) \ Lost(sections[n])',
                      a - sections[n].paddr < Done(n)'
               PROVE  ram'[a] = Wanted(sections[n], a)
    BY DEF There
  <2>1. Tidy /\ a \in BytesOf(sections[n]) \ Lost(sections[n])
    BY SameFile, SameHost
  <2>2. sections[n].paddr \in Nat /\ sections[n].memsz \in Nat /\ BytesOf(sections[n]) \subseteq Addresses
    BY <1>1, SectionIs
  <2>3. a \in Int /\ a >= sections[n].paddr /\ a <= sections[n].paddr + sections[n].memsz - 1 /\ a \in Addresses
    BY <2>1, <2>2 DEF BytesOf
  <2>4. n <= index
    <3> SUFFICES ASSUME n > index PROVE FALSE
      BY <1>2
    <3>1. Done(n)' = 0
      BY <1>2 DEF Done
    <3> QED
      BY <3>1, <2>2, <2>3
  <2>5. CASE n < index
    <3>1. n \in 1 .. index - 1
      BY <2>5, <1>2
    <3>2. a < SecAddr - (SecAddr % Beat)
      BY <3>1, <2>1, <1>1, <1>2, SectionsApart
    <3>3. SecAddr - (SecAddr % Beat) \in Int
      <4>1. SecAddr \in Int
        BY <1>2
      <4>2. SecAddr % Beat \in Int
        BY <4>1, Sized
      <4> QED
        BY <4>1, <4>2
    <3>6. \A x, y, f, l \in Int : x < y /\ y <= f => x \notin f .. l
      OBVIOUS
    <3>4. a \notin first .. last
      BY <3>2, <3>3, <3>6, <2>3, Zenon
    <3>5. Done(n)' = Done(n)
      BY <2>5 DEF Done
    <3> QED
      BY <3>4, <3>5, <2>1, <2>3, <1>1, <1>4 DEF There
  <2>6. CASE n = index
    <3>1. Done(n)' = offs' /\ Done(n) = offs
      BY <2>6, <1>2 DEF Done
    <3>2. a <= end
      BY <3>1, <2>1, <2>6, <1>2
    <3>3. CASE a >= Cur
      <4>1. a \in first .. last /\ a \in Cur .. end
        <5>1. \A f, c, x, t, l \in Int : f <= c /\ x >= c /\ x <= t /\ t <= l => x \in f .. l /\ x \in c .. t
          OBVIOUS
        <5>2. a \in Int /\ Cur \in Int
          BY <2>3, <1>2
        <5> QED
          BY <5>1, <5>2, <3>2, <3>3, Zenon
      <4>2. a - SecAddr + 1 \in 1 .. Len(bf) /\ ram'[a] = bf[a - SecAddr + 1]
        BY <4>1, <2>3, <1>4 DEF SecLen
      <4>3. bf[a - SecAddr + 1] = Wanted(sec, sec.paddr + (a - SecAddr + 1) - 1)
        BY <4>2, <2>1, <1>1, Zenon DEF Filled
      <4>4. sec.paddr + (a - SecAddr + 1) - 1 = a
        <5>1. \A p, x \in Int : p + (x - p + 1) - 1 = x
          OBVIOUS
        <5>2. SecAddr \in Int
          BY <1>2
        <5>3. SecAddr + (a - SecAddr + 1) - 1 = a
          BY <5>1, <5>2, <2>3, Zenon
        <5> QED
          BY <5>3, <1>2, Zenon
      <4> HIDE DEF sec
      <4>5. sections[n] = sec
        BY <2>6 DEF sec
      <4> QED
        BY <4>2, <4>3, <4>4, <4>5
    <3>4. CASE a < Cur
      <4>1. a < first
        BY <3>4, <2>1, <2>6
      <4>2. ram'[a] = ram[a]
        BY <4>1, <2>3, <1>4
      <4>3. a - sections[n].paddr < Done(n)
        <5>1. \A x, p, o \in Int : x < p + o => x - p < o
          OBVIOUS
        <5>2. SecAddr \in Int /\ offs \in Int
          BY <1>2
        <5>3. a - SecAddr < offs
          BY <5>1, <5>2, <3>4, <2>3, <1>2, Zenon
        <5>4. sections[n].paddr = SecAddr
          BY <2>6, <1>2
        <5> QED
          BY <5>3, <5>4, <3>1
      <4> QED
        BY <4>2, <4>3, <2>1, <1>1 DEF There
    <3> QED
      <4>1. \A x, c \in Int : x >= c \/ x < c
        OBVIOUS
      <4>2. Cur \in Int
        BY <1>2
      <4> QED
        BY <4>1, <4>2, <3>3, <3>4, <2>3, Zenon
  <2> QED
    BY <2>4, <2>5, <2>6, <1>2
<1> QED
  BY <1>5, <1>6, <1>7, <1>8, <1>9

(* The burst that comes next.                                              *)
LEMMA BurstIs ==
  LoadInv /\ phase = "write" /\ offs < SecLen =>
    /\ BurstLen \in Nat \ {0} /\ BurstLen <= BurstBytes /\ BurstLen <= SecLen - offs
    /\ Cur + BurstLen <= Cur - (Cur % PageBytes) + PageBytes
    /\ BurstLen \in {BurstBytes, SecLen - offs, PageBytes - (Cur % PageBytes)}
    /\ BurstFirst \in Nat /\ BurstBeats \in Nat \ {0} /\ BurstLast \in Nat
    /\ BurstFirst <= Cur /\ Cur < BurstFirst + Beat /\ Cur + BurstLen - 1 <= BurstLast
    /\ BurstBeats * Beat <= (Cur % Beat) + BurstLen + Beat - 1
    /\ \A m \in Int : m % Beat = 0 /\ m <= Cur => m <= BurstFirst
    /\ \A m \in Int : m % Beat = 0 /\ Cur + BurstLen <= m => BurstLast < m
<1> SUFFICES ASSUME LoadInv, phase = "write", offs < SecLen
             PROVE  /\ BurstLen \in Nat \ {0} /\ BurstLen <= BurstBytes /\ BurstLen <= SecLen - offs
                    /\ Cur + BurstLen <= Cur - (Cur % PageBytes) + PageBytes
                    /\ BurstLen \in {BurstBytes, SecLen - offs, PageBytes - (Cur % PageBytes)}
                    /\ BurstFirst \in Nat /\ BurstBeats \in Nat \ {0} /\ BurstLast \in Nat
                    /\ BurstFirst <= Cur /\ Cur < BurstFirst + Beat /\ Cur + BurstLen - 1 <= BurstLast
                    /\ BurstBeats * Beat <= (Cur % Beat) + BurstLen + Beat - 1
                    /\ \A m \in Int : m % Beat = 0 /\ m <= Cur => m <= BurstFirst
                    /\ \A m \in Int : m % Beat = 0 /\ Cur + BurstLen <= m => BurstLast < m
  OBVIOUS
<1>1. SecLen \in Nat /\ offs \in Nat /\ Cur \in Nat
  BY Written
<1>2. BurstBytes \in Nat \ {0} /\ PageBytes \in Nat \ {0}
  BY Sized
<1>3. Cur % PageBytes \in 0 .. PageBytes - 1
  BY <1>1, <1>2
<1> DEFINE rest == Cur % PageBytes
<1>4. rest \in 0 .. PageBytes - 1 /\ BurstLen = Smaller(Smaller(BurstBytes, SecLen - offs), PageBytes - rest)
  BY <1>3 DEF BurstLen
<1> HIDE DEF rest
<1>5. /\ BurstLen \in Nat \ {0} /\ BurstLen <= BurstBytes /\ BurstLen <= SecLen - offs
      /\ Cur + BurstLen <= Cur - rest + PageBytes
      /\ BurstLen \in {BurstBytes, SecLen - offs, PageBytes - rest}
  BY <1>1, <1>2, <1>4 DEF Smaller
<1>6. /\ BurstFirst \in Nat /\ BurstBeats \in Nat \ {0} /\ BurstLast \in Nat
      /\ BurstFirst <= Cur /\ Cur < BurstFirst + Beat /\ Cur + BurstLen - 1 <= BurstLast
      /\ BurstBeats * Beat <= (Cur % Beat) + BurstLen + Beat - 1
      /\ \A m \in Int : m % Beat = 0 /\ m <= Cur => m <= BurstFirst
      /\ \A m \in Int : m % Beat = 0 /\ Cur + BurstLen <= m => BurstLast < m
  BY <1>1, <1>5, BeatsAround, Zenon DEF BurstFirst, BurstBeats, BurstLast
<1> QED
  BY <1>5, <1>6 DEF rest

LEMMA WriteBurstKeeps == LoadInv /\ WriteBurst => LoadInv'
<1> SUFFICES ASSUME LoadInv, WriteBurst PROVE LoadInv'
  OBVIOUS
<1> DEFINE sec == sections[index]
           end  == Cur + BurstLen - 1
<1>1. /\ LoadTyped /\ Listed /\ Filled /\ Cuts
      /\ phase = "write" /\ via = "slink" /\ offs < SecLen /\ offs' = offs + BurstLen
      /\ Store(BurstFirst, BurstLast, Cur, end)
      /\ UNCHANGED <<phase, via, posix, file, header, entry, sections, index, bf, launched>>
  BY DEF LoadInv, WriteBurst, loader
<1>2. /\ SecAddr = sec.paddr /\ SecLen = sec.memsz
      /\ SecAddr \in Nat /\ SecLen \in Nat \ {0} /\ offs \in Nat /\ Cur = SecAddr + offs /\ Cur \in Nat
  BY <1>1, Written
<1>3. /\ BurstLen \in Nat \ {0} /\ BurstLen <= SecLen - offs
      /\ BurstFirst \in Nat /\ BurstLast \in Nat
      /\ BurstFirst <= Cur /\ Cur + BurstLen - 1 <= BurstLast
      /\ offs' = offs + BurstLen /\ offs < SecLen
  BY <1>1, BurstIs
<1>14. /\ Cur + BurstLen <= Cur - (Cur % PageBytes) + PageBytes
       /\ BurstLen \in {BurstBytes, SecLen - offs, PageBytes - (Cur % PageBytes)}
  BY <1>1, BurstIs
<1>15. /\ \A m \in Int : m % Beat = 0 /\ m <= Cur => m <= BurstFirst
       /\ \A m \in Int : m % Beat = 0 /\ Cur + BurstLen <= m => BurstLast < m
  BY <1>1, BurstIs
<1>4. Beat \in Nat \ {0} /\ PageBytes \in Nat \ {0} /\ BurstBytes \in Nat \ {0}
  BY Sized
<1>5. offs' \in Nat /\ end \in Int /\ end <= BurstLast /\ end < SecAddr + SecLen
  BY <1>2, <1>3
<1>6. SecAddr - (SecAddr % Beat) <= BurstFirst
  <2> DEFINE r == SecAddr % Beat
             m == SecAddr - r
  <2>1. SecAddr \in Int
    BY <1>2
  <2>2. m % Beat = 0 /\ r \in 0 .. Beat - 1
    BY <2>1, <1>4, FloorIs, Divided, Zenon
  <2> HIDE DEF r
  <2>3. m \in Int /\ m <= Cur
    BY <2>2, <1>2, <1>4
  <2> HIDE DEF m
  <2>4. m <= BurstFirst
    BY <2>2, <2>3, <1>15
  <2> QED
    BY <2>4 DEF m, r
<1>7. \A a \in BytesOf(sections[index]) : a - SecAddr < offs' => a <= end
  <2> SUFFICES ASSUME NEW a \in BytesOf(sections[index]), a - SecAddr < offs' PROVE a <= end
    OBVIOUS
  <2>1. a \in Int
    BY <1>2 DEF BytesOf
  <2> QED
    BY <2>1, <1>2, <1>3
<1>8. \A a \in BytesOf(sections[index]) \ Lost(sections[index]) : a < Cur => a < BurstFirst
  <2> SUFFICES ASSUME NEW a \in BytesOf(sections[index]), a < Cur, ~(a < BurstFirst)
               PROVE  a \in Lost(sections[index])
    OBVIOUS
  <2>1. a \in Int /\ a >= SecAddr
    BY <1>2 DEF BytesOf
  <2>2. Cur % Beat # 0
    <3> SUFFICES ASSUME Cur % Beat = 0 PROVE FALSE
      OBVIOUS
    <3>1. Cur \in Int /\ Cur <= Cur
      BY <1>2
    <3>2. Cur <= BurstFirst
      BY <3>1, <1>15, Zenon
    <3>3. \A x, y, z \in Int : x < y /\ y <= z => x < z
      OBVIOUS
    <3>4. BurstFirst \in Int
      BY <1>3
    <3> QED
      BY <3>1, <3>2, <3>3, <3>4, <2>1, Zenon
  <2>3. PICK k \in 0 .. offs : offs = k * BurstBytes /\ Cur \div PageBytes = SecAddr \div PageBytes
    BY <2>2, <1>1 DEF Cuts
  <2>4. k # 0
    BY <2>1, <2>3, <1>2, <1>4
  <2>5. k \in 1 .. SecLen \div BurstBytes
    <3> DEFINE q == SecLen \div BurstBytes
               r == SecLen % BurstBytes
    <3>1. SecLen = BurstBytes * q + r /\ q \in Int /\ r \in 0 .. BurstBytes - 1
      <4>1. SecLen \in Int
        BY <1>2
      <4> QED
        BY <4>1, <1>4, Divided, Zenon
    <3> HIDE DEF q, r
    <3>2. ASSUME k >= q + 1 PROVE FALSE
      <4> DEFINE all == BurstBytes * q
      <4>1. k * BurstBytes >= (q + 1) * BurstBytes
        BY <3>1, <3>2, <1>2, <1>4
      <4>2. (q + 1) * BurstBytes = all + BurstBytes /\ all \in Int
        BY <3>1, <1>4
      <4>3. offs >= all + BurstBytes
        BY <4>1, <4>2, <2>3, Zenon
      <4>4. SecLen = all + r
        BY <3>1
      <4> HIDE DEF all
      <4> QED
        BY <4>2, <4>3, <4>4, <3>1, <1>2, <1>3, <1>4
    <3>3. k <= q
      BY <3>1, <3>2, <2>3, <1>2
    <3> QED
      BY <3>3, <3>1, <2>3, <2>4, <1>2 DEF q
  <2>6. sec.paddr + k * BurstBytes = Cur
    BY <2>3, <1>2
  <2>7. BeatOf(a) = BeatOf(Cur)
    <3>1. BurstFirst = Cur - (Cur % Beat)
      BY DEF BurstFirst
    <3>2. a \in BurstFirst .. Cur /\ Cur \in Int
      <4>1. \A x, y, z \in Int : x < y /\ ~(x < z) => x \in z .. y
        OBVIOUS
      <4>2. Cur \in Int /\ BurstFirst \in Int
        BY <1>2, <1>3
      <4> QED
        BY <4>1, <4>2, <2>1, Zenon
    <3> QED
      BY <3>1, <3>2, <2>1, <1>4, Quotients, Zenon DEF BeatOf
  <2>8. Cur < sec.paddr + sec.memsz
    BY <1>2, <1>3
  <2> HIDE DEF sec
  <2>9. k \in 1 .. sec.memsz \div BurstBytes /\ Cur \div PageBytes = sec.paddr \div PageBytes
    BY <2>3, <2>5, <1>2
  <2>10. a \in Lost(sec)
    BY <2>6, <2>7, <2>8, <2>9, <1>1 DEF Lost, sec
  <2> QED
    BY <2>10 DEF sec
<1>9. BurstFirst .. BurstLast \subseteq Around(sections[index])
  <2> DEFINE e == sec.paddr + sec.memsz
             t == (-e) % Beat
  <2>1. e \in Nat /\ e = SecAddr + SecLen /\ -e \in Int
    BY <1>2
  <2>2. t \in 0 .. Beat - 1
    <3> HIDE DEF e
    <3> QED
      BY <2>1, <1>4, Divided, Zenon
  <2>10. (-e - t) % Beat = 0
    <3> HIDE DEF e
    <3> QED
      BY <2>1, <1>4, FloorIs, Zenon
  <2> HIDE DEF e, t
  <2>3. -e - t \in Int /\ -(-e - t) = e + t /\ e + t \in Int
    BY <2>1, <2>2, <1>4
  <2>4. (e + t) % Beat = 0
    <3>1. (-(-e - t)) % Beat = 0
      BY <2>10, <2>3, <1>4, NegatedMultiple, Zenon
    <3> QED
      BY <3>1, <2>3
  <2>5. Cur + BurstLen <= e + t
    BY <2>1, <2>2, <1>2, <1>3, <1>4
  <2>6. BurstLast < e + t
    BY <2>3, <2>4, <2>5, <1>15, Zenon
  <2>7. BurstLast <= e - 1 + t
    BY <2>1, <2>2, <2>6, <1>3, <1>4
  <2>8. Around(sec) = SecAddr - (SecAddr % Beat) .. e - 1 + t
    BY <1>1, <1>2 DEF Around, e, t
  <2> DEFINE low == SecAddr - (SecAddr % Beat)
  <2>9. low \in Int /\ e - 1 + t \in Int
    <3>1. SecAddr % Beat \in 0 .. Beat - 1
      <4>1. SecAddr \in Int
        BY <1>2
      <4> QED
        BY <4>1, <1>4, Divided, Zenon
    <3> QED
      BY <3>1, <2>1, <2>2, <1>2, <1>4
  <2>11. low <= BurstFirst /\ Around(sec) = low .. e - 1 + t
    BY <2>8, <1>6
  <2> HIDE DEF low
  <2> QED
    BY <2>7, <2>9, <2>11, <1>3
<1>10. LoadTyped' /\ Listed' /\ Stages' /\ There' /\ NothingElse'
  BY <1>1, <1>3, <1>5, <1>6, <1>7, <1>8, <1>9, WriteKeeps
<1>11. SecAddr' = SecAddr /\ SecLen' = SecLen /\ Cur' = Cur + BurstLen
  <2>1. SecAddr' = SecAddr /\ SecLen' = SecLen
    BY <1>1 DEF SecAddr, SecLen
  <2>2. Cur' = SecAddr + offs'
    BY <2>1 DEF Cur
  <2> QED
    BY <2>1, <2>2, <1>2, <1>3
<1>12. Filled'
  <2>1. Tidy' <=> Tidy
    BY <1>1, SameFile
  <2> QED
    BY <2>1, <1>1 DEF Filled
<1>13. Cuts'
  <2> SUFFICES ASSUME offs' < SecLen
               PROVE  \/ Cur' % Beat = 0
                      \/ \E k \in 0 .. offs' : offs' = k * BurstBytes /\ Cur' \div PageBytes = SecAddr \div PageBytes
    BY <1>11 DEF Cuts
  <2>1. BurstLen # SecLen - offs
    BY <1>2, <1>3
  <2> DEFINE rest == Cur % PageBytes
  <2>2. Cur \in Int /\ rest \in 0 .. PageBytes - 1
    <3>1. Cur \in Int
      BY <1>2
    <3> QED
      BY <3>1, <1>4, Divided, Zenon
  <2>5. (Cur - rest) % PageBytes = 0
    BY <2>2, <1>4, FloorIs, Zenon
  <2>3. CASE BurstLen = PageBytes - rest
    <3>1. PageBytes % PageBytes = 0
      <4>1. (PageBytes * 1) % PageBytes = 0
        BY <1>4, Multiple
      <4> QED
        BY <4>1, <1>4
    <3> HIDE DEF rest
    <3>2. Cur - rest \in Int /\ PageBytes \in Int
      BY <2>2, <1>4
    <3>3. (Cur - rest + PageBytes) % PageBytes = 0
      BY <3>1, <3>2, <2>5, <1>4, MultiplesAdd, Zenon
    <3>4. Cur' = Cur - rest + PageBytes /\ Cur' \in Int
      BY <3>2, <2>2, <2>3, <1>4, <1>11
    <3>5. Cur' % Beat = 0
      BY <3>3, <3>4, Sized
    <3> QED
      BY <3>5
  <2>4. CASE BurstLen = BurstBytes /\ BurstLen # PageBytes - rest
    <3> HIDE DEF rest
    <3>1. CASE Cur % Beat = 0
      <4>1. BurstBytes \in Int /\ BurstBytes % Beat = 0
        BY Sized
      <4>2. (Cur + BurstBytes) % Beat = 0
        BY <4>1, <3>1, <2>2, <1>4, MultiplesAdd, Zenon
      <4> QED
        BY <4>2, <2>4, <1>11
    <3>2. CASE Cur % Beat # 0
      <4>1. PICK k \in 0 .. offs : offs = k * BurstBytes /\ Cur \div PageBytes = SecAddr \div PageBytes
        BY <3>2, <1>1 DEF Cuts
      <4>2. offs' = (k + 1) * BurstBytes
        <5>1. k \in Int
          BY <1>2
        <5>2. (k + 1) * BurstBytes = k * BurstBytes + BurstBytes
          BY <5>1, <1>4
        <5> QED
          BY <5>2, <4>1, <2>4, <1>1
      <4>3. k + 1 \in 0 .. offs'
        BY <2>4, <1>2, <1>3, <1>4
      <4>4. Cur' \in Int /\ Cur <= Cur' /\ Cur' < Cur - rest + PageBytes
        <5>1. Cur + BurstLen <= Cur - rest + PageBytes
          BY <1>14 DEF rest
        <5> QED
          BY <5>1, <2>2, <2>4, <1>2, <1>3, <1>4, <1>11
      <4>5. Cur \div PageBytes = Cur' \div PageBytes
        BY <4>4, <2>2, <1>4, SameQuotient, Zenon DEF rest
      <4> QED
        BY <4>1, <4>2, <4>3, <4>5
    <3> QED
      BY <3>1, <3>2
  <2> QED
    BY <2>1, <2>3, <2>4, <1>14
<1> QED
  BY <1>10, <1>12, <1>13 DEF LoadInv

(* The double word that comes next starts at a beat, and may be the one    *)
(* after the section's last.                                               *)
LEMMA WriteDoubleKeeps == LoadInv /\ WriteDouble => LoadInv'
<1> SUFFICES ASSUME LoadInv, WriteDouble PROVE LoadInv'
  OBVIOUS
<1> DEFINE sec  == sections[index]
           last == Cur + Beat - 1
           end   == Smaller(Cur + Beat, SecAddr + SecLen) - 1
<1>1. /\ LoadTyped /\ Listed /\ Filled
      /\ phase = "write" /\ via = "jtag"
      /\ Store(Cur, last, Cur, end)
      /\ UNCHANGED <<phase, via, posix, file, header, entry, sections, index, bf, launched>>
  BY DEF LoadInv, WriteDouble, loader
<1>2. SecAddr \in Nat /\ SecLen \in Nat \ {0} /\ offs \in Nat /\ Cur = SecAddr + offs /\ Cur \in Nat
  BY <1>1, Written
<1>15. SecAddr = sec.paddr /\ SecLen = sec.memsz /\ index \in 1 .. Len(sections)
  BY <1>1, Written
<1>3. Beat \in Nat \ {0}
  BY Sized
<1>4. offs' = offs + Beat /\ offs <= SecLen
  BY DEF WriteDouble, JtagMore
<1>5. /\ last \in Int /\ end \in Int /\ offs' \in Nat /\ Cur \in Int /\ Cur <= Cur
      /\ end <= last /\ end < SecAddr + SecLen
  <2>1. \A x, y \in Int : Smaller(x, y) \in Int /\ Smaller(x, y) <= x /\ Smaller(x, y) <= y
    BY DEF Smaller
  <2>2. Cur + Beat \in Int /\ SecAddr + SecLen \in Int
    BY <1>2, <1>3
  <2> DEFINE least == Smaller(Cur + Beat, SecAddr + SecLen)
  <2>3. least \in Int /\ least <= Cur + Beat /\ least <= SecAddr + SecLen
    BY <2>1, <2>2, Zenon
  <2>4. end = least - 1
    OBVIOUS
  <2> HIDE DEF least, end
  <2> QED
    BY <2>3, <2>4, <1>2, <1>3, <1>4
<1>6. SecAddr % Beat = 0
  BY <1>1, <1>15, SectionIs
<1>7. SecAddr - (SecAddr % Beat) <= Cur
  BY <1>2, <1>6
<1>8. \A a \in BytesOf(sections[index]) : a - SecAddr < offs' => a <= end
  <2> SUFFICES ASSUME NEW a \in BytesOf(sections[index]), a - SecAddr < offs' PROVE a <= end
    OBVIOUS
  <2>1. a \in Int /\ a <= SecAddr + SecLen - 1
    BY <1>2, <1>15 DEF BytesOf
  <2>2. a < Cur + Beat /\ a < SecAddr + SecLen
    BY <2>1, <1>2, <1>3, <1>4
  <2>3. \A x, y : Smaller(x, y) \in {x, y}
    BY DEF Smaller
  <2>4. Smaller(Cur + Beat, SecAddr + SecLen) \in {Cur + Beat, SecAddr + SecLen}
    BY <2>3, Zenon
  <2> DEFINE least == Smaller(Cur + Beat, SecAddr + SecLen)
  <2>5. a < least /\ end = least - 1 /\ least \in Int
    BY <2>2, <2>4, <1>2, <1>3
  <2> HIDE DEF least, end
  <2> QED
    BY <2>1, <2>5
<1>9. \A a \in BytesOf(sections[index]) \ Lost(sections[index]) : a < Cur => a < Cur
  OBVIOUS
<1>10. offs % Beat = 0
  BY <1>1 DEF Filled
<1>11. Cur .. last \subseteq Around(sections[index])
  <2> DEFINE r == SecLen % Beat
             q == SecLen \div Beat
  <2>1. SecLen \in Int /\ offs \in Int
    BY <1>2
  <2>2. SecLen - r = Beat * q /\ q \in Int /\ r \in 0 .. Beat - 1
    BY <2>1, <1>3, FloorIs, Divided, Zenon
  <2>3. offs <= SecLen - r
    BY <2>1, <1>3, <1>4, <1>10, FloorIs, Zenon
  <2>4. Around(sec) = SecAddr .. SecAddr + (q + 1) * Beat - 1
    BY <1>1, <1>15 DEF Around
  <2> HIDE DEF r, q
  <2>5. (q + 1) * Beat = Beat * q + Beat
    BY <2>2, <1>3
  <2> DEFINE top == (q + 1) * Beat
  <2>6. top = SecLen - r + Beat
    BY <2>2, <2>5
  <2> HIDE DEF top
  <2>7. Around(sec) = SecAddr .. SecAddr + top - 1
    BY <2>4 DEF top
  <2>8. top \in Int /\ last <= SecAddr + top - 1
    <3>1. top >= offs + Beat /\ top \in Int
      BY <2>2, <2>3, <2>6, <1>2, <1>3
    <3> QED
      BY <3>1, <1>2, <1>3
  <2> HIDE DEF last
  <2> QED
    BY <2>7, <2>8, <1>2, <1>5
<1>12. LoadTyped' /\ Listed' /\ Stages' /\ There' /\ NothingElse'
  BY <1>1, <1>5, <1>7, <1>8, <1>9, <1>11, WriteKeeps
<1>13. Filled'
  <2>1. Tidy' <=> Tidy
    BY <1>1, SameFile
  <2>2. SecLen' = SecLen
    BY <1>1 DEF SecLen
  <2>3. offs' <= SecLen + Beat
    BY <1>2, <1>3, <1>4
  <2>4. offs' % Beat = 0
    <3>1. Beat % Beat = 0
      <4>1. (Beat * 1) % Beat = 0
        BY <1>3, Multiple
      <4> QED
        BY <4>1, <1>3
    <3>2. offs \in Int /\ Beat \in Int
      BY <1>2, <1>3
    <3>3. (offs + Beat) % Beat = 0
      BY <3>1, <3>2, <1>3, <1>10, MultiplesAdd, Zenon
    <3> QED
      BY <3>3, <1>4
  <2> QED
    BY <2>1, <2>2, <2>3, <2>4, <1>1 DEF Filled
<1>14. Cuts'
  BY <1>1 DEF Cuts
<1> QED
  BY <1>12, <1>13, <1>14 DEF LoadInv

(* In every reachable state the loader's list is of the headers looked at, *)
(* and memory holds what the host has written of it.                       *)
THEOREM PreloadInvariant == LoadSpec => []LoadInv
<1>1. LoadInv /\ LoadNext => LoadInv'
  BY WaitForLlcKeeps, ReadElfKeeps, NextHeaderKeeps, HeadersDoneKeeps, NextSectionKeeps,
     WriteBurstKeeps, WriteDoubleKeeps, SectionDoneKeeps, LaunchKeeps DEF LoadNext
<1>2. LoadInv /\ UNCHANGED loadVars => LoadInv'
  <2> SUFFICES ASSUME LoadInv, UNCHANGED loadVars PROVE LoadInv'
    OBVIOUS
  <2>1. /\ LoadTyped /\ Listed /\ Stages /\ Filled /\ Cuts /\ There /\ NothingElse
        /\ phase' = phase /\ via' = via /\ file' = file /\ header' = header /\ entry' = entry
        /\ sections' = sections /\ index' = index /\ bf' = bf /\ offs' = offs
        /\ launched' = launched /\ ram' = ram
    BY DEF LoadInv, loadVars, loader
  <2>2. LoadTyped' /\ Stages'
    BY <2>1 DEF LoadTyped, Stages
  <2>3. Listed'
    BY <2>1 DEF Listed
  <2>4. Filled' /\ Cuts'
    <3>1. Tidy' <=> Tidy
      BY <2>1, SameFile
    <3>2. SecLen' = SecLen /\ SecAddr' = SecAddr /\ Cur' = Cur
      BY <2>1 DEF SecLen, SecAddr, Cur
    <3>3. Filled'
      BY <3>1, <3>2, <2>1 DEF Filled
    <3>4. Cuts'
      BY <3>2, <2>1 DEF Cuts
    <3> QED
      BY <3>3, <3>4
  <2>5. There'
    <3>1. \A n \in 1 .. Len(sections) : Done(n)' = Done(n)
      BY <2>1 DEF Done
    <3> QED
      BY <3>1, <2>1, ThereKept
  <2>6. NothingElse'
    BY <2>1, NothingKept
  <2> QED
    BY <2>2, <2>3, <2>4, <2>5, <2>6 DEF LoadInv
<1> QED
  BY <1>1, <1>2, LoadInitially, PTL DEF LoadSpec

(* From a file whose headers are whole the launched hart starts at the     *)
(* file's entry, and of a tidy one it finds every byte that the file holds *)
(* in memory but those lost between bursts, for files of any number of     *)
(* segments and every size of beats, bursts and pages of whole beats       *)
(* (elfloader.cpp:223-256, vip:326-351, 897-926).                          *)
THEOREM WholeImage == LoadSpec => []ImageLaunched
<1>1. LoadInv => ImageLaunched
  <2> SUFFICES ASSUME LoadInv, phase = "launched", file.defect # "phdrs"
               PROVE  /\ launched = file.entry
                      /\ Tidy => \A s \in Segs : Held(s) =>
                           \A a \in BytesOf(s) \ Lost(s) :
                             a - s.paddr < s.filesz => ram[a] = ByteOf(s, a - s.paddr)
    BY DEF ImageLaunched
  <2>1. LoadTyped /\ Listed /\ Stages /\ There
    BY DEF LoadInv
  <2>2. launched = entry /\ index = Len(sections)
    BY <2>1 DEF Stages
  <2>3. launched = file.entry /\ header = Len(file.segs)
    BY <2>1, <2>2 DEF Stages
  <2>4. ASSUME Tidy, NEW s \in Segs, Held(s), NEW a \in BytesOf(s) \ Lost(s)
        PROVE  ram[a] = Wanted(s, a)
    <3>1. PICK k \in DOMAIN file.segs : s = file.segs[k]
      BY <2>4 DEF Segs
    <3>2. Loadable(s) /\ k \in 1 .. header
      <4>1. Loadable(s)
        BY <3>1, <2>4, <2>1, TidyFits
      <4>2. DOMAIN file.segs = 1 .. Len(file.segs)
        BY <2>1 DEF LoadTyped
      <4> QED
        BY <4>1, <4>2, <3>1, <2>3
    <3>3. PICK n \in 1 .. Len(sections) : sections[n] = s
      BY <3>1, <3>2, <2>1 DEF Listed
    <3>4. n <= index /\ Done(n) = s.memsz
      BY <3>3, <2>1, <2>2 DEF Done, LoadTyped
    <3>5. s.paddr \in Nat /\ s.memsz \in Nat
      BY <3>3, <2>1, SectionIs
    <3>6. a - s.paddr < s.memsz
      BY <3>5, <2>4 DEF BytesOf
    <3> QED
      BY <3>3, <3>4, <3>6, <2>4, <2>1 DEF There
  <2> QED
    BY <2>3, <2>4 DEF Wanted
<1> QED
  BY <1>1, PreloadInvariant, PTL

(* The hosts change nothing but their sections and the rest of their first *)
(* and last beats; over JTAG, up to one more double word (vip:341).        *)
THEOREM OnlySections == LoadSpec => []NothingElse
<1>1. LoadInv => NothingElse
  BY DEF LoadInv
<1> QED
  BY <1>1, PreloadInvariant, PTL

(* Every burst carries something, stays in its page and is no longer than  *)
(* an unaligned longest one (vip:907-923).                                 *)
THEOREM BurstsInPages == LoadSpec => []BurstsFit
<1>1. LoadInv => BurstsFit
  <2> SUFFICES ASSUME LoadInv, phase = "write", via = "slink", offs < SecLen
               PROVE  /\ BurstFirst \div PageBytes = BurstLast \div PageBytes
                      /\ BurstBeats \in 1 .. BurstBytes \div Beat + 1
    BY DEF BurstsFit
  <2>1. Cur \in Nat
    BY Written
  <2>2. /\ BurstLen \in Nat \ {0} /\ BurstLen <= BurstBytes
        /\ BurstFirst \in Nat /\ BurstBeats \in Nat \ {0} /\ BurstLast \in Nat
        /\ BurstFirst <= Cur /\ Cur + BurstLen - 1 <= BurstLast
    BY BurstIs
  <2>3. Cur + BurstLen <= Cur - (Cur % PageBytes) + PageBytes
    BY BurstIs
  <2>4. BurstBeats * Beat <= (Cur % Beat) + BurstLen + Beat - 1
    BY BurstIs
  <2>5. /\ \A m \in Int : m % Beat = 0 /\ m <= Cur => m <= BurstFirst
        /\ \A m \in Int : m % Beat = 0 /\ Cur + BurstLen <= m => BurstLast < m
    BY BurstIs
  <2>6. Beat \in Nat \ {0} /\ PageBytes \in Nat \ {0} /\ BurstBytes \in Nat \ {0}
    BY Sized
  <2>7. BurstFirst \div PageBytes = BurstLast \div PageBytes
    <3> DEFINE rest == Cur % PageBytes
               low  == Cur - rest
               high == low + PageBytes
    <3>1. Cur \in Int
      BY <2>1
    <3>2. rest \in 0 .. PageBytes - 1 /\ low % PageBytes = 0
      BY <3>1, <2>6, Divided, FloorIs, Zenon
    <3>3. PageBytes % PageBytes = 0
      <4>1. (PageBytes * 1) % PageBytes = 0
        BY <2>6, Multiple
      <4> QED
        BY <4>1, <2>6
    <3>4. Cur + BurstLen <= high
      BY <2>3
    <3> HIDE DEF rest
    <3>5. low \in Int /\ PageBytes \in Int /\ low <= Cur /\ high \in Int
      BY <3>1, <3>2, <2>6
    <3> HIDE DEF low
    <3>6. high % PageBytes = 0
      BY <3>2, <3>3, <3>5, <2>6, MultiplesAdd, Zenon
    <3> HIDE DEF high
    <3>7. low % Beat = 0 /\ high % Beat = 0
      BY <3>2, <3>5, <3>6, Sized
    <3>8. low <= BurstFirst /\ BurstLast < high
      BY <3>4, <3>5, <3>7, <2>5, Zenon
    <3>9. low % PageBytes = 0 /\ high = low + PageBytes
      BY <3>2 DEF high
    <3>10. \A x \in Int : x >= low /\ x < high => low \div PageBytes = x \div PageBytes
      <4> SUFFICES ASSUME NEW x \in Int, x >= low, x < high PROVE low \div PageBytes = x \div PageBytes
        OBVIOUS
      <4>1. low - (low % PageBytes) + PageBytes = high
        BY <3>5, <3>9
      <4>2. low <= x
        BY <3>5
      <4> QED
        BY <4>1, <4>2, <3>5, <2>6, SameQuotient, Zenon
    <3>11. BurstFirst \in Int /\ BurstLast \in Int /\ BurstFirst >= low /\ BurstFirst < high /\ BurstLast >= low
      BY <3>5, <3>8, <2>1, <2>2
    <3> QED
      BY <3>8, <3>10, <3>11
  <2>8. BurstBeats \in 1 .. BurstBytes \div Beat + 1
    <3> DEFINE q == BurstBytes \div Beat
               r == Cur % Beat
               n == BurstBeats
    <3>1. BurstBytes = Beat * q /\ q \in Int
      <4>1. BurstBytes \in Int
        BY <2>6
      <4> QED
        BY <4>1, Sized, Divided, MultipleOf, Zenon
    <3>2. r \in 0 .. Beat - 1
      <4>1. Cur \in Int
        BY <2>1
      <4> QED
        BY <4>1, <2>6, Divided, Zenon
    <3>3. n * Beat <= r + BurstLen + Beat - 1 /\ n \in Nat \ {0}
      BY <2>2, <2>4
    <3> HIDE DEF q, r, n
    <3>4. ASSUME n >= q + 2 PROVE FALSE
      <4> DEFINE all == Beat * q
      <4>1. n * Beat >= (q + 2) * Beat
        BY <3>1, <3>3, <3>4, <2>6
      <4>2. (q + 2) * Beat = all + 2 * Beat /\ all \in Int
        BY <3>1, <2>6
      <4>3. BurstBytes = all
        BY <3>1
      <4> DEFINE got == n * Beat
      <4>4. got >= all + 2 * Beat /\ got <= r + BurstLen + Beat - 1 /\ got \in Int
        BY <4>1, <4>2, <3>3, <2>6
      <4> HIDE DEF all, got
      <4> QED
        BY <4>2, <4>3, <4>4, <3>2, <2>2, <2>6
    <3>5. n \in 1 .. q + 1
      BY <3>1, <3>3, <3>4
    <3> QED
      BY <3>5 DEF n, q
  <2> QED
    BY <2>7, <2>8
<1> QED
  BY <1>1, PreloadInvariant, PTL

----------------------------------------------------------------------------
(* The hand-over, for any number of harts and any set of entry points: its *)
(* invariant, what follows from it, and that the boot ROM implements the   *)
(* rendezvous.  One lemma per action shows that it keeps the invariant,    *)
(* one step per group of conjuncts it can disturb.                         *)

USE NumHartsAssumption, NonSmpAssumption, WordAssumption, EntryAssumption

(* Reset: every hart is before the barrier and no interrupt is raised.     *)
LEMMA InitInv == Init => HandoverInv
<1> SUFFICES ASSUME Init PROVE HandoverInv
  OBVIOUS
<1> USE DEF Init, Harts, PC, PausePC, ResumePC, AckedPC, LeftPC, InNextPC
<1>1. TypeOK /\ Roles
  BY DEF TypeOK, Roles, Entries
<1>2. BeforeWake /\ DuringWake /\ AfterWake
  BY DEF BeforeWake, DuringWake, AfterWake
<1>3. AckPending /\ ScanKnows /\ NoEarlyLeave /\ ScratchHolds /\ JumpTarget
  BY DEF AckPending, ScanKnows, NoEarlyLeave, ScratchHolds, JumpTarget
<1> QED
  BY <1>1, <1>2, <1>3 DEF HandoverInv

(* A hart past its wfi means that the calling hart has started smp_resume. *)
LEMMA HandoverStarted ==
  ASSUME HandoverInv, NEW h \in Harts, pc[h] \notin PausePC \union {"wait"}
  PROVE  pc[NonSmpHart] \in {"wake"} \union ResumePC
  BY DEF HandoverInv, TypeOK, BeforeWake, Harts, PC, PausePC, ResumePC

(* A hart of loop 3 that reads a clear interrupt register has found a hart *)
(* that has acknowledged, not one that is yet to be woken.                 *)
LEMMA ScanSeesAcked ==
  ASSUME HandoverInv, NEW h \in Harts, pc[h] = "scan", ~msip[idx[h]]
  PROVE  pc[idx[h]] \in AckedPC
<1> USE DEF HandoverInv, TypeOK, Harts
<1>1. pc[NonSmpHart] \in {"wake"} \union ResumePC
  BY HandoverStarted DEF PausePC
<1>2. CASE idx[h] = 0
  <2>1. pc[NonSmpHart] # "wake"
    <3> SUFFICES ASSUME pc[NonSmpHart] = "wake" PROVE FALSE
      OBVIOUS
    <3>1. h < idx[NonSmpHart]
      BY DEF DuringWake, PausePC
    <3>2. Woken(NonSmpHart)
      BY <3>1 DEF DuringWake
    <3> QED
      BY <1>2, <3>2 DEF Woken, AckedPC, InNextPC
  <2> QED
    BY <1>1, <1>2, <2>1 DEF AfterWake, Woken, ResumePC
<1>3. CASE idx[h] # 0
  <2>1. pc[NonSmpHart] \in AckedPC
    BY <1>3 DEF ScanKnows
  <2> QED
    BY <2>1 DEF AfterWake, Woken, ResumePC, AckedPC, InNextPC
<1> QED
  BY <1>2, <1>3

(* smp_pause moves a hart among the control points before the barrier. *)
LEMMA SmpPauseInv ==
  ASSUME HandoverInv, NEW h \in Harts, SmpPause(h)
  PROVE  HandoverInv'
<1> USE DEF HandoverInv, SmpPause, Goto, Harts, PC, PausePC, ResumePC, AckedPC, LeftPC, InNextPC
<1>1. TypeOK' /\ Roles'
  BY DEF TypeOK, Roles, ScratchHolds, Entries
<1>2. BeforeWake' /\ DuringWake' /\ AfterWake'
  BY DEF TypeOK, Roles, BeforeWake, DuringWake, AfterWake, Woken
<1>3. AckPending' /\ ScanKnows' /\ NoEarlyLeave'
  <2>1. AckPending'
    BY DEF TypeOK, AckPending
  <2>2. ScanKnows'
    BY DEF TypeOK, ScanKnows
  <2>3. NoEarlyLeave'
    BY DEF TypeOK, NoEarlyLeave
  <2> QED
    BY <2>1, <2>2, <2>3
<1>4. ScratchHolds' /\ JumpTarget'
  BY DEF TypeOK, Roles, BeforeWake, DuringWake, AfterWake, NoEarlyLeave, ScratchHolds, JumpTarget, Entries
<1> QED
  BY <1>1, <1>2, <1>3, <1>4

(* The call fixes arg; no other hart can have left its wfi. *)
LEMMA CallNextStageInv ==
  ASSUME HandoverInv, NEW h \in Harts, CallNextStage(h)
  PROVE  HandoverInv'
<1> USE DEF HandoverInv, CallNextStage, Goto, Harts, PC, PausePC, ResumePC, AckedPC, LeftPC, InNextPC
<1>1. TypeOK' /\ Roles'
  BY DEF TypeOK, Roles, ScratchHolds, Entries
<1>2. BeforeWake' /\ DuringWake' /\ AfterWake'
  BY DEF TypeOK, Roles, BeforeWake, DuringWake, AfterWake, Woken
<1>3. AckPending' /\ ScanKnows' /\ NoEarlyLeave'
  <2>1. AckPending'
    BY DEF TypeOK, AckPending
  <2>2. ScanKnows'
    BY DEF TypeOK, ScanKnows
  <2>3. NoEarlyLeave'
    BY DEF TypeOK, NoEarlyLeave
  <2> QED
    BY <2>1, <2>2, <2>3
<1>4. ScratchHolds'
  <2>1. h = NonSmpHart
    BY DEF TypeOK, Roles
  <2>2. pc'[NonSmpHart] = "scr4" /\ arg' # NoEntry
    BY <2>1, EntryAssumption DEF TypeOK, Entries
  <2> QED
    BY <2>2 DEF ScratchHolds
<1>5. JumpTarget'
  BY DEF TypeOK, Roles, BeforeWake, ScratchHolds, JumpTarget, Entries
<1> QED
  BY <1>1, <1>2, <1>3, <1>4, <1>5

(* main returns: the other harts sleep on. *)
LEMMA MainReturnsInv ==
  ASSUME HandoverInv, NEW h \in Harts, MainReturns(h)
  PROVE  HandoverInv'
<1> USE DEF HandoverInv, MainReturns, Goto, Harts, PC, PausePC, ResumePC, AckedPC, LeftPC, InNextPC
<1>1. TypeOK' /\ Roles'
  BY DEF TypeOK, Roles, ScratchHolds, Entries
<1>2. BeforeWake' /\ DuringWake' /\ AfterWake'
  BY DEF TypeOK, Roles, BeforeWake, DuringWake, AfterWake, Woken
<1>3. AckPending' /\ ScanKnows' /\ NoEarlyLeave'
  <2>1. AckPending'
    BY DEF TypeOK, AckPending
  <2>2. ScanKnows'
    BY DEF TypeOK, ScanKnows
  <2>3. NoEarlyLeave'
    BY DEF TypeOK, NoEarlyLeave
  <2> QED
    BY <2>1, <2>2, <2>3
<1>4. ScratchHolds' /\ JumpTarget'
  BY DEF TypeOK, Roles, BeforeWake, DuringWake, AfterWake, NoEarlyLeave, ScratchHolds, JumpTarget, Entries
<1> QED
  BY <1>1, <1>2, <1>3, <1>4

(* The first half of the entry point is in its register. *)
LEMMA WriteLoInv ==
  ASSUME HandoverInv, NEW h \in Harts, WriteLo(h)
  PROVE  HandoverInv'
<1> USE DEF HandoverInv, WriteLo, Goto, Harts, PC, PausePC, ResumePC, AckedPC, LeftPC, InNextPC
<1>1. TypeOK' /\ Roles'
  BY DEF TypeOK, Roles, ScratchHolds, Entries
<1>2. BeforeWake' /\ DuringWake' /\ AfterWake'
  BY DEF TypeOK, Roles, BeforeWake, DuringWake, AfterWake, Woken
<1>3. AckPending' /\ ScanKnows' /\ NoEarlyLeave'
  <2>1. AckPending'
    BY DEF TypeOK, AckPending
  <2>2. ScanKnows'
    BY DEF TypeOK, ScanKnows
  <2>3. NoEarlyLeave'
    BY DEF TypeOK, NoEarlyLeave
  <2> QED
    BY <2>1, <2>2, <2>3
<1>4. ScratchHolds' /\ JumpTarget'
  BY DEF TypeOK, Roles, BeforeWake, DuringWake, AfterWake, NoEarlyLeave, ScratchHolds, JumpTarget, Entries
<1> QED
  BY <1>1, <1>2, <1>3, <1>4

(* The second half is; the wake-up loop starts with no hart woken. *)
LEMMA WriteHiInv ==
  ASSUME HandoverInv, NEW h \in Harts, WriteHi(h)
  PROVE  HandoverInv'
<1> USE DEF HandoverInv, WriteHi, Goto, Harts, PC, PausePC, ResumePC, AckedPC, LeftPC, InNextPC
<1>1. TypeOK' /\ Roles'
  BY DEF TypeOK, Roles, ScratchHolds, Entries
<1>2. BeforeWake' /\ DuringWake' /\ AfterWake'
  BY DEF TypeOK, Roles, BeforeWake, DuringWake, AfterWake, Woken
<1>3. AckPending' /\ ScanKnows' /\ NoEarlyLeave'
  <2>1. AckPending'
    BY DEF TypeOK, AckPending
  <2>2. ScanKnows'
    BY DEF TypeOK, ScanKnows
  <2>3. NoEarlyLeave'
    BY DEF TypeOK, NoEarlyLeave
  <2> QED
    BY <2>1, <2>2, <2>3
<1>4. ScratchHolds' /\ JumpTarget'
  BY DEF TypeOK, Roles, BeforeWake, DuringWake, AfterWake, NoEarlyLeave, ScratchHolds, JumpTarget, Entries
<1> QED
  BY <1>1, <1>2, <1>3, <1>4

(* One more hart is woken; after the last one, all of them are. *)
LEMMA WakeInv ==
  ASSUME HandoverInv, NEW h \in Harts, Wake(h)
  PROVE  HandoverInv'
<1> USE DEF HandoverInv, Wake, Goto, Harts, PC, PausePC, ResumePC, AckedPC, LeftPC, InNextPC
<1>1. TypeOK' /\ Roles'
  BY DEF TypeOK, Roles, ScratchHolds, Entries
<1>2. BeforeWake'
  BY DEF TypeOK, Roles, BeforeWake, DuringWake, AfterWake
<1>3. DuringWake'
  BY DEF TypeOK, Roles, BeforeWake, DuringWake, AfterWake, Woken
<1>4. AfterWake'
  BY DEF TypeOK, Roles, BeforeWake, DuringWake, AfterWake, Woken
<1>5. AckPending'
  <2>1. h = NonSmpHart /\ idx[h] \in Harts
    BY DEF TypeOK, Roles
  <2>2. pc[idx[h]] \notin AckedPC
    <3>1. ~(idx[h] < idx[h])
      BY <2>1
    <3>2. pc[idx[h]] \in PausePC \union {"wait"}
      BY <2>1, <3>1 DEF DuringWake
    <3> QED
      BY <3>2
  <2>3. \A j \in Harts : pc[j] \notin InNextPC
    BY <2>1 DEF NoEarlyLeave
  <2>4. \A j \in Harts : (pc[j])' \in AckedPC => pc[j] \in AckedPC
    BY DEF TypeOK
  <2>5. \A j \in Harts : pc[j] \in AckedPC => ~(msip[j])'
    BY <2>1, <2>2, <2>3 DEF TypeOK, AckPending
  <2> QED
    BY <2>1, <2>4, <2>5 DEF TypeOK, AckPending
<1>6. ScanKnows'
  BY DEF TypeOK, Roles, BeforeWake, DuringWake, AfterWake, ScanKnows
<1>7. NoEarlyLeave'
  BY DEF TypeOK, Roles, NoEarlyLeave, BeforeWake, DuringWake, Woken
<1>8. ScratchHolds'
  BY DEF TypeOK, Roles, ScratchHolds
<1>9. JumpTarget'
  BY DEF TypeOK, JumpTarget
<1> QED
  BY <1>1, <1>2, <1>3, <1>4, <1>5, <1>6, <1>7, <1>8, <1>9

(* A hart leaves its wfi only with its interrupt set, so the wake-up loop has passed it. *)
LEMMA WfiInv ==
  ASSUME HandoverInv, NEW h \in Harts, Wfi(h)
  PROVE  HandoverInv'
<1> USE DEF HandoverInv, Wfi, Goto, Harts, PC, PausePC, ResumePC, AckedPC, LeftPC, InNextPC
<1>1. TypeOK' /\ Roles'
  BY DEF TypeOK, Roles, ScratchHolds, Entries
<1>2. BeforeWake' /\ DuringWake' /\ AfterWake'
  BY DEF TypeOK, Roles, BeforeWake, DuringWake, AfterWake, Woken
<1>3. AckPending' /\ ScanKnows' /\ NoEarlyLeave'
  <2>1. AckPending'
    BY DEF TypeOK, AckPending
  <2>2. ScanKnows'
    BY DEF TypeOK, ScanKnows
  <2>3. NoEarlyLeave'
    BY DEF TypeOK, NoEarlyLeave
  <2> QED
    BY <2>1, <2>2, <2>3
<1>4. ScratchHolds' /\ JumpTarget'
  BY DEF TypeOK, Roles, BeforeWake, DuringWake, AfterWake, NoEarlyLeave, ScratchHolds, JumpTarget, Entries
<1> QED
  BY <1>1, <1>2, <1>3, <1>4

(* Clearing the own interrupt moves a hart from woken to acknowledged. *)
LEMMA AckInv ==
  ASSUME HandoverInv, NEW h \in Harts, Ack(h)
  PROVE  HandoverInv'
<1> USE DEF HandoverInv, Ack, Goto, Harts, PC, PausePC, ResumePC, AckedPC, LeftPC, InNextPC
<1>a. pc[NonSmpHart] \in {"wake"} \union ResumePC
  BY HandoverStarted
<1>1. TypeOK' /\ Roles'
  BY <1>a DEF TypeOK, Roles, ScratchHolds, Entries
<1>2. BeforeWake' /\ DuringWake' /\ AfterWake'
  BY <1>a DEF TypeOK, Roles, BeforeWake, DuringWake, AfterWake, Woken
<1>3. AckPending'
  BY <1>a DEF TypeOK, Roles, AckPending
<1>4. ScanKnows'
  BY <1>a DEF TypeOK, Roles, ScanKnows
<1>5. NoEarlyLeave'
  BY <1>a DEF TypeOK, Roles, NoEarlyLeave
<1>6. ScratchHolds' /\ JumpTarget'
  BY <1>a DEF TypeOK, Roles, BeforeWake, DuringWake, AfterWake, NoEarlyLeave, ScratchHolds, JumpTarget, Entries
<1> QED
  BY <1>1, <1>2, <1>3, <1>4, <1>5, <1>6

(* The scan passes only harts that have acknowledged. *)
LEMMA ScanInv ==
  ASSUME HandoverInv, NEW h \in Harts, Scan(h)
  PROVE  HandoverInv'
<1> USE DEF HandoverInv, Scan, Goto, Harts, PC, PausePC, ResumePC, AckedPC, LeftPC, InNextPC
<1>a. pc[NonSmpHart] \in {"wake"} \union ResumePC
  BY HandoverStarted
<1>b. pc[idx[h]] \in AckedPC
  BY ScanSeesAcked
<1>1. TypeOK' /\ Roles'
  BY <1>a, <1>b DEF TypeOK, Roles, ScratchHolds, Entries
<1>2. BeforeWake' /\ DuringWake' /\ AfterWake'
  BY <1>a, <1>b DEF TypeOK, Roles, BeforeWake, DuringWake, AfterWake, Woken
<1>3. AckPending'
  BY DEF TypeOK, Roles, AckPending
<1>4. ScanKnows'
  BY <1>b DEF TypeOK, Roles, ScanKnows
<1>5. NoEarlyLeave'
  BY <1>b DEF TypeOK, Roles, NoEarlyLeave, ScanKnows
<1>6. ScratchHolds'
  BY <1>a, <1>b DEF TypeOK, Roles, ScratchHolds
<1>7. JumpTarget'
  BY DEF TypeOK, JumpTarget
<1> QED
  BY <1>1, <1>2, <1>3, <1>4, <1>5, <1>6, <1>7

(* The half read is the one written. *)
LEMMA LoadHiInv ==
  ASSUME HandoverInv, NEW h \in Harts, LoadHi(h)
  PROVE  HandoverInv'
<1> USE DEF HandoverInv, LoadHi, Goto, Harts, PC, PausePC, ResumePC, AckedPC, LeftPC, InNextPC
<1>a. pc[NonSmpHart] \in {"wake"} \union ResumePC
  BY HandoverStarted
<1>1. TypeOK' /\ Roles'
  BY <1>a DEF TypeOK, Roles, ScratchHolds, Entries
<1>2. BeforeWake' /\ DuringWake' /\ AfterWake'
  BY <1>a DEF TypeOK, Roles, BeforeWake, DuringWake, AfterWake, Woken
<1>3. AckPending' /\ ScanKnows' /\ NoEarlyLeave'
  <2>1. AckPending'
    BY DEF TypeOK, AckPending
  <2>2. ScanKnows'
    BY DEF TypeOK, ScanKnows
  <2>3. NoEarlyLeave'
    BY DEF TypeOK, NoEarlyLeave
  <2> QED
    BY <2>1, <2>2, <2>3
<1>4. ScratchHolds' /\ JumpTarget'
  BY <1>a DEF TypeOK, Roles, BeforeWake, DuringWake, AfterWake, NoEarlyLeave, ScratchHolds, JumpTarget, Entries
<1> QED
  BY <1>1, <1>2, <1>3, <1>4

(* Both halves are those written. *)
LEMMA LoadLoJumpInv ==
  ASSUME HandoverInv, NEW h \in Harts, LoadLoJump(h)
  PROVE  HandoverInv'
<1> USE DEF HandoverInv, LoadLoJump, Goto, Harts, PC, PausePC, ResumePC, AckedPC, LeftPC, InNextPC
<1>a. pc[NonSmpHart] \in {"wake"} \union ResumePC
  BY HandoverStarted
<1>1. TypeOK' /\ Roles'
  BY <1>a DEF TypeOK, Roles, ScratchHolds, Entries
<1>2. BeforeWake' /\ DuringWake' /\ AfterWake'
  BY <1>a DEF TypeOK, Roles, BeforeWake, DuringWake, AfterWake, Woken
<1>3. AckPending' /\ ScanKnows' /\ NoEarlyLeave'
  BY <1>a DEF TypeOK, Roles, BeforeWake, DuringWake, AfterWake, Woken, AckPending, ScanKnows, NoEarlyLeave
<1>4. ScratchHolds' /\ JumpTarget'
  BY <1>a DEF TypeOK, Roles, BeforeWake, DuringWake, AfterWake, NoEarlyLeave, ScratchHolds, JumpTarget, Entries
<1> QED
  BY <1>1, <1>2, <1>3, <1>4

(* The next stage runs only past the barrier, where every hart has already *)
(* acknowledged: its interrupts disturb nothing the boot ROM relies on.    *)
LEMMA StageStepInv ==
  ASSUME HandoverInv, NEW h \in Harts, StageStep(h)
  PROVE  HandoverInv'
<1> USE DEF HandoverInv, Goto, Harts, PC, PausePC, ResumePC, AckedPC, LeftPC, InNextPC
<1>1. pc[h] = "next"
  BY DEF StageStep, StageReturns, TakeIpi, SendIpi
<1>2. \A j \in Harts : pc[j] \in AckedPC
  BY <1>1 DEF NoEarlyLeave
<1>3. CASE StageReturns(h)
  BY <1>2, <1>3 DEF StageReturns, TypeOK, Roles, BeforeWake, DuringWake, AfterWake,
    Woken, AckPending, ScanKnows, NoEarlyLeave, ScratchHolds, JumpTarget
<1>4. CASE TakeIpi(h) \/ \E other \in Harts : SendIpi(h, other)
  <2>1. /\ msip' \in [Harts -> BOOLEAN]
        /\ UNCHANGED <<pc, idx, scratch, arg, hiReg, entered>>
    BY <1>4 DEF TakeIpi, SendIpi, TypeOK
  <2>2. TypeOK' /\ Roles' /\ ScanKnows' /\ NoEarlyLeave' /\ ScratchHolds' /\ JumpTarget'
    BY <2>1 DEF TypeOK, Roles, ScanKnows, NoEarlyLeave, ScratchHolds, JumpTarget
  <2>3. BeforeWake' /\ DuringWake' /\ AfterWake' /\ AckPending'
    BY <1>1, <1>2, <2>1 DEF BeforeWake, DuringWake, AfterWake, Woken, AckPending
  <2> QED
    BY <2>2, <2>3
<1> QED
  BY <1>3, <1>4 DEF StageStep

(* The handover invariant holds in every state of the boot ROM, its        *)
(* smp_pause and smp_resume interleaved in any order on all harts.         *)
THEOREM HandoverInvariant == Spec => []HandoverInv
<1>1. Init => HandoverInv
  BY InitInv
<1>2. HandoverInv /\ [Next]_vars => HandoverInv'
  <2> SUFFICES ASSUME HandoverInv, [Next]_vars PROVE HandoverInv'
    OBVIOUS
  <2>1. ASSUME NEW h \in Harts, RomStep(h) PROVE HandoverInv'
    BY <2>1, SmpPauseInv, CallNextStageInv, MainReturnsInv, WriteLoInv, WriteHiInv,
      WakeInv, WfiInv, AckInv, ScanInv, LoadHiInv, LoadLoJumpInv DEF RomStep
  <2>2. CASE UNCHANGED vars
    BY <2>2 DEF vars, HandoverInv, TypeOK, Roles, BeforeWake, DuringWake, AfterWake,
      Woken, AckPending, ScanKnows, NoEarlyLeave, ScratchHolds, JumpTarget
  <2> QED
    BY <2>1, <2>2, StageStepInv DEF Next
<1> QED
  BY <1>1, <1>2, PTL DEF Spec

(* Every hart stays at a control point of the code, and the loop indices   *)
(* of smp_resume stay within the harts that exist.                         *)
THEOREM TypeCorrect == Spec => []TypeOK
<1>1. HandoverInv => TypeOK
  BY DEF HandoverInv
<1> QED
  BY <1>1, HandoverInvariant, PTL

(* No hart leaves loop 3 of smp_resume before all have been woken and have *)
(* cleared their interrupts.                                               *)
THEOREM Barrier == Spec => []NoEarlyLeave
<1>1. HandoverInv => NoEarlyLeave
  BY DEF HandoverInv
<1> QED
  BY <1>1, HandoverInvariant, PTL

(* Every hart jumps to the address boot_next_stage was called with.        *)
THEOREM EntryAgreement == Spec => []SameEntry
<1>1. HandoverInv => SameEntry
  BY DEF HandoverInv, JumpTarget, SameEntry
<1> QED
  BY <1>1, HandoverInvariant, PTL

(* No wake-up interrupt of smp_resume is left over for the next stage.     *)
THEOREM CleanHandover == Spec => []NoStaleWakeup
<1>1. HandoverInv => NoStaleWakeup
  BY DEF HandoverInv, TypeOK, AckPending, NoEarlyLeave, NoStaleWakeup
<1> QED
  BY <1>1, HandoverInvariant, PTL

(* A step that is neither the call, an acknowledgement nor a jump is a     *)
(* stutter of the rendezvous.                                              *)
THEOREM ImplementsRendezvous == Spec => RendezvousSpec
<1> USE DEF Rendezvous!Init, Rendezvous!Next, Rendezvous!Choose, Rendezvous!Arrive,
  Rendezvous!Leave, Rendezvous!rvars
<1>1. Init => Rendezvous!Init
  BY DEF Init, AckedPC, InNextPC
<1>2. HandoverInv /\ [Next]_vars => [Rendezvous!Next]_(Rendezvous!rvars)
  <2> SUFFICES ASSUME HandoverInv, [Next]_vars
               PROVE  [Rendezvous!Next]_(Rendezvous!rvars)
    OBVIOUS
  <2> USE DEF Goto, HandoverInv, TypeOK, PC, PausePC, ResumePC, AckedPC, InNextPC
  <2>1. ASSUME NEW h \in Harts, RomStep(h)
        PROVE  [Rendezvous!Next]_(Rendezvous!rvars)
    <3>1. CASE CallNextStage(h)
      <4>1. arg = NoEntry
        BY <3>1 DEF CallNextStage, Roles, ScratchHolds
      <4> QED
        BY <3>1, <4>1 DEF CallNextStage
    <3>2. CASE Ack(h)
      <4>1. arg # NoEntry
        BY <3>2, HandoverStarted DEF Ack, ScratchHolds
      <4>2. {j \in Harts : pc[j] \in AckedPC}' = {j \in Harts : pc[j] \in AckedPC} \union {h}
        BY <3>2 DEF Ack
      <4>3. Rendezvous!Arrive(h)
        BY <3>2, <4>1, <4>2 DEF Ack
      <4> QED
        BY <4>3
    <3>3. CASE LoadLoJump(h)
      <4>1. {j \in Harts : pc[j] \in AckedPC} = Harts
        BY <3>3 DEF LoadLoJump, NoEarlyLeave, LeftPC
      <4>2. {j \in Harts : pc[j] \in AckedPC}' = {j \in Harts : pc[j] \in AckedPC}
        BY <3>3 DEF LoadLoJump
      <4>3. entered[h] = NoEntry
        BY <3>3 DEF LoadLoJump, JumpTarget
      <4>4. scratch.lo = arg.lo /\ hiReg[h] = arg.hi /\ arg \in Entries
        BY <3>3, HandoverStarted DEF LoadLoJump, ScratchHolds, JumpTarget
      <4>5. entered' = [entered EXCEPT ![h] = arg]
        BY <3>3, <4>4 DEF LoadLoJump, Entries
      <4>6. Rendezvous!Leave(h)
        BY <3>3, <4>1, <4>2, <4>3, <4>5 DEF LoadLoJump
      <4> QED
        BY <4>6
    <3>4. CASE \/ SmpPause(h) \/ MainReturns(h) \/ WriteLo(h) \/ WriteHi(h)
               \/ Wake(h) \/ Wfi(h) \/ Scan(h) \/ LoadHi(h)
      <4>1. {j \in Harts : pc[j] \in AckedPC}' = {j \in Harts : pc[j] \in AckedPC}
        BY <3>4 DEF SmpPause, MainReturns, WriteLo, WriteHi, Wake, Wfi, Scan, LoadHi
      <4>2. UNCHANGED <<arg, entered>>
        BY <3>4 DEF SmpPause, MainReturns, WriteLo, WriteHi, Wake, Wfi, Scan, LoadHi
      <4> QED
        BY <4>1, <4>2
    <3> QED
      BY <2>1, <3>1, <3>2, <3>3, <3>4 DEF RomStep
  <2>2. ASSUME NEW h \in Harts, StageStep(h)
        PROVE  UNCHANGED Rendezvous!rvars
    BY <2>2 DEF StageStep, StageReturns, TakeIpi, SendIpi
  <2>3. CASE UNCHANGED vars
    BY <2>3 DEF vars
  <2> QED
    BY <2>1, <2>2, <2>3 DEF Next
<1> QED
  BY <1>1, <1>2, HandoverInvariant, PTL DEF Spec, RendezvousSpec, Rendezvous!Spec

----------------------------------------------------------------------------
(* The runtime, for every length of .bss, any number of reads through the  *)
(* ROM's driver and of traps, and programs linked with or without a stack  *)
(* and a global pointer of their own.                                      *)
(*                                                                         *)
(* None of the properties is inductive: what _exit restores is decided     *)
(* when the context is saved, what a trap restores when it is taken, and   *)
(* what a read restores when it begins.  Each part of the invariant says   *)
(* what is kept in between.                                                *)

Pcs == {"start", "parked", "save", "bss", "main", "calling", "driver", "handler", "restore", "exit", "caller"}

Stacks == [of : {"rom", "own"}, used : Int]
Regs   == [sp   : Stacks,
           gp   : {"rom", "own"},
           ra   : {"rom", "_exit", "main", "wrap", "handler"},
           temp : {"any", "driver", "main", "handler"},
           kept : {"rom"}]

Typed ==
  /\ at \in Pcs /\ link \in [sp : BOOLEAN, gp : BOOLEAN] /\ len \in Nat
  /\ regs \in Regs /\ old \in Stacks /\ context \in Regs /\ frame \in Regs
  /\ cut \in [pc : Pcs \union {"none"}, regs : Regs]

(* The global pointer of the program.                                      *)
Own == IF link.gp THEN "own" ELSE "rom"

(* From the start to the return, the caller's context is in registers or   *)
(* saved.                                                                  *)
ContextKept ==
  /\ regs.kept = Entry.kept
  /\ at = "start" => regs = Entry
  /\ at = "save"  => old = Entry.sp /\ regs.ra = Entry.ra
  /\ at \in {"bss", "main", "calling", "driver", "handler", "restore", "exit"} =>
       context.sp = Entry.sp /\ context.ra = Entry.ra /\ context.gp = Own
  /\ at = "caller" =>
       regs.sp = Entry.sp /\ regs.ra = Entry.ra /\ regs.gp = Own

(* What a function at p finds in gp, and what the wrapper of reads holds   *)
(* back.                                                                   *)
GpAt(p, gp) ==
  /\ p \in {"save", "bss", "main", "exit"} => gp = Own
  /\ p \in {"calling", "driver"} => gp = "rom" /\ ownGp = Own

Globals == GpAt(at, regs.gp)

(* A trap's frame holds the registers of what was cut off.                 *)
TrapKept ==
  at \in {"handler", "restore"} =>
    /\ cut.pc \in {"main", "calling", "driver"} /\ frame = cut.regs
    /\ regs.sp = [of |-> frame.sp.of, used |-> frame.sp.used + 128]
    /\ regs.gp = frame.gp /\ regs.kept = frame.kept
    /\ GpAt(cut.pc, frame.gp)

(* The clearing of .bss has reached the byte `to`.                         *)
ClearedTo(n) == bytes = [b \in 0 .. len + Margin - 1 |-> IF b < n THEN "zero" ELSE "other"]

Clearing ==
  /\ at \in {"start", "save"} => ClearedTo(0)
  /\ at = "bss" => left \in Nat /\ to = len - left /\ to \in Nat /\ ClearedTo(to)
  /\ at \in {"main", "calling", "driver", "handler", "restore", "exit", "caller"} => ClearedTo(len)

IInv == Typed /\ ContextKept /\ Globals /\ TrapKept /\ Clearing

----------------------------------------------------------------------------
LEMMA InitIInv == CrtInit => IInv
<1> SUFFICES ASSUME CrtInit PROVE IInv
  OBVIOUS
<1>1. Entry \in Regs /\ Entry.sp \in Stacks /\ Entry.kept = "rom"
  BY DEF Entry, Regs, Stacks
<1>2. Typed
  BY <1>1, LinkAssumption, BssAssumption DEF CrtInit, Typed, Pcs
<1>3. ContextKept /\ Globals /\ TrapKept
  BY <1>1 DEF CrtInit, ContextKept, Globals, GpAt, TrapKept
<1>4. Clearing
  BY <1>2 DEF CrtInit, Clearing, ClearedTo, Typed, Margin
<1> QED
  BY <1>2, <1>3, <1>4 DEF IInv

(* Start and return.                                                       *)
LEMMA SetPointersIInv == IInv /\ SetPointers => IInv'
<1> SUFFICES ASSUME IInv, SetPointers PROVE IInv'
  OBVIOUS
<1> USE DEF IInv, Typed, SetPointers, Advance, start, bss
<1>1. Typed'
  <2>1. regs' \in Regs /\ old' \in Stacks
    <3>1. (IF link.sp THEN [of |-> "own", used |-> 0] ELSE regs.sp) \in Stacks
      BY DEF Regs, Stacks
    <3>2. (IF link.gp THEN "own" ELSE regs.gp) \in {"rom", "own"}
      BY DEF Regs
    <3> QED
      BY <3>1, <3>2 DEF Regs
  <2> QED
    BY <2>1 DEF Pcs
<1>2. regs = Entry /\ old' = Entry.sp /\ regs'.ra = Entry.ra /\ regs'.kept = Entry.kept
  BY DEF ContextKept, Regs
<1>3. at' = "save" => regs'.gp = Own'
  BY <1>2 DEF Own, Entry, Regs
<1>4. (ContextKept /\ Globals /\ TrapKept)'
  BY <1>2, <1>3 DEF ContextKept, Globals, GpAt, TrapKept, Own
<1>5. Clearing'
  BY DEF Clearing, ClearedTo
<1> QED
  BY <1>1, <1>4, <1>5

LEMMA SaveContextIInv == IInv /\ SaveContext => IInv'
<1> SUFFICES ASSUME IInv, SaveContext PROVE IInv'
  OBVIOUS
<1> USE DEF IInv, Typed, SaveContext, Advance, Push, start
<1>1. Typed'
  BY DEF Pcs, Regs, Stacks
<1>2. context' = [regs EXCEPT !.sp = Entry.sp] /\ regs.ra = Entry.ra /\ regs.gp = Own
  BY DEF ContextKept, Globals, GpAt
<1>3. context'.sp = Entry.sp /\ context'.ra = Entry.ra /\ context'.gp = Own /\ regs'.gp = Own /\ regs'.kept = regs.kept
  BY <1>2 DEF Regs
<1>4. (ContextKept /\ Globals /\ TrapKept)'
  BY <1>3 DEF ContextKept, Globals, GpAt, TrapKept, Own
<1>5. Clearing'
  BY DEF Clearing, ClearedTo
<1> QED
  BY <1>1, <1>4, <1>5

LEMMA CallMainIInv == IInv /\ CallMain => IInv'
<1> SUFFICES ASSUME IInv, CallMain PROVE IInv'
  OBVIOUS
<1> USE DEF IInv, Typed, CallMain, Advance, start, bss
<1>1. Typed'
  BY DEF Pcs, Regs
<1>2. regs'.gp = regs.gp /\ regs'.kept = regs.kept
  BY DEF Regs
<1>3. (ContextKept /\ Globals /\ TrapKept)'
  BY <1>2 DEF ContextKept, Globals, GpAt, TrapKept, Own
<1>4. Clearing'
  <2>1. to = len
    BY DEF Clearing
  <2> QED
    BY <2>1 DEF Clearing, ClearedTo
<1> QED
  BY <1>1, <1>3, <1>4

LEMMA ExitIInv == IInv /\ Exit => IInv'
<1> SUFFICES ASSUME IInv, Exit PROVE IInv'
  OBVIOUS
<1> USE DEF IInv, Typed, Exit, Advance, start, bss
<1>1. Typed'
  <2>1. regs' = [regs EXCEPT !.sp = context.sp, !.gp = context.gp, !.ra = context.ra]
    OBVIOUS
  <2>2. regs' = [sp |-> context.sp, gp |-> context.gp, ra |-> context.ra, temp |-> regs.temp, kept |-> regs.kept]
    BY <2>1 DEF Regs
  <2>3. regs' \in Regs
    BY <2>2 DEF Regs
  <2> QED
    BY <2>3 DEF Pcs
<1>2. regs'.gp = Own /\ regs'.kept = regs.kept /\ regs'.sp = Entry.sp /\ regs'.ra = Entry.ra
  BY DEF Regs, ContextKept
<1>3. (ContextKept /\ Globals /\ TrapKept)'
  BY <1>2 DEF ContextKept, Globals, GpAt, TrapKept, Own
<1>4. Clearing'
  BY DEF Clearing, ClearedTo
<1> QED
  BY <1>1, <1>3, <1>4

----------------------------------------------------------------------------
(* One stride of the clearing loop: it never passes the end of .bss.       *)
LEMMA ZeroBssIInv == IInv /\ ZeroBss => IInv'
<1> SUFFICES ASSUME IInv, ZeroBss PROVE IInv'
  OBVIOUS
<1> USE DEF IInv, ZeroBss, start
<1>1. Typed'
  BY DEF Typed
<1>2. (ContextKept /\ Globals /\ TrapKept)'
  BY DEF ContextKept, Globals, GpAt, TrapKept, Own
<1>3. left' \in Nat /\ to' = len - left' /\ to' \in Nat
  BY DEF Clearing, Typed, Stride
<1>4. ClearedTo(to)'
  <2>1. bytes = [b \in 0 .. len + Margin - 1 |-> IF b < to THEN "zero" ELSE "other"] /\ to \in Nat
    BY DEF Clearing, ClearedTo
  <2>2. bytes' = [b \in 0 .. len + Margin - 1 |->
                    IF b \in to .. to + Stride - 1 THEN "zero" ELSE bytes[b]]
    BY <2>1
  <2>3. \A b \in 0 .. len + Margin - 1 :
          (IF b \in to .. to + Stride - 1 THEN "zero" ELSE bytes[b])
            = IF b < to' THEN "zero" ELSE "other"
    BY <2>1 DEF Stride, Typed, Margin
  <2>4. bytes' = [b \in 0 .. len + Margin - 1 |-> IF b < to' THEN "zero" ELSE "other"]
    BY <2>2, <2>3, Zenon
  <2> QED
    BY <2>4 DEF ClearedTo
<1>5. Clearing'
  BY <1>3, <1>4 DEF Clearing, ClearedTo
<1> QED
  BY <1>1, <1>2, <1>5
----------------------------------------------------------------------------
(* Reads through the ROM's driver, and the return of main.                 *)
LEMMA ReadsIInv == IInv /\ (SwitchGp \/ EnterDriver \/ LeaveDriver) => IInv'
<1> SUFFICES ASSUME IInv, SwitchGp \/ EnterDriver \/ LeaveDriver PROVE IInv'
  OBVIOUS
<1> USE DEF IInv, SwitchGp, EnterDriver, LeaveDriver, Advance, start, bss
<1>1. ownGp' = Own /\ Own \in {"rom", "own"}
  BY DEF Globals, GpAt, Own
<1>2. regs' \in Regs /\ regs'.kept = regs.kept /\ regs'.gp = IF at \in {"main", "calling"} THEN "rom" ELSE Own
  <2>1. CASE SwitchGp \/ EnterDriver
    BY <2>1 DEF Typed, Regs, Globals, GpAt
  <2>2. CASE LeaveDriver
    <3>1. ownGp \in {"rom", "own"} /\ ownGp = Own /\ at = "driver"
      BY <1>1, <2>2 DEF Globals, GpAt
    <3>2. regs' = [regs EXCEPT !.gp = ownGp, !.temp = "driver"] /\ regs \in Regs
      BY <2>2 DEF Typed
    <3> QED
      BY <3>1, <3>2 DEF Regs
  <2> QED
    BY <2>1, <2>2
<1>3. Typed'
  BY <1>2 DEF Typed, Pcs
<1>4. (ContextKept /\ Globals /\ TrapKept)'
  BY <1>1, <1>2 DEF ContextKept, Globals, GpAt, TrapKept, Own
<1>5. Clearing'
  BY DEF Clearing, ClearedTo
<1> QED
  BY <1>3, <1>4, <1>5

LEMMA MainEndsIInv == IInv /\ MainEnds => IInv'
<1> SUFFICES ASSUME IInv, MainEnds PROVE IInv'
  OBVIOUS
<1> USE DEF IInv, MainEnds, Advance, start, bss
<1>1. regs' \in Regs /\ regs'.kept = regs.kept /\ regs'.gp = regs.gp
  BY DEF Typed, Regs
<1>2. Typed'
  BY <1>1 DEF Typed, Pcs
<1>3. (ContextKept /\ Globals /\ TrapKept)'
  BY <1>1 DEF ContextKept, Globals, GpAt, TrapKept, Own
<1>4. Clearing'
  BY DEF Clearing, ClearedTo
<1> QED
  BY <1>2, <1>3, <1>4

----------------------------------------------------------------------------
(* Traps.                                                                  *)
LEMMA TrapIInv == IInv /\ Trap => IInv'
<1> SUFFICES ASSUME IInv, Trap PROVE IInv'
  OBVIOUS
<1> USE DEF IInv, Trap, start, bss
<1>1. Push(128) = [of |-> regs.sp.of, used |-> regs.sp.used + 128] /\ Push(128) \in Stacks
  BY DEF Push, Typed, Regs, Stacks
<1>2. /\ regs' \in Regs /\ regs'.kept = regs.kept /\ regs'.gp = regs.gp
      /\ regs'.sp = [of |-> regs.sp.of, used |-> regs.sp.used + 128]
  BY <1>1 DEF Typed, Regs
<1>3. cut'.pc = at /\ cut'.regs = regs /\ cut' \in [pc : Pcs \union {"none"}, regs : Regs]
  BY DEF Typed
<1>4. Typed'
  BY <1>2, <1>3 DEF Typed, Pcs
<1>5. (ContextKept /\ Globals)'
  BY <1>2 DEF ContextKept, Globals, GpAt, Own
<1>6. TrapKept'
  BY <1>2, <1>3 DEF TrapKept, Globals, GpAt, Own
<1>7. Clearing'
  BY DEF Clearing, ClearedTo
<1> QED
  BY <1>4, <1>5, <1>6, <1>7

LEMMA HandlerIInv == IInv /\ (HandlerSpins \/ HandlerReturns) => IInv'
<1> SUFFICES ASSUME IInv, HandlerSpins \/ HandlerReturns PROVE IInv'
  OBVIOUS
<1>1. regs' \in Regs /\ regs'.kept = regs.kept /\ regs'.gp = regs.gp /\ regs'.sp = regs.sp
  <2>1. regs \in Regs
    BY DEF IInv, Typed
  <2>2. CASE HandlerSpins
    BY <2>1, <2>2 DEF HandlerSpins
  <2>3. CASE HandlerReturns
    BY <2>1, <2>3 DEF HandlerReturns, Regs
  <2> QED
    BY <2>2, <2>3
<1> USE DEF IInv, HandlerSpins, HandlerReturns, Advance, start, bss
<1>2. Typed'
  BY <1>1 DEF Typed, Pcs
<1>3. (ContextKept /\ Globals /\ TrapKept)'
  BY <1>1 DEF ContextKept, Globals, GpAt, TrapKept, Own
<1>4. Clearing'
  BY DEF Clearing, ClearedTo
<1> QED
  BY <1>2, <1>3, <1>4

(* Every register comes back: the pointers and the callee-saved one were   *)
(* left alone, the others are in the frame.                                *)
LEMMA RestoreExact == IInv /\ Restore => regs' = cut.regs
<1> SUFFICES ASSUME IInv, Restore PROVE regs' = cut.regs
  OBVIOUS
<1> DEFINE f == cut.regs
<1>1. /\ f \in Regs /\ regs \in Regs /\ frame = f
      /\ regs.sp = [of |-> f.sp.of, used |-> f.sp.used + 128]
      /\ regs.gp = f.gp /\ regs.kept = f.kept
  BY DEF IInv, Typed, TrapKept, Restore
<1>2. Pop(128) = f.sp
  <2>1. f.sp \in Stacks /\ f.sp.used \in Int
    BY <1>1 DEF Regs, Stacks
  <2>2. Pop(128) = [of |-> f.sp.of, used |-> (f.sp.used + 128) - 128]
    BY <1>1 DEF Pop
  <2>3. Pop(128) = [of |-> f.sp.of, used |-> f.sp.used]
    BY <2>1, <2>2
  <2> QED
    BY <2>1, <2>3 DEF Stacks
<1>3. regs' = [regs EXCEPT !.sp = f.sp, !.temp = f.temp, !.ra = f.ra]
  BY <1>1, <1>2 DEF Restore
<1>4. regs' = [sp |-> f.sp, gp |-> f.gp, ra |-> f.ra, temp |-> f.temp, kept |-> f.kept]
  BY <1>1, <1>3 DEF Regs
<1> QED
  BY <1>1, <1>4 DEF Regs

LEMMA RestoreIInv == IInv /\ Restore => IInv'
<1> SUFFICES ASSUME IInv, Restore PROVE IInv'
  OBVIOUS
<1> USE DEF IInv, start, bss
<1>1. regs' = cut.regs
  BY RestoreExact
<1> USE DEF Restore
<1>2. /\ regs' \in Regs /\ regs'.kept = Entry.kept /\ at' \in {"main", "calling", "driver"}
      /\ GpAt(at', regs'.gp)
  BY <1>1 DEF Typed, TrapKept, ContextKept
<1>3. Typed'
  BY <1>2 DEF Typed, Pcs
<1>4. (ContextKept /\ Globals /\ TrapKept)'
  BY <1>2 DEF ContextKept, Globals, GpAt, TrapKept, Own
<1>5. Clearing'
  BY <1>2 DEF Clearing, ClearedTo
<1> QED
  BY <1>3, <1>4, <1>5

----------------------------------------------------------------------------
(* The invariant holds from the first instruction of crt0.S to the return. *)
THEOREM RuntimeInvariant == CrtSpec => []IInv
<1>1. IInv /\ [CrtNext]_crtVars => IInv'
  <2> SUFFICES ASSUME IInv, [CrtNext]_crtVars PROVE IInv'
    OBVIOUS
  <2>1. CASE CrtNext
    BY <2>1, SetPointersIInv, SaveContextIInv, ZeroBssIInv, CallMainIInv, ExitIInv,
      ReadsIInv, MainEndsIInv, TrapIInv, HandlerIInv, RestoreIInv DEF CrtNext
  <2>2. CASE UNCHANGED crtVars
    BY <2>2 DEF crtVars, start, bss, IInv, Typed, ContextKept, Globals, GpAt, TrapKept,
      Clearing, ClearedTo, Own
  <2> QED
    BY <2>1, <2>2
<1> QED
  BY <1>1, InitIInv, PTL DEF CrtSpec

(* crt0.S returns to its caller with stack, return address and callee-     *)
(* saved registers intact, and with the global pointer too if the program  *)
(* has none of its own.                                                    *)
THEOREM CallerBack == CrtSpec => []CallerRestored
<1>1. IInv => CallerRestored
  BY DEF IInv, ContextKept, CallerRestored, Own, Entry
<1> QED
  BY <1>1, RuntimeInvariant, PTL

(* .bss is zero to its last byte when main starts, whatever its length,    *)
(* and what lies behind it is untouched.                                   *)
THEOREM BssCleared == CrtSpec => []BssZero
<1>1. IInv => BssZero
  <2> SUFFICES ASSUME IInv, at \notin {"start", "save", "bss", "parked"}, NEW b \in DOMAIN bytes
               PROVE  bytes[b] = IF b < len THEN "zero" ELSE "other"
    BY DEF BssZero
  <2>1. at \in {"main", "calling", "driver", "handler", "restore", "exit", "caller"}
    BY DEF IInv, Typed, Pcs
  <2>2. bytes = [c \in 0 .. len + Margin - 1 |-> IF c < len THEN "zero" ELSE "other"]
    BY <2>1 DEF IInv, Clearing, ClearedTo
  <2> QED
    BY <2>2
<1> QED
  BY <1>1, RuntimeInvariant, PTL

(* The ROM's driver runs under the ROM's global pointer and the loader     *)
(* under its own, whatever number of reads and of traps lies before it.    *)
THEOREM GlobalsFound == CrtSpec => []GlobalsRight
<1>1. IInv => GlobalsRight
  BY DEF IInv, Globals, GpAt, TrapKept, GlobalsRight, Own
<1> QED
  BY <1>1, RuntimeInvariant, PTL

(* A trap that returns leaves every register as it was.                    *)
THEOREM TrapsUnseen == CrtSpec => TrapUnseen
<1>1. IInv /\ [CrtNext]_crtVars => [at = "restore" => regs' = cut.regs]_crtVars
  BY RestoreExact
    DEF CrtNext, SetPointers, SaveContext, ZeroBss, CallMain, Exit, SwitchGp, EnterDriver, LeaveDriver,
      MainEnds, Trap, HandlerSpins, HandlerReturns, Advance
<1> QED
  BY <1>1, RuntimeInvariant, PTL DEF CrtSpec, TrapUnseen
=============================================================================
