------------------------------ MODULE MCBuster ------------------------------
(***************************************************************************)
(* Buster on the configuration pages a machine can answer with.            *)
(***************************************************************************)
EXTENDS Buster, TLC

\* A page that is zero but for the given bytes.
PageOf(bytes) ==
  [o \in 0..(Page - 1) |-> IF o \in DOMAIN bytes THEN bytes[o] ELSE 0]

\* An enabled IOMMU block at o whose register area begins at page p.
Block(o, p) == (o + 4) :> 1 @@ (o + 6) :> p @@ (o + 7) :> 249

\* The machine of buster/dump: capabilities at 0x40 (the IOMMU block), 0x64,
\* 0x74 and 0xc8.  The byte at 0xa5 is in no dump; this value gives the three
\* further probes per bus, none enabled, that the dumps show.
Epyc == PageOf(52 :> 64 @@ 65 :> 100 @@ 101 :> 116 @@ 117 :> 200
                 @@ 165 :> 4 @@ Block(64, 80))

\* The IOMMU block is the whole list.
One == PageOf(52 :> 64 @@ Block(64, 40))

\* An IOMMU block that firmware left disabled, and one enabled without base.
Off == PageOf(52 :> 64 @@ 65 :> 84 @@ 71 :> 249)
Zero == PageOf(52 :> 64 @@ 65 :> 84 @@ 68 :> 1)

\* No list at all; vendor id 0x1022, i/o decoding on in the command register.
NoList == PageOf(0 :> 34 @@ 1 :> 16 @@ 4 :> 7)

\* The second walk meets an enabled block every 16 bytes, eight of them.
Many == PageOf([o \in {16 * k + 1 : k \in 9..15} |-> 16]
                 @@ [o \in {16 * k + 4 : k \in 9..16} |-> 1]
                 @@ [o \in {16 * k + 6 : k \in 9..16} |-> o \div 16]
                 @@ 52 :> 64 @@ 65 :> 80)

\* Three enabled blocks, the last of them looked at twice: two such buses take
\* every slot of seen_iommu_regs.
Three == PageOf(52 :> 64 @@ 65 :> 80 @@ 145 :> 16 @@ Block(64, 10)
                  @@ Block(144, 11) @@ Block(160, 12))

\* The second walk runs off the page as early as it can: from the highest head
\* in strides of 254 bytes.
Far == PageOf([o \in {256 + 254 * k : k \in 0..15} |-> 254] @@ 52 :> 255)

\* A list that points back at itself.
Cyclic == PageOf(52 :> 64 @@ 65 :> 80 @@ 81 :> 64)

\* Nothing answers: every read returns ones.
Absent == [o \in 0..(Page - 1) |-> 255]

MCConf == "epyc" :> Epyc @@ "one" :> One @@ "off" :> Off @@ "zero" :> Zero
            @@ "nolist" :> NoList @@ "many" :> Many @@ "three" :> Three
            @@ "far" :> Far @@ "cyclic" :> Cyclic @@ "absent" :> Absent

MCDevices == DOMAIN MCConf
MCEpycConf == "epyc" :> Epyc
MCOneConf == "one" :> One
MCManyConf == "many" :> Many @@ "off" :> Off @@ "one" :> One
MCAbsentConf == "epyc" :> Epyc @@ "absent" :> Absent
=============================================================================
