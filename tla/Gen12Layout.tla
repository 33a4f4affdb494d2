---------------------------- MODULE Gen12Layout ----------------------------
(***************************************************************************)
(* The Gen12 video commands the HEVC backend builds, DWORD by DWORD.  The  *)
(* upstream headers declare each command as a packed struct of unions of   *)
(* bit fields; here a command is the sequence of the KINDS of its DWORDs,  *)
(* the bit fields of a DWORD that holds no address being abstracted to     *)
(* "data" or, when every one of them is reserved, to "reserved".  DWORD k  *)
(* of the source is element k + 1 of the sequence.                         *)
(*                                                                         *)
(* A constructor is the header it writes (engine, command number and       *)
(* encoded length) and the set of the DWORDs it leaves other than zero.    *)
(***************************************************************************)
EXTENDS Integers, Sequences, SequencesExt, FiniteSets

Times(n, s) == FlattenSeq([i \in 1..n |-> s])
Data(n)     == Times(n, <<"data">>)
Reserved(n) == Times(n, <<"reserved">>)

-----------------------------------------------------------------------------
(* Parts of commands: an address takes two DWORDs, its attributes one.     *)

MEMORYADDRESSATTRIBUTES_CMD       == <<"attributes">>
SPLITBASEADDRESS64BYTEALIGNED_CMD == <<"address", "upper">>
SPLITBASEADDRESS4KBYTEALIGNED_CMD == <<"address", "upper">>

VDENC_64B_Aligned_Lower_Address_CMD == <<"address">>
VDENC_64B_Aligned_Upper_Address_CMD == <<"upper">>
VDENC_Surface_Control_Bits_CMD      == <<"attributes">>

Picture == VDENC_64B_Aligned_Lower_Address_CMD
           \o VDENC_64B_Aligned_Upper_Address_CMD
           \o VDENC_Surface_Control_Bits_CMD

VDENC_Colocated_MV_Picture_CMD             == Picture
VDENC_Down_Scaled_Reference_Picture_CMD    == Picture
VDENC_Original_Uncompressed_Picture_CMD    == Picture
VDENC_Reference_Picture_CMD                == Picture
VDENC_Row_Store_Scratch_Buffer_Picture_CMD == Picture
VDENC_Statistics_Streamout_CMD             == Picture
VDENC_Streamin_Data_Picture_CMD            == Picture

\* Size and format, pitch and tiling, row offset of U, row offset of V.
VDENC_Surface_State_Fields_CMD == <<"data", "pitch", "u_offset", "v_offset">>

HEVC_VP9_RDOQ_LAMBDA_FIELDS_CMD == <<"data">>

-----------------------------------------------------------------------------
(* The commands of the codec engine.                                       *)

Bound64 == SPLITBASEADDRESS64BYTEALIGNED_CMD \o MEMORYADDRESSATTRIBUTES_CMD
Bound4k == SPLITBASEADDRESS4KBYTEALIGNED_CMD \o MEMORYADDRESSATTRIBUTES_CMD

HCP_PIPE_MODE_SELECT_CMD == <<"header">> \o Data(3) \o Reserved(2) \o Data(1)

HCP_SURFACE_STATE_CMD == <<"header", "pitch", "u_offset", "v_offset", "data">>

HCP_PIPE_BUF_ADDR_STATE_CMD ==
    <<"header">> \o Bound4k \o Times(10, Bound64) \o Reserved(3)
    \o Times(8, SPLITBASEADDRESS64BYTEALIGNED_CMD) \o MEMORYADDRESSATTRIBUTES_CMD
    \o Times(4, Bound64)
    \o Times(8, SPLITBASEADDRESS64BYTEALIGNED_CMD) \o MEMORYADDRESSATTRIBUTES_CMD
    \o Times(12, Bound64) \o SPLITBASEADDRESS64BYTEALIGNED_CMD

\* Two of its objects have an upper bound, which is an address without
\* attributes.
HCP_IND_OBJ_BASE_ADDR_STATE_CMD ==
    <<"header">> \o Bound4k \o SPLITBASEADDRESS4KBYTEALIGNED_CMD
    \o Times(2, Bound64) \o SPLITBASEADDRESS4KBYTEALIGNED_CMD
    \o Times(5, Bound64)

HCP_PIC_STATE_CMD     == <<"header">> \o Data(40)
HCP_REF_IDX_STATE_CMD == <<"header">> \o Data(1) \o Data(16)
HCP_SLICE_STATE_CMD   == <<"header">> \o Data(12)

\* Intra and inter, luma and chroma, for 8 bits and then for 12.
HEVC_VP9_RDOQ_STATE_CMD ==
    <<"header", "data">> \o Times(4, Times(32, HEVC_VP9_RDOQ_LAMBDA_FIELDS_CMD))
    \o Times(4, Times(6, HEVC_VP9_RDOQ_LAMBDA_FIELDS_CMD))

-----------------------------------------------------------------------------
(* The commands of the encoding engine.                                    *)

VDENC_CONTROL_STATE_CMD      == <<"header", "data">>
VD_PIPELINE_FLUSH_CMD        == <<"header", "data">>
VDENC_PIPE_MODE_SELECT_CMD   == <<"header">> \o Data(5)
VDENC_WEIGHTSOFFSETS_STATE_CMD == <<"header">> \o Data(2)
VDENC_REF_SURFACE_STATE_CMD  == <<"header", "data">> \o VDENC_Surface_State_Fields_CMD
VDENC_SRC_SURFACE_STATE_CMD  == <<"header", "reserved">> \o VDENC_Surface_State_Fields_CMD
VDENC_DS_REF_SURFACE_STATE_CMD ==
    <<"header", "reserved">> \o Times(2, VDENC_Surface_State_Fields_CMD)

\* The third picture is the one that Gen12 reserves.
VDENC_PIPE_BUF_ADDR_STATE_CMD ==
    <<"header">> \o Times(2, VDENC_Down_Scaled_Reference_Picture_CMD)
    \o Reserved(Len(VDENC_Down_Scaled_Reference_Picture_CMD))
    \o VDENC_Original_Uncompressed_Picture_CMD \o VDENC_Streamin_Data_Picture_CMD
    \o VDENC_Row_Store_Scratch_Buffer_Picture_CMD \o VDENC_Colocated_MV_Picture_CMD
    \o Times(4, VDENC_Reference_Picture_CMD) \o VDENC_Statistics_Streamout_CMD
    \o Times(2, VDENC_Down_Scaled_Reference_Picture_CMD)
    \o Times(2, VDENC_Colocated_MV_Picture_CMD)
    \o Times(2, VDENC_Down_Scaled_Reference_Picture_CMD)
    \o Times(2, VDENC_Colocated_MV_Picture_CMD) \o <<"data">>
    \o VDENC_Row_Store_Scratch_Buffer_Picture_CMD
    \o Times(2, VDENC_Statistics_Streamout_CMD)

VDENC_WALKER_STATE_CMD ==
    <<"header">> \o Data(9) \o Reserved(2) \o Data(1) \o Reserved(3) \o Data(1)
    \o Reserved(10)

\* Every field of the first mode and cost command is undocumented.
VDENC_CMD1_CMD == <<"header">> \o Reserved(30)

VDENC_CMD2_CMD ==
    [k \in 1..51 |->
        IF k = 1 THEN "header"
        ELSE IF (k - 1) \in (1..5) \union {7, 13, 16, 17, 21, 36, 37} \union (24..27)
             THEN "data" ELSE "reserved"]

-----------------------------------------------------------------------------
(* The constructors.  `engine` and `number` are the fields of the header   *)
(* that name the command, `length` is the DwordLength it encodes.          *)

Header(engine, number, length, preset) ==
    [engine |-> engine, number |-> number, length |-> length, preset |-> preset]

\* GetOpLength of the vendored generator: the length field leaves two out.
GetOpLength(dwSize) == dwSize - 2

HCP_PIPE_MODE_SELECT_INIT        == Header("hcp", 0,   5, {})
HCP_SURFACE_STATE_INIT           == Header("hcp", 1,   3, {})
HCP_PIPE_BUF_ADDR_STATE_INIT     == Header("hcp", 2, 119, {})
HCP_IND_OBJ_BASE_ADDR_STATE_INIT == Header("hcp", 3,  27, {})
HCP_PIC_STATE_INIT               == Header("hcp", 16, 39, {})
HCP_REF_IDX_STATE_INIT           == Header("hcp", 18, 16, {})
HCP_SLICE_STATE_INIT             == Header("hcp", 20, 11, {6})
HEVC_VP9_RDOQ_STATE_INIT         == Header("hcp", 8, 152, {})

VDENC_CONTROL_STATE_INIT         == Header("vdenc", 11, GetOpLength(2),  {})
VD_PIPELINE_FLUSH_INIT           == Header("extended", 0, GetOpLength(2), {})
VDENC_PIPE_MODE_SELECT_INIT      == Header("vdenc", 0,  GetOpLength(6),  {1, 2, 3})
VDENC_SRC_SURFACE_STATE_INIT     == Header("vdenc", 1,  GetOpLength(6),  {3})
VDENC_REF_SURFACE_STATE_INIT     == Header("vdenc", 2,  GetOpLength(6),  {3})
VDENC_DS_REF_SURFACE_STATE_INIT  == Header("vdenc", 3,  GetOpLength(10), {3, 7})
VDENC_PIPE_BUF_ADDR_STATE_INIT   == Header("vdenc", 4,  GetOpLength(71), {})
VDENC_WALKER_STATE_INIT          == Header("vdenc", 7,  GetOpLength(27), {14, 16})
VDENC_WEIGHTSOFFSETS_STATE_INIT  == Header("vdenc", 8,  GetOpLength(3),  {})
VDENC_CMD2_INIT                  == Header("vdenc", 9,  GetOpLength(51), {})
VDENC_CMD1_INIT                  == Header("vdenc", 10, GetOpLength(31), {})

-----------------------------------------------------------------------------
(* The catalogue by name.                                                  *)

Layout ==
    [HCP_PIPE_MODE_SELECT       |-> HCP_PIPE_MODE_SELECT_CMD,
     HCP_SURFACE_STATE          |-> HCP_SURFACE_STATE_CMD,
     HCP_PIPE_BUF_ADDR_STATE    |-> HCP_PIPE_BUF_ADDR_STATE_CMD,
     HCP_IND_OBJ_BASE_ADDR_STATE |-> HCP_IND_OBJ_BASE_ADDR_STATE_CMD,
     HCP_PIC_STATE              |-> HCP_PIC_STATE_CMD,
     HCP_REF_IDX_STATE          |-> HCP_REF_IDX_STATE_CMD,
     HCP_SLICE_STATE            |-> HCP_SLICE_STATE_CMD,
     HEVC_VP9_RDOQ_STATE        |-> HEVC_VP9_RDOQ_STATE_CMD,
     VDENC_CONTROL_STATE        |-> VDENC_CONTROL_STATE_CMD,
     VD_PIPELINE_FLUSH          |-> VD_PIPELINE_FLUSH_CMD,
     VDENC_PIPE_MODE_SELECT     |-> VDENC_PIPE_MODE_SELECT_CMD,
     VDENC_SRC_SURFACE_STATE    |-> VDENC_SRC_SURFACE_STATE_CMD,
     VDENC_REF_SURFACE_STATE    |-> VDENC_REF_SURFACE_STATE_CMD,
     VDENC_DS_REF_SURFACE_STATE |-> VDENC_DS_REF_SURFACE_STATE_CMD,
     VDENC_PIPE_BUF_ADDR_STATE  |-> VDENC_PIPE_BUF_ADDR_STATE_CMD,
     VDENC_WALKER_STATE         |-> VDENC_WALKER_STATE_CMD,
     VDENC_WEIGHTSOFFSETS_STATE |-> VDENC_WEIGHTSOFFSETS_STATE_CMD,
     VDENC_CMD1                 |-> VDENC_CMD1_CMD,
     VDENC_CMD2                 |-> VDENC_CMD2_CMD]

Constructor ==
    [HCP_PIPE_MODE_SELECT       |-> HCP_PIPE_MODE_SELECT_INIT,
     HCP_SURFACE_STATE          |-> HCP_SURFACE_STATE_INIT,
     HCP_PIPE_BUF_ADDR_STATE    |-> HCP_PIPE_BUF_ADDR_STATE_INIT,
     HCP_IND_OBJ_BASE_ADDR_STATE |-> HCP_IND_OBJ_BASE_ADDR_STATE_INIT,
     HCP_PIC_STATE              |-> HCP_PIC_STATE_INIT,
     HCP_REF_IDX_STATE          |-> HCP_REF_IDX_STATE_INIT,
     HCP_SLICE_STATE            |-> HCP_SLICE_STATE_INIT,
     HEVC_VP9_RDOQ_STATE        |-> HEVC_VP9_RDOQ_STATE_INIT,
     VDENC_CONTROL_STATE        |-> VDENC_CONTROL_STATE_INIT,
     VD_PIPELINE_FLUSH          |-> VD_PIPELINE_FLUSH_INIT,
     VDENC_PIPE_MODE_SELECT     |-> VDENC_PIPE_MODE_SELECT_INIT,
     VDENC_SRC_SURFACE_STATE    |-> VDENC_SRC_SURFACE_STATE_INIT,
     VDENC_REF_SURFACE_STATE    |-> VDENC_REF_SURFACE_STATE_INIT,
     VDENC_DS_REF_SURFACE_STATE |-> VDENC_DS_REF_SURFACE_STATE_INIT,
     VDENC_PIPE_BUF_ADDR_STATE  |-> VDENC_PIPE_BUF_ADDR_STATE_INIT,
     VDENC_WALKER_STATE         |-> VDENC_WALKER_STATE_INIT,
     VDENC_WEIGHTSOFFSETS_STATE |-> VDENC_WEIGHTSOFFSETS_STATE_INIT,
     VDENC_CMD1                 |-> VDENC_CMD1_INIT,
     VDENC_CMD2                 |-> VDENC_CMD2_INIT]

\* The DWORDs of a command that are of a kind, numbered as the source does.
DwordsOf(cmd, kind) == {k \in 0..(Len(Layout[cmd]) - 1) : Layout[cmd][k + 1] = kind}

\* Every constructor encodes the length of the struct it initialises.
ASSUME LengthsEncoded ==
    \A cmd \in DOMAIN Layout : Constructor[cmd].length = Len(Layout[cmd]) - 2

\* No two commands of an engine have the same number: the rewriter and the
\* preparation tell packets apart by the upper half of their header.
ASSUME HeadersDistinct ==
    \A c, d \in DOMAIN Layout :
        c # d => <<Constructor[c].engine, Constructor[c].number>>
                 # <<Constructor[d].engine, Constructor[d].number>>

\* No constructor presets an address: an address DWORD that no relocation
\* names is zero unless the code writes it.
ASSUME AddressesStartClear ==
    \A cmd \in DOMAIN Layout :
        Constructor[cmd].preset \cap (DwordsOf(cmd, "address") \union DwordsOf(cmd, "upper")) = {}
=============================================================================
