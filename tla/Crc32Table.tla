----------------------------- MODULE Crc32Table -----------------------------
(***************************************************************************)
(* The 256 literals of crc32_table (crc32.c) as they are written there,    *)
(* four to a line, each as the pair of its upper and lower 16 bits.        *)
(***************************************************************************)
EXTENDS Integers

Literals == <<
  <<\h0000, \h0000>>, <<\h04c1, \h1db7>>, <<\h0982, \h3b6e>>, <<\h0d43, \h26d9>>,
  <<\h1304, \h76dc>>, <<\h17c5, \h6b6b>>, <<\h1a86, \h4db2>>, <<\h1e47, \h5005>>,
  <<\h2608, \hedb8>>, <<\h22c9, \hf00f>>, <<\h2f8a, \hd6d6>>, <<\h2b4b, \hcb61>>,
  <<\h350c, \h9b64>>, <<\h31cd, \h86d3>>, <<\h3c8e, \ha00a>>, <<\h384f, \hbdbd>>,
  <<\h4c11, \hdb70>>, <<\h48d0, \hc6c7>>, <<\h4593, \he01e>>, <<\h4152, \hfda9>>,
  <<\h5f15, \hadac>>, <<\h5bd4, \hb01b>>, <<\h5697, \h96c2>>, <<\h5256, \h8b75>>,
  <<\h6a19, \h36c8>>, <<\h6ed8, \h2b7f>>, <<\h639b, \h0da6>>, <<\h675a, \h1011>>,
  <<\h791d, \h4014>>, <<\h7ddc, \h5da3>>, <<\h709f, \h7b7a>>, <<\h745e, \h66cd>>,
  <<\h9823, \hb6e0>>, <<\h9ce2, \hab57>>, <<\h91a1, \h8d8e>>, <<\h9560, \h9039>>,
  <<\h8b27, \hc03c>>, <<\h8fe6, \hdd8b>>, <<\h82a5, \hfb52>>, <<\h8664, \he6e5>>,
  <<\hbe2b, \h5b58>>, <<\hbaea, \h46ef>>, <<\hb7a9, \h6036>>, <<\hb368, \h7d81>>,
  <<\had2f, \h2d84>>, <<\ha9ee, \h3033>>, <<\ha4ad, \h16ea>>, <<\ha06c, \h0b5d>>,
  <<\hd432, \h6d90>>, <<\hd0f3, \h7027>>, <<\hddb0, \h56fe>>, <<\hd971, \h4b49>>,
  <<\hc736, \h1b4c>>, <<\hc3f7, \h06fb>>, <<\hceb4, \h2022>>, <<\hca75, \h3d95>>,
  <<\hf23a, \h8028>>, <<\hf6fb, \h9d9f>>, <<\hfbb8, \hbb46>>, <<\hff79, \ha6f1>>,
  <<\he13e, \hf6f4>>, <<\he5ff, \heb43>>, <<\he8bc, \hcd9a>>, <<\hec7d, \hd02d>>,
  <<\h3486, \h7077>>, <<\h3047, \h6dc0>>, <<\h3d04, \h4b19>>, <<\h39c5, \h56ae>>,
  <<\h2782, \h06ab>>, <<\h2343, \h1b1c>>, <<\h2e00, \h3dc5>>, <<\h2ac1, \h2072>>,
  <<\h128e, \h9dcf>>, <<\h164f, \h8078>>, <<\h1b0c, \ha6a1>>, <<\h1fcd, \hbb16>>,
  <<\h018a, \heb13>>, <<\h054b, \hf6a4>>, <<\h0808, \hd07d>>, <<\h0cc9, \hcdca>>,
  <<\h7897, \hab07>>, <<\h7c56, \hb6b0>>, <<\h7115, \h9069>>, <<\h75d4, \h8dde>>,
  <<\h6b93, \hdddb>>, <<\h6f52, \hc06c>>, <<\h6211, \he6b5>>, <<\h66d0, \hfb02>>,
  <<\h5e9f, \h46bf>>, <<\h5a5e, \h5b08>>, <<\h571d, \h7dd1>>, <<\h53dc, \h6066>>,
  <<\h4d9b, \h3063>>, <<\h495a, \h2dd4>>, <<\h4419, \h0b0d>>, <<\h40d8, \h16ba>>,
  <<\haca5, \hc697>>, <<\ha864, \hdb20>>, <<\ha527, \hfdf9>>, <<\ha1e6, \he04e>>,
  <<\hbfa1, \hb04b>>, <<\hbb60, \hadfc>>, <<\hb623, \h8b25>>, <<\hb2e2, \h9692>>,
  <<\h8aad, \h2b2f>>, <<\h8e6c, \h3698>>, <<\h832f, \h1041>>, <<\h87ee, \h0df6>>,
  <<\h99a9, \h5df3>>, <<\h9d68, \h4044>>, <<\h902b, \h669d>>, <<\h94ea, \h7b2a>>,
  <<\he0b4, \h1de7>>, <<\he475, \h0050>>, <<\he936, \h2689>>, <<\hedf7, \h3b3e>>,
  <<\hf3b0, \h6b3b>>, <<\hf771, \h768c>>, <<\hfa32, \h5055>>, <<\hfef3, \h4de2>>,
  <<\hc6bc, \hf05f>>, <<\hc27d, \hede8>>, <<\hcf3e, \hcb31>>, <<\hcbff, \hd686>>,
  <<\hd5b8, \h8683>>, <<\hd179, \h9b34>>, <<\hdc3a, \hbded>>, <<\hd8fb, \ha05a>>,
  <<\h690c, \he0ee>>, <<\h6dcd, \hfd59>>, <<\h608e, \hdb80>>, <<\h644f, \hc637>>,
  <<\h7a08, \h9632>>, <<\h7ec9, \h8b85>>, <<\h738a, \had5c>>, <<\h774b, \hb0eb>>,
  <<\h4f04, \h0d56>>, <<\h4bc5, \h10e1>>, <<\h4686, \h3638>>, <<\h4247, \h2b8f>>,
  <<\h5c00, \h7b8a>>, <<\h58c1, \h663d>>, <<\h5582, \h40e4>>, <<\h5143, \h5d53>>,
  <<\h251d, \h3b9e>>, <<\h21dc, \h2629>>, <<\h2c9f, \h00f0>>, <<\h285e, \h1d47>>,
  <<\h3619, \h4d42>>, <<\h32d8, \h50f5>>, <<\h3f9b, \h762c>>, <<\h3b5a, \h6b9b>>,
  <<\h0315, \hd626>>, <<\h07d4, \hcb91>>, <<\h0a97, \hed48>>, <<\h0e56, \hf0ff>>,
  <<\h1011, \ha0fa>>, <<\h14d0, \hbd4d>>, <<\h1993, \h9b94>>, <<\h1d52, \h8623>>,
  <<\hf12f, \h560e>>, <<\hf5ee, \h4bb9>>, <<\hf8ad, \h6d60>>, <<\hfc6c, \h70d7>>,
  <<\he22b, \h20d2>>, <<\he6ea, \h3d65>>, <<\heba9, \h1bbc>>, <<\hef68, \h060b>>,
  <<\hd727, \hbbb6>>, <<\hd3e6, \ha601>>, <<\hdea5, \h80d8>>, <<\hda64, \h9d6f>>,
  <<\hc423, \hcd6a>>, <<\hc0e2, \hd0dd>>, <<\hcda1, \hf604>>, <<\hc960, \hebb3>>,
  <<\hbd3e, \h8d7e>>, <<\hb9ff, \h90c9>>, <<\hb4bc, \hb610>>, <<\hb07d, \haba7>>,
  <<\hae3a, \hfba2>>, <<\haafb, \he615>>, <<\ha7b8, \hc0cc>>, <<\ha379, \hdd7b>>,
  <<\h9b36, \h60c6>>, <<\h9ff7, \h7d71>>, <<\h92b4, \h5ba8>>, <<\h9675, \h461f>>,
  <<\h8832, \h161a>>, <<\h8cf3, \h0bad>>, <<\h81b0, \h2d74>>, <<\h8571, \h30c3>>,
  <<\h5d8a, \h9099>>, <<\h594b, \h8d2e>>, <<\h5408, \habf7>>, <<\h50c9, \hb640>>,
  <<\h4e8e, \he645>>, <<\h4a4f, \hfbf2>>, <<\h470c, \hdd2b>>, <<\h43cd, \hc09c>>,
  <<\h7b82, \h7d21>>, <<\h7f43, \h6096>>, <<\h7200, \h464f>>, <<\h76c1, \h5bf8>>,
  <<\h6886, \h0bfd>>, <<\h6c47, \h164a>>, <<\h6104, \h3093>>, <<\h65c5, \h2d24>>,
  <<\h119b, \h4be9>>, <<\h155a, \h565e>>, <<\h1819, \h7087>>, <<\h1cd8, \h6d30>>,
  <<\h029f, \h3d35>>, <<\h065e, \h2082>>, <<\h0b1d, \h065b>>, <<\h0fdc, \h1bec>>,
  <<\h3793, \ha651>>, <<\h3352, \hbbe6>>, <<\h3e11, \h9d3f>>, <<\h3ad0, \h8088>>,
  <<\h2497, \hd08d>>, <<\h2056, \hcd3a>>, <<\h2d15, \hebe3>>, <<\h29d4, \hf654>>,
  <<\hc5a9, \h2679>>, <<\hc168, \h3bce>>, <<\hcc2b, \h1d17>>, <<\hc8ea, \h00a0>>,
  <<\hd6ad, \h50a5>>, <<\hd26c, \h4d12>>, <<\hdf2f, \h6bcb>>, <<\hdbee, \h767c>>,
  <<\he3a1, \hcbc1>>, <<\he760, \hd676>>, <<\hea23, \hf0af>>, <<\heee2, \hed18>>,
  <<\hf0a5, \hbd1d>>, <<\hf464, \ha0aa>>, <<\hf927, \h8673>>, <<\hfde6, \h9bc4>>,
  <<\h89b8, \hfd09>>, <<\h8d79, \he0be>>, <<\h803a, \hc667>>, <<\h84fb, \hdbd0>>,
  <<\h9abc, \h8bd5>>, <<\h9e7d, \h9662>>, <<\h933e, \hb0bb>>, <<\h97ff, \had0c>>,
  <<\hafb0, \h10b1>>, <<\hab71, \h0d06>>, <<\ha632, \h2bdf>>, <<\ha2f3, \h3668>>,
  <<\hbcb4, \h666d>>, <<\hb875, \h7bda>>, <<\hb536, \h5d03>>, <<\hb1f7, \h40b4>>
>>
=============================================================================
