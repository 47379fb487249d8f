----------------------------- MODULE CaseTables -----------------------------
(* The case mappings of src/src/unicode.c and the fold orbits of             *)
(* src/src/string.c. The conditions of the code on a codepoint are rows      *)
(* <<first, last, step, difference>>, one set of rows for each of its        *)
(* branches; conditions that a branch makes unreachable have no row.         *)
EXTENDS Integers, Sequences

\* The codepoint c by the first row it is in, itself if there is none
By(rows, c) ==
    LET in == {r \in rows : c \in r[1]..r[2] /\ (c - r[1]) % r[3] = 0}
    IN  IF in = {} THEN c ELSE c + (CHOOSE r \in in : TRUE)[4]

Covered(rows) == UNION {{c \in r[1]..r[2] : (c - r[1]) % r[3] = 0} : r \in rows}

UpperLatin1 == {
    <<\h61, \h7A, 1, -32>>, <<\hB5, \hB5, 1, 743>>, <<\hE0, \hF6, 1, -32>>,
    <<\hF8, \hFE, 1, -32>>, <<\hFF, \hFF, 1, 121>>}

UpperLatin == {
    <<\h101, \h12F, 2, -1>>, <<\h131, \h131, 1, -232>>, <<\h133, \h137, 2, -1>>,
    <<\h13A, \h148, 2, -1>>, <<\h14B, \h177, 2, -1>>, <<\h17A, \h17E, 2, -1>>,
    <<\h17F, \h17F, 1, -300>>, <<\h180, \h180, 1, 195>>, <<\h183, \h185, 2, -1>>,
    <<\h188, \h188, 1, -1>>, <<\h18C, \h18C, 1, -1>>, <<\h192, \h192, 1, -1>>,
    <<\h195, \h195, 1, 97>>, <<\h199, \h199, 1, -1>>, <<\h19A, \h19A, 1, 163>>,
    <<\h19E, \h19E, 1, 130>>, <<\h1A1, \h1A5, 2, -1>>, <<\h1A8, \h1A8, 1, -1>>,
    <<\h1AD, \h1AD, 1, -1>>, <<\h1B0, \h1B0, 1, -1>>, <<\h1B4, \h1B6, 2, -1>>,
    <<\h1B9, \h1B9, 1, -1>>, <<\h1BD, \h1BD, 1, -1>>, <<\h1BF, \h1BF, 1, 56>>,
    <<\h1C5, \h1C5, 1, -1>>, <<\h1C6, \h1C6, 1, -2>>, <<\h1C8, \h1C8, 1, -1>>,
    <<\h1C9, \h1C9, 1, -2>>, <<\h1CB, \h1CB, 1, -1>>, <<\h1CC, \h1CC, 1, -2>>,
    <<\h1CE, \h1DC, 2, -1>>, <<\h1DD, \h1DD, 1, -79>>, <<\h1DF, \h1EF, 2, -1>>,
    <<\h1F2, \h1F2, 1, -1>>, <<\h1F3, \h1F3, 1, -2>>, <<\h1F5, \h1F5, 1, -1>>,
    <<\h1F9, \h21F, 2, -1>>, <<\h223, \h233, 2, -1>>, <<\h23C, \h23C, 1, -1>>,
    <<\h23F, \h240, 1, 10815>>, <<\h242, \h242, 1, -1>>, <<\h247, \h24F, 2, -1>>,
    <<\h250, \h250, 1, 10783>>, <<\h251, \h251, 1, 10780>>, <<\h252, \h252, 1, 10782>>,
    <<\h253, \h253, 1, -210>>, <<\h254, \h254, 1, -206>>, <<\h256, \h257, 1, -205>>,
    <<\h259, \h259, 1, -202>>, <<\h25B, \h25B, 1, -203>>, <<\h260, \h260, 1, -205>>,
    <<\h263, \h263, 1, -207>>, <<\h268, \h268, 1, -209>>, <<\h269, \h269, 1, -211>>,
    <<\h26B, \h26B, 1, 10743>>, <<\h26F, \h26F, 1, -211>>, <<\h271, \h271, 1, 10749>>,
    <<\h272, \h272, 1, -213>>, <<\h275, \h275, 1, -214>>, <<\h27D, \h27D, 1, 10727>>,
    <<\h280, \h280, 1, -218>>, <<\h283, \h283, 1, -218>>, <<\h288, \h288, 1, -218>>,
    <<\h289, \h289, 1, -69>>, <<\h28A, \h28B, 1, -217>>, <<\h28C, \h28C, 1, -71>>,
    <<\h292, \h292, 1, -219>>}

UpperGreek == {
    <<\h345, \h345, 1, 84>>, <<\h371, \h373, 2, -1>>, <<\h377, \h377, 1, -1>>,
    <<\h37B, \h37D, 1, 130>>, <<\h3AC, \h3AC, 1, -38>>, <<\h3AD, \h3AF, 1, -37>>,
    <<\h3B1, \h3C1, 1, -32>>, <<\h3C2, \h3C2, 1, -31>>, <<\h3C3, \h3CB, 1, -32>>,
    <<\h3CC, \h3CC, 1, -64>>, <<\h3CD, \h3CE, 1, -63>>, <<\h3D0, \h3D0, 1, -62>>,
    <<\h3D1, \h3D1, 1, -57>>, <<\h3D5, \h3D5, 1, -47>>, <<\h3D6, \h3D6, 1, -54>>,
    <<\h3D7, \h3D7, 1, -8>>, <<\h3D9, \h3EF, 2, -1>>, <<\h3F0, \h3F0, 1, -86>>,
    <<\h3F1, \h3F1, 1, -80>>, <<\h3F2, \h3F2, 1, 7>>, <<\h3F5, \h3F5, 1, -96>>,
    <<\h3F8, \h3F8, 1, -1>>, <<\h3FB, \h3FB, 1, -1>>}

UpperCyrillic == {
    <<\h430, \h44F, 1, -32>>, <<\h450, \h45F, 1, -80>>, <<\h461, \h481, 2, -1>>,
    <<\h48B, \h4BF, 2, -1>>, <<\h4C2, \h4CE, 2, -1>>, <<\h4CF, \h4CF, 1, -15>>,
    <<\h4D1, \h4FF, 2, -1>>}

UpperArmenian == {
    <<\h501, \h525, 2, -1>>, <<\h561, \h586, 1, -48>>}

UpperExtended == {
    <<\h1D79, \h1D79, 1, 35332>>, <<\h1D7D, \h1D7D, 1, 3814>>, <<\h1E01, \h1E95, 2, -1>>,
    <<\h1E9B, \h1E9B, 1, -59>>, <<\h1EA1, \h1EFF, 2, -1>>}

UpperGreekExtended == {
    <<\h1F00, \h1F07, 1, 8>>, <<\h1F10, \h1F15, 1, 8>>, <<\h1F20, \h1F27, 1, 8>>,
    <<\h1F30, \h1F37, 1, 8>>, <<\h1F40, \h1F45, 1, 8>>, <<\h1F51, \h1F57, 2, 8>>,
    <<\h1F60, \h1F67, 1, 8>>, <<\h1F70, \h1F71, 1, 74>>, <<\h1F72, \h1F75, 1, 86>>,
    <<\h1F76, \h1F77, 1, 100>>, <<\h1F78, \h1F79, 1, 128>>, <<\h1F7A, \h1F7B, 1, 112>>,
    <<\h1F7C, \h1F7D, 1, 126>>, <<\h1F80, \h1F87, 1, 8>>, <<\h1F90, \h1F97, 1, 8>>,
    <<\h1FA0, \h1FA7, 1, 8>>, <<\h1FB0, \h1FB1, 1, 8>>, <<\h1FB3, \h1FB3, 1, 9>>,
    <<\h1FBE, \h1FBE, 1, -7205>>, <<\h1FC3, \h1FC3, 1, 9>>, <<\h1FD0, \h1FD1, 1, 8>>,
    <<\h1FE0, \h1FE1, 1, 8>>, <<\h1FE5, \h1FE5, 1, 7>>, <<\h1FF3, \h1FF3, 1, 9>>}

UpperSymbols == {
    <<\h214E, \h214E, 1, -28>>, <<\h2170, \h217F, 1, -16>>, <<\h2184, \h2184, 1, -1>>,
    <<\h24D0, \h24E9, 1, -26>>, <<\h2C30, \h2C5E, 1, -48>>, <<\h2C61, \h2C61, 1, -1>>,
    <<\h2C65, \h2C65, 1, -10795>>, <<\h2C66, \h2C66, 1, -10792>>, <<\h2C68, \h2C6C, 2, -1>>,
    <<\h2C73, \h2C73, 1, -1>>, <<\h2C76, \h2C76, 1, -1>>, <<\h2C81, \h2CE3, 2, -1>>,
    <<\h2CEC, \h2CEE, 2, -1>>, <<\h2D00, \h2D25, 1, -7264>>}

UpperVai == {
    <<\hA641, \hA65F, 2, -1>>, <<\hA663, \hA66D, 2, -1>>, <<\hA681, \hA697, 2, -1>>,
    <<\hA723, \hA72F, 2, -1>>, <<\hA733, \hA76F, 2, -1>>, <<\hA77A, \hA77C, 2, -1>>,
    <<\hA77F, \hA787, 2, -1>>, <<\hA78C, \hA78C, 1, -1>>}

UpperOthers == {
    <<\hFF41, \hFF5A, 1, -32>>, <<\h10428, \h1044F, 1, -40>>, <<\h104D8, \h104FB, 1, -40>>,
    <<\h10597, \h105B9, 1, -39>>, <<\h105BB, \h105BC, 1, -39>>, <<\h10CC0, \h10CF2, 1, -64>>,
    <<\h118C0, \h118DF, 1, -32>>, <<\h16E60, \h16E7F, 1, -32>>, <<\h1E922, \h1E943, 1, -34>>}

RowsUpper(c) ==
    CASE c < \h100 -> UpperLatin1
      [] c < \h300 -> UpperLatin
      [] c < \h400 -> UpperGreek
      [] c < \h500 -> UpperCyrillic
      [] c < \h600 -> UpperArmenian
      [] c < \h1F00 -> UpperExtended
      [] c < \h2000 -> UpperGreekExtended
      [] c < \h3000 -> UpperSymbols
      [] c \in \hA000..\hAFFF -> UpperVai
      [] OTHER -> UpperOthers

gp_u32_to_upper(c) == By(RowsUpper(c), c)

LowerLatin1 == {
    <<\h41, \h5A, 1, 32>>, <<\hC0, \hD6, 1, 32>>, <<\hD8, \hDE, 1, 32>>}

LowerLatin == {
    <<\h100, \h12E, 2, 1>>, <<\h130, \h130, 1, -199>>, <<\h132, \h136, 2, 1>>,
    <<\h139, \h147, 2, 1>>, <<\h14A, \h176, 2, 1>>, <<\h178, \h178, 1, -121>>,
    <<\h179, \h17D, 2, 1>>, <<\h181, \h181, 1, 210>>, <<\h182, \h184, 2, 1>>,
    <<\h186, \h186, 1, 206>>, <<\h187, \h187, 1, 1>>, <<\h189, \h18A, 1, 205>>,
    <<\h18B, \h18B, 1, 1>>, <<\h18E, \h18E, 1, 79>>, <<\h18F, \h18F, 1, 202>>,
    <<\h190, \h190, 1, 203>>, <<\h191, \h191, 1, 1>>, <<\h193, \h193, 1, 205>>,
    <<\h194, \h194, 1, 207>>, <<\h196, \h196, 1, 211>>, <<\h197, \h197, 1, 209>>,
    <<\h198, \h198, 1, 1>>, <<\h19C, \h19C, 1, 211>>, <<\h19D, \h19D, 1, 213>>,
    <<\h19F, \h19F, 1, 214>>, <<\h1A0, \h1A4, 2, 1>>, <<\h1A6, \h1A6, 1, 218>>,
    <<\h1A7, \h1A7, 1, 1>>, <<\h1A9, \h1A9, 1, 218>>, <<\h1AC, \h1AC, 1, 1>>,
    <<\h1AE, \h1AE, 1, 218>>, <<\h1AF, \h1AF, 1, 1>>, <<\h1B1, \h1B2, 1, 217>>,
    <<\h1B3, \h1B5, 2, 1>>, <<\h1B7, \h1B7, 1, 219>>, <<\h1B8, \h1B8, 1, 1>>,
    <<\h1BC, \h1BC, 1, 1>>, <<\h1C4, \h1C4, 1, 2>>, <<\h1C5, \h1C5, 1, 1>>,
    <<\h1C7, \h1C7, 1, 2>>, <<\h1C8, \h1C8, 1, 1>>, <<\h1CA, \h1CA, 1, 2>>,
    <<\h1CB, \h1DB, 2, 1>>, <<\h1DE, \h1EE, 2, 1>>, <<\h1F1, \h1F1, 1, 2>>,
    <<\h1F2, \h1F4, 2, 1>>, <<\h1F6, \h1F6, 1, -97>>, <<\h1F7, \h1F7, 1, -56>>,
    <<\h1F8, \h21E, 2, 1>>, <<\h220, \h220, 1, -130>>, <<\h222, \h232, 2, 1>>,
    <<\h23A, \h23A, 1, 10795>>, <<\h23B, \h23B, 1, 1>>, <<\h23D, \h23D, 1, -163>>,
    <<\h23E, \h23E, 1, 10792>>, <<\h241, \h241, 1, 1>>, <<\h243, \h243, 1, -195>>,
    <<\h244, \h244, 1, 69>>, <<\h245, \h245, 1, 71>>, <<\h246, \h24E, 2, 1>>}

LowerGreek == {
    <<\h370, \h372, 2, 1>>, <<\h376, \h376, 1, 1>>, <<\h386, \h386, 1, 38>>,
    <<\h388, \h38A, 1, 37>>, <<\h38C, \h38C, 1, 64>>, <<\h38E, \h38F, 1, 63>>,
    <<\h391, \h3A1, 1, 32>>, <<\h3A3, \h3AB, 1, 32>>, <<\h3CF, \h3CF, 1, 8>>,
    <<\h3D8, \h3EE, 2, 1>>, <<\h3F4, \h3F4, 1, -60>>, <<\h3F7, \h3F7, 1, 1>>,
    <<\h3F9, \h3F9, 1, -7>>, <<\h3FA, \h3FA, 1, 1>>, <<\h3FD, \h3FF, 1, -130>>}

LowerCyrillic == {
    <<\h400, \h40F, 1, 80>>, <<\h410, \h42F, 1, 32>>, <<\h460, \h480, 2, 1>>,
    <<\h48A, \h4BE, 2, 1>>, <<\h4C0, \h4C0, 1, 15>>, <<\h4C1, \h4CD, 2, 1>>,
    <<\h4D0, \h4FE, 2, 1>>}

LowerExtended == {
    <<\h500, \h524, 2, 1>>, <<\h531, \h556, 1, 48>>, <<\h10A0, \h10C5, 1, 7264>>,
    <<\h1E00, \h1E94, 2, 1>>, <<\h1E9E, \h1E9E, 1, -7615>>, <<\h1EA0, \h1EFE, 2, 1>>}

LowerGreekExtended == {
    <<\h1F08, \h1F0F, 1, -8>>, <<\h1F18, \h1F1D, 1, -8>>, <<\h1F28, \h1F2F, 1, -8>>,
    <<\h1F38, \h1F3F, 1, -8>>, <<\h1F48, \h1F4D, 1, -8>>, <<\h1F59, \h1F5F, 2, -8>>,
    <<\h1F68, \h1F6F, 1, -8>>, <<\h1F88, \h1F8F, 1, -8>>, <<\h1F98, \h1F9F, 1, -8>>,
    <<\h1FA8, \h1FAF, 1, -8>>, <<\h1FB8, \h1FB9, 1, -8>>, <<\h1FBA, \h1FBB, 1, -74>>,
    <<\h1FBC, \h1FBC, 1, -9>>, <<\h1FC8, \h1FCB, 1, -86>>, <<\h1FCC, \h1FCC, 1, -9>>,
    <<\h1FD8, \h1FD9, 1, -8>>, <<\h1FDA, \h1FDB, 1, -100>>, <<\h1FE8, \h1FE9, 1, -8>>,
    <<\h1FEA, \h1FEB, 1, -112>>, <<\h1FEC, \h1FEC, 1, -7>>, <<\h1FF8, \h1FF9, 1, -128>>,
    <<\h1FFA, \h1FFB, 1, -126>>, <<\h1FFC, \h1FFC, 1, -9>>}

LowerSymbols == {
    <<\h2126, \h2126, 1, -7517>>, <<\h212A, \h212A, 1, -8383>>, <<\h212B, \h212B, 1, -8262>>,
    <<\h2132, \h2132, 1, 28>>, <<\h2160, \h216F, 1, 16>>, <<\h2183, \h2183, 1, 1>>,
    <<\h24B6, \h24CF, 1, 26>>}

LowerCoptic == {
    <<\h2C00, \h2C2E, 1, 48>>, <<\h2C60, \h2C60, 1, 1>>, <<\h2C62, \h2C62, 1, -10743>>,
    <<\h2C63, \h2C63, 1, -3814>>, <<\h2C64, \h2C64, 1, -10727>>, <<\h2C67, \h2C6B, 2, 1>>,
    <<\h2C6D, \h2C6D, 1, -10780>>, <<\h2C6E, \h2C6E, 1, -10749>>, <<\h2C6F, \h2C6F, 1, -10783>>,
    <<\h2C70, \h2C70, 1, -10782>>, <<\h2C72, \h2C72, 1, 1>>, <<\h2C75, \h2C75, 1, 1>>,
    <<\h2C7E, \h2C7F, 1, -10815>>, <<\h2C80, \h2CE2, 2, 1>>, <<\h2CEB, \h2CED, 2, 1>>}

LowerVai == {
    <<\hA640, \hA65E, 2, 1>>, <<\hA662, \hA66C, 2, 1>>, <<\hA680, \hA696, 2, 1>>,
    <<\hA722, \hA72E, 2, 1>>, <<\hA732, \hA76E, 2, 1>>, <<\hA779, \hA77B, 2, 1>>,
    <<\hA77D, \hA77D, 1, -35332>>, <<\hA77E, \hA786, 2, 1>>, <<\hA78B, \hA78B, 1, 1>>}

LowerOthers == {
    <<\hFF21, \hFF3A, 1, 32>>, <<\h10400, \h10427, 1, 40>>, <<\h104B0, \h104D3, 1, 40>>,
    <<\h10570, \h10592, 1, 39>>, <<\h10594, \h10595, 1, 39>>, <<\h10C80, \h10CB2, 1, 64>>,
    <<\h118A0, \h118BF, 1, 32>>, <<\h16E40, \h16E5F, 1, 32>>, <<\h1E900, \h1E921, 1, 34>>}

RowsLower(c) ==
    CASE c < \h100 -> LowerLatin1
      [] c < \h300 -> LowerLatin
      [] c < \h400 -> LowerGreek
      [] c < \h500 -> LowerCyrillic
      [] c < \h1F00 -> LowerExtended
      [] c < \h2000 -> LowerGreekExtended
      [] c < \h2C00 -> LowerSymbols
      [] c < \h2D00 -> LowerCoptic
      [] c \in \hA600..\hA7FF -> LowerVai
      [] OTHER -> LowerOthers

gp_u32_to_lower(c) == By(RowsLower(c), c)

gp_u32_to_title(c) ==
    CASE c \in \h1C4..\h1C6 -> \h1C5
      [] c \in \h1C7..\h1C9 -> \h1C8
      [] c \in \h1CA..\h1CC -> \h1CB
      [] c \in \h1F1..\h1F3 -> \h1F2
      [] c \in \h10D0..\h10FA \cup \h10FD..\h10FF -> c
      [] OTHER -> gp_u32_to_upper(c)

\* <<from, to>>: the next one in the orbit, where it is neither the upper nor the lower case
Orbits == {
    <<\h4B, \h6B>>, <<\h53, \h73>>, <<\h6B, \h212A>>, <<\h73, \h17F>>, <<\hB5, \h39C>>,
    <<\hC5, \hE5>>, <<\hDF, \h1E9E>>, <<\hE5, \h212B>>, <<\h130, \h130>>, <<\h131, \h131>>,
    <<\h17F, \h53>>, <<\h1C4, \h1C5>>, <<\h1C5, \h1C6>>, <<\h1C6, \h1C4>>, <<\h1C7, \h1C8>>,
    <<\h1C8, \h1C9>>, <<\h1C9, \h1C7>>, <<\h1CA, \h1CB>>, <<\h1CB, \h1CC>>, <<\h1CC, \h1CA>>,
    <<\h1F1, \h1F2>>, <<\h1F2, \h1F3>>, <<\h1F3, \h1F1>>, <<\h345, \h399>>, <<\h392, \h3B2>>,
    <<\h395, \h3B5>>, <<\h398, \h3B8>>, <<\h399, \h3B9>>, <<\h39A, \h3BA>>, <<\h39C, \h3BC>>,
    <<\h3A0, \h3C0>>, <<\h3A1, \h3C1>>, <<\h3A3, \h3C2>>, <<\h3A6, \h3C6>>, <<\h3A9, \h3C9>>,
    <<\h3B2, \h3D0>>, <<\h3B5, \h3F5>>, <<\h3B8, \h3D1>>, <<\h3B9, \h1FBE>>, <<\h3BA, \h3F0>>,
    <<\h3BC, \hB5>>, <<\h3C0, \h3D6>>, <<\h3C1, \h3F1>>, <<\h3C2, \h3C3>>, <<\h3C3, \h3A3>>,
    <<\h3C6, \h3D5>>, <<\h3C9, \h2126>>, <<\h3D0, \h392>>, <<\h3D1, \h3F4>>, <<\h3D5, \h3A6>>,
    <<\h3D6, \h3A0>>, <<\h3F0, \h39A>>, <<\h3F1, \h3A1>>, <<\h3F4, \h398>>, <<\h3F5, \h395>>,
    <<\h412, \h432>>, <<\h414, \h434>>, <<\h41E, \h43E>>, <<\h421, \h441>>, <<\h422, \h442>>,
    <<\h42A, \h44A>>, <<\h432, \h1C80>>, <<\h434, \h1C81>>, <<\h43E, \h1C82>>, <<\h441, \h1C83>>,
    <<\h442, \h1C84>>, <<\h44A, \h1C86>>, <<\h462, \h463>>, <<\h463, \h1C87>>, <<\h1C80, \h412>>,
    <<\h1C81, \h414>>, <<\h1C82, \h41E>>, <<\h1C83, \h421>>, <<\h1C84, \h1C85>>,
    <<\h1C85, \h422>>, <<\h1C86, \h42A>>, <<\h1C87, \h462>>, <<\h1C88, \hA64A>>,
    <<\h1E60, \h1E61>>, <<\h1E61, \h1E9B>>, <<\h1E9B, \h1E60>>, <<\h1E9E, \hDF>>,
    <<\h1FBE, \h345>>, <<\h2126, \h3A9>>, <<\h212A, \h4B>>, <<\h212B, \hC5>>, <<\hA64A, \hA64B>>,
    <<\hA64B, \h1C88>>}

\* The next codepoint that differs in case only; k and s have one above ASCII.
AsciiFold(c) ==
    CASE c = \h6B -> \h212A
      [] c = \h73 -> \h17F
      [] c \in \h41..\h5A -> c + 32
      [] c \in \h61..\h7A -> c - 32
      [] OTHER -> c

simple_fold(c) ==
    LET orbit == {o \in Orbits : o[1] = c}
    IN  CASE c < 128 -> AsciiFold(c)
          [] c >= 128 /\ orbit # {} -> (CHOOSE o \in orbit : TRUE)[2]
          [] OTHER -> IF gp_u32_to_lower(c) # c THEN gp_u32_to_lower(c) ELSE gp_u32_to_upper(c)

-----------------------------------------------------------------------------
(* Mappings to more than one codepoint *)

\* Both for upper and for title case
ExpandsBoth == {
    <<\h149, <<\h2BC, \h4E>>>>, <<\h1F0, <<\h4A, \h30C>>>>, <<\h390, <<\h399, \h308, \h301>>>>,
    <<\h3B0, <<\h3A5, \h308, \h301>>>>, <<\h1E96, <<\h48, \h331>>>>, <<\h1E97, <<\h54, \h308>>>>,
    <<\h1E98, <<\h57, \h30A>>>>, <<\h1E99, <<\h59, \h30A>>>>, <<\h1E9A, <<\h41, \h2BE>>>>,
    <<\h1F50, <<\h3A5, \h313>>>>, <<\h1F52, <<\h3A5, \h313, \h300>>>>,
    <<\h1F54, <<\h3A5, \h313, \h301>>>>, <<\h1F56, <<\h3A5, \h313, \h342>>>>,
    <<\h1FB6, <<\h391, \h342>>>>, <<\h1FC6, <<\h397, \h342>>>>,
    <<\h1FD2, <<\h399, \h308, \h300>>>>, <<\h1FD3, <<\h399, \h308, \h301>>>>,
    <<\h1FD6, <<\h399, \h342>>>>, <<\h1FD7, <<\h399, \h308, \h342>>>>,
    <<\h1FE2, <<\h3A5, \h308, \h300>>>>, <<\h1FE3, <<\h3A5, \h308, \h301>>>>,
    <<\h1FE4, <<\h3A1, \h313>>>>, <<\h1FE6, <<\h3A5, \h342>>>>,
    <<\h1FE7, <<\h3A5, \h308, \h342>>>>, <<\h1FF6, <<\h3A9, \h342>>>>}

ExpandsUpper == {
    <<\hDF, <<\h53, \h53>>>>, <<\h587, <<\h535, \h552>>>>, <<\h1FB2, <<\h1FBA, \h399>>>>,
    <<\h1FB3, <<\h391, \h399>>>>, <<\h1FB4, <<\h386, \h399>>>>,
    <<\h1FB7, <<\h391, \h342, \h399>>>>, <<\h1FBC, <<\h391, \h399>>>>,
    <<\h1FC2, <<\h1FCA, \h399>>>>, <<\h1FC3, <<\h397, \h399>>>>, <<\h1FC4, <<\h389, \h399>>>>,
    <<\h1FC7, <<\h397, \h342, \h399>>>>, <<\h1FCC, <<\h397, \h399>>>>,
    <<\h1FF2, <<\h1FFA, \h399>>>>, <<\h1FF3, <<\h3A9, \h399>>>>, <<\h1FF4, <<\h38F, \h399>>>>,
    <<\h1FF7, <<\h3A9, \h342, \h399>>>>, <<\h1FFC, <<\h3A9, \h399>>>>,
    <<\hFB00, <<\h46, \h46>>>>, <<\hFB01, <<\h46, \h49>>>>, <<\hFB02, <<\h46, \h4C>>>>,
    <<\hFB03, <<\h46, \h46, \h49>>>>, <<\hFB04, <<\h46, \h46, \h4C>>>>,
    <<\hFB05, <<\h53, \h54>>>>, <<\hFB06, <<\h53, \h54>>>>, <<\hFB13, <<\h544, \h546>>>>,
    <<\hFB14, <<\h544, \h535>>>>, <<\hFB15, <<\h544, \h53B>>>>, <<\hFB16, <<\h54E, \h546>>>>,
    <<\hFB17, <<\h544, \h53D>>>>}

ExpandsTitle == {
    <<\hDF, <<\h53, \h73>>>>, <<\h587, <<\h535, \h582>>>>, <<\h1FB2, <<\h1FBA, \h345>>>>,
    <<\h1FB4, <<\h386, \h345>>>>, <<\h1FB7, <<\h391, \h342, \h345>>>>,
    <<\h1FC2, <<\h1FCA, \h345>>>>, <<\h1FC4, <<\h389, \h345>>>>,
    <<\h1FC7, <<\h397, \h342, \h345>>>>, <<\h1FF2, <<\h1FFA, \h345>>>>,
    <<\h1FF4, <<\h38F, \h345>>>>, <<\h1FF7, <<\h3A9, \h342, \h345>>>>,
    <<\hFB00, <<\h46, \h66>>>>, <<\hFB01, <<\h46, \h69>>>>, <<\hFB02, <<\h46, \h6C>>>>,
    <<\hFB03, <<\h46, \h66, \h69>>>>, <<\hFB04, <<\h46, \h66, \h6C>>>>,
    <<\hFB05, <<\h53, \h74>>>>, <<\hFB06, <<\h53, \h74>>>>, <<\hFB13, <<\h544, \h576>>>>,
    <<\hFB14, <<\h544, \h565>>>>, <<\hFB15, <<\h544, \h56B>>>>, <<\hFB16, <<\h54E, \h576>>>>,
    <<\hFB17, <<\h544, \h56D>>>>}

ExpandsFold == {
    <<\hB5, <<\h3BC>>>>, <<\hDF, <<\h73, \h73>>>>,
    <<\h149, <<\h2BC, \h6E>>>>, <<\h17F, <<\h73>>>>, <<\h1F0, <<\h6A, \h30C>>>>,
    <<\h345, <<\h3B9>>>>, <<\h390, <<\h3B9, \h308, \h301>>>>, <<\h3B0, <<\h3C5, \h308, \h301>>>>,
    <<\h3C2, <<\h3C3>>>>, <<\h3D0, <<\h3B2>>>>, <<\h3D1, <<\h3B8>>>>, <<\h3D5, <<\h3C6>>>>,
    <<\h3D6, <<\h3C0>>>>, <<\h3F0, <<\h3BA>>>>, <<\h3F1, <<\h3C1>>>>, <<\h3F5, <<\h3B5>>>>,
    <<\h587, <<\h565, \h582>>>>, <<\h1C80, <<\h432>>>>, <<\h1C81, <<\h434>>>>,
    <<\h1C82, <<\h43E>>>>, <<\h1C83, <<\h441>>>>, <<\h1C84, <<\h442>>>>, <<\h1C85, <<\h442>>>>,
    <<\h1C86, <<\h44A>>>>, <<\h1C87, <<\h463>>>>, <<\h1C88, <<\hA64B>>>>,
    <<\h1E96, <<\h68, \h331>>>>, <<\h1E97, <<\h74, \h308>>>>, <<\h1E98, <<\h77, \h30A>>>>,
    <<\h1E99, <<\h79, \h30A>>>>, <<\h1E9A, <<\h61, \h2BE>>>>, <<\h1E9B, <<\h1E61>>>>,
    <<\h1E9E, <<\h73, \h73>>>>, <<\h1F50, <<\h3C5, \h313>>>>,
    <<\h1F52, <<\h3C5, \h313, \h300>>>>, <<\h1F54, <<\h3C5, \h313, \h301>>>>,
    <<\h1F56, <<\h3C5, \h313, \h342>>>>, <<\h1FB2, <<\h1F70, \h3B9>>>>,
    <<\h1FB3, <<\h3B1, \h3B9>>>>, <<\h1FB4, <<\h3AC, \h3B9>>>>, <<\h1FB6, <<\h3B1, \h342>>>>,
    <<\h1FB7, <<\h3B1, \h342, \h3B9>>>>, <<\h1FBC, <<\h3B1, \h3B9>>>>, <<\h1FBE, <<\h3B9>>>>,
    <<\h1FC2, <<\h1F74, \h3B9>>>>, <<\h1FC3, <<\h3B7, \h3B9>>>>, <<\h1FC4, <<\h3AE, \h3B9>>>>,
    <<\h1FC6, <<\h3B7, \h342>>>>, <<\h1FC7, <<\h3B7, \h342, \h3B9>>>>,
    <<\h1FCC, <<\h3B7, \h3B9>>>>, <<\h1FD2, <<\h3B9, \h308, \h300>>>>,
    <<\h1FD3, <<\h3B9, \h308, \h301>>>>, <<\h1FD6, <<\h3B9, \h342>>>>,
    <<\h1FD7, <<\h3B9, \h308, \h342>>>>, <<\h1FE2, <<\h3C5, \h308, \h300>>>>,
    <<\h1FE3, <<\h3C5, \h308, \h301>>>>, <<\h1FE4, <<\h3C1, \h313>>>>,
    <<\h1FE6, <<\h3C5, \h342>>>>, <<\h1FE7, <<\h3C5, \h308, \h342>>>>,
    <<\h1FF2, <<\h1F7C, \h3B9>>>>, <<\h1FF3, <<\h3C9, \h3B9>>>>, <<\h1FF4, <<\h3CE, \h3B9>>>>,
    <<\h1FF6, <<\h3C9, \h342>>>>, <<\h1FF7, <<\h3C9, \h342, \h3B9>>>>,
    <<\h1FFC, <<\h3C9, \h3B9>>>>, <<\hFB00, <<\h66, \h66>>>>, <<\hFB01, <<\h66, \h69>>>>,
    <<\hFB02, <<\h66, \h6C>>>>, <<\hFB03, <<\h66, \h66, \h69>>>>,
    <<\hFB04, <<\h66, \h66, \h6C>>>>, <<\hFB05, <<\h73, \h74>>>>, <<\hFB06, <<\h73, \h74>>>>,
    <<\hFB13, <<\h574, \h576>>>>, <<\hFB14, <<\h574, \h565>>>>, <<\hFB15, <<\h574, \h56B>>>>,
    <<\hFB16, <<\h57E, \h576>>>>, <<\hFB17, <<\h574, \h56D>>>>}

Expanded(table, c, otherwise) ==
    LET in == {e \in table : e[1] = c}
    IN  IF in = {} THEN otherwise ELSE (CHOOSE e \in in : TRUE)[2]

=============================================================================
