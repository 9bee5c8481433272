--------------------------- MODULE MCCalibration ---------------------------
(***************************************************************************)
(* The fitted tables, as they stand in FourKEQDSP.cpp and in               *)
(* FourKEQFilterCalibration.inc, to a tenth of a hertz, and three of the   *)
(* fourteen programs of kFactoryPresets, their numbers 4, 6 and 11.        *)
(***************************************************************************)
EXTENDS Integers

Gains ==
  <<0, 150, 300, 450, 600, 750, 900, 1050, 1200, 1350, 1500>>

Controls ==
  [lf |->
    <<300, 360, 420, 480, 600, 750, 900, 1100, 1400, 1700, 2000, 2300,
      2600, 2900, 3150, 3380, 3600, 3820, 4050, 4270, 4500>>,
   lm |->
    <<2000, 2300, 2600, 2900, 4000, 5500, 7000, 8200, 8800, 9400, 10000,
      11500, 13000, 14500, 16000, 17500, 19000, 20500, 22000, 23500, 25000>>,
   hm |->
    <<6000, 6600, 7200, 7800, 9400, 11500, 13600, 16500, 21000, 25500,
      30000, 34500, 39000, 43500, 48000, 52500, 57000, 61000, 64000, 67000,
      70000>>,
   hf |->
    <<15000, 16500, 18000, 19500, 26000, 35000, 44000, 53000, 62000, 71000,
      80000, 86000, 92000, 98000, 108000, 120000, 132000, 142000, 148000,
      154000, 160000>>]

Band(frequency, frequencyAtGain) ==
  [frequency |-> frequency, frequencyAtGain |-> frequencyAtGain]

BrownBands == <<
  Band(<<545, 545, 596, 691, 818, 998, 1276, 1690, 1803, 1932, 2081, 2254,
         2458, 2702, 2999, 3368, 3839, 4456, 5303, 6012, 6012>>,
       <<1886, 1886, 1906, 1942, 1998, 2081, 2204, 2394, 2711, 2785, 2785>>),
  Band(<<360, 360, 394, 457, 541, 660, 842, 1109, 1182, 1264, 1358, 1467,
         1596, 1748, 1932, 2159, 2445, 2818, 3322, 3741, 3741>>,
       <<1355, 1355, 1356, 1356, 1357, 1358, 1360, 1364, 1371, 1373, 1373>>),
  Band(<<2013, 2013, 2266, 2609, 3078, 3759, 4837, 6478, 6907, 7397, 7962,
         8621, 9398, 10330, 11466, 12884, 14701, 17112, 20470, 20589, 20589>>,
       <<7929, 7929, 7932, 7938, 7948, 7962, 7986, 8028, 8114, 8148, 8148>>),
  Band(<<6503, 6606, 7458, 8565, 10058, 12182, 15436, 21038, 23200, 24929,
         26937, 29291, 32094, 35488, 39679, 44992, 51939, 61426, 63927,
         63927, 63927>>,
       <<26858, 26858, 26866, 26880, 26902, 26937, 26992, 27085, 27271,
         27424, 27424>>),
  Band(<<5917, 6052, 6841, 7875, 9291, 11360, 14679, 19344, 20419, 21628,
         23001, 24574, 26396, 28533, 31074, 34149, 37941, 42732, 48970,
         51097, 51097>>,
       <<25002, 25002, 24774, 24380, 23801, 23001, 21929, 20502, 18602,
         18027, 18027>>),
  Band(<<15734, 16077, 18063, 20649, 24164, 29259, 37395, 48802, 51425,
         54374, 57718, 61541, 65958, 71123, 77237, 84600, 93625, 104951,
         119598, 124577, 124577>>,
       <<57594, 57594, 57605, 57626, 57661, 57718, 57821, 58026, 58525,
         58769, 58769>>) >>

BlackBands == <<
  Band(<<908, 908, 991, 1147, 1357, 1657, 2120, 2803, 2987, 3196, 3436,
         3712, 4034, 4414, 4869, 5424, 6114, 6998, 8175, 9138, 9138>>,
       <<3095, 3095, 3131, 3194, 3292, 3436, 3647, 3970, 4492, 4613, 4613>>),
  Band(<<365, 365, 396, 456, 536, 650, 825, 1083, 1153, 1233, 1324, 1430,
         1554, 1701, 1879, 2099, 2376, 2735, 3219, 3618, 3618>>,
       <<1320, 1320, 1321, 1321, 1322, 1324, 1327, 1331, 1341, 1343, 1343>>),
  Band(<<1389, 1389, 1570, 1815, 2153, 2648, 3444, 4685, 5016, 5398, 5843,
         6367, 6994, 7758, 8708, 9922, 11525, 13739, 17000, 17120, 17120>>,
       <<5819, 5819, 5822, 5826, 5832, 5843, 5859, 5888, 5949, 5973, 5973>>),
  Band(<<6430, 6533, 7385, 8492, 9985, 12111, 15370, 20983, 23149, 24883,
         26894, 29254, 32062, 35463, 39659, 44977, 51929, 61415, 75150,
         87918, 87918>>,
       <<26819, 26819, 26826, 26840, 26861, 26894, 26947, 27037, 27216,
         27329, 27329>>),
  Band(<<5378, 5726, 6538, 7612, 9097, 11290, 14860, 19995, 21200, 22567,
         24134, 25948, 28076, 30612, 33680, 37476, 42281, 48554, 57071,
         63676, 63676>>,
       <<26244, 26244, 26002, 25586, 24975, 24134, 23010, 21525, 19573,
         19149, 19149>>),
  Band(<<15947, 16896, 19089, 21961, 25893, 31658, 41036, 54567, 57744,
         61344, 65467, 70230, 75801, 82412, 90375, 100169, 112493, 128499,
         150208, 167167, 167167>>,
       <<65264, 65264, 65283, 65318, 65375, 65467, 65625, 65928, 66627,
         66860, 66860>>) >>

BrownHPF ==
  [control |->
     <<160, 169, 172, 190, 212, 263, 267, 278, 289, 300, 330, 375, 390,
       420, 450, 600, 615, 620, 622, 645, 675, 750, 840, 840, 870, 900,
       960, 990, 1020, 1035, 1050, 1050, 1080, 1140, 1155, 1157, 1200,
       1224, 1272, 1368, 1440, 1584, 1680, 1824, 1920, 2200, 2230, 2500,
       2800, 3050, 3200, 3350, 3500>>,
   frequency |->
     <<102, 104, 105, 111, 112, 130, 130, 136, 136, 136, 149, 158, 162,
       167, 173, 206, 209, 211, 211, 218, 227, 252, 293, 293, 310, 328,
       374, 402, 435, 453, 473, 473, 519, 645, 686, 693, 852, 860, 876,
       909, 936, 995, 1039, 1112, 1166, 1330, 1349, 1547, 1849, 2298, 3037,
       3037, 3037>>]

BrownLPF ==
  [control |->
     <<30000, 31500, 33000, 34500, 36000, 37500, 39000, 41000, 44000,
       47000, 50000, 59000, 68000, 76104, 77000, 78106, 84706, 85143,
       88000, 90398, 100000, 106480, 106482, 112000, 113598, 114779,
       121605, 125082, 126400, 128000, 147215, 152010>>,
   frequency |->
     <<32449, 34192, 36131, 38305, 40755, 43539, 46733, 50430, 54762,
       59903, 66104, 73735, 83336, 94376, 95784, 97235, 106923, 107631,
       112507, 116552, 136049, 153125, 153125, 171118, 175514, 178907,
       200876, 213750, 218943, 225481, 284343, 299462>>]

BlackHPF ==
  [control |->
     <<160, 163, 166, 185, 190, 223, 245, 267, 289, 300, 304, 332, 347,
       350, 375, 375, 420, 435, 450, 459, 465, 480, 510, 525, 600, 600,
       615, 630, 720, 750, 761, 833, 853, 885, 896, 900, 900, 915, 920,
       988, 1005, 1020, 1050, 1080, 1129, 1155, 1171, 1200, 1272, 1440,
       1632, 1680, 1920, 2200, 2260, 2380, 2500, 2800, 3050, 3200, 3350,
       3500>>,
   frequency |->
     <<165, 167, 168, 178, 181, 187, 191, 195, 199, 202, 202, 207, 209,
       210, 214, 214, 223, 226, 230, 232, 233, 236, 244, 248, 269, 269,
       274, 279, 315, 330, 335, 378, 392, 417, 426, 430, 430, 443, 448,
       523, 547, 570, 620, 681, 812, 902, 971, 1121, 1152, 1231, 1337,
       1366, 1534, 1748, 1799, 1909, 2033, 2429, 3017, 3980, 3980, 3980>>]

BlackLPF ==
  [control |->
     <<30000, 31500, 32401, 33000, 34500, 36000, 36151, 37500, 39000,
       39000, 41000, 41301, 44000, 47000, 49006, 49101, 49183, 50000,
       59000, 68000, 70918, 72500, 76071, 77000, 83605, 86902, 88000,
       88003, 92800, 93386, 100000, 110796, 111492, 111997, 112000, 115814,
       128000, 144812, 152007, 152010>>,
   frequency |->
     <<31807, 33479, 34570, 35337, 37413, 39747, 39998, 42391, 45411,
       45413, 48896, 49275, 52959, 57753, 61472, 61660, 61824, 63498,
       70511, 79247, 82559, 84473, 89132, 90436, 98780, 103542, 105235,
       105235, 112573, 113538, 125664, 151832, 153873, 155387, 155409,
       164511, 201066, 246735, 269265, 269312>>]

MCBands == [type \in 0..1 |-> IF type = 0 THEN BrownBands ELSE BlackBands]

MCFilters == [type \in 0..1 |-> IF type = 0 THEN [hpf |-> BrownHPF, lpf |-> BrownLPF]
                                           ELSE [hpf |-> BlackHPF, lpf |-> BlackLPF]]

\* Bands as <<gain, frequency, Q or bell>>, filters by frequency.
Program(lf, lm, hm, hf, hpf, lpf, type) ==
  [lf_gain |-> lf[1], lf_freq |-> lf[2], lf_bell |-> lf[3],
   lm_gain |-> lm[1], lm_freq |-> lm[2], lm_q |-> lm[3],
   hm_gain |-> hm[1], hm_freq |-> hm[2], hm_q |-> hm[3],
   hf_gain |-> hf[1], hf_freq |-> hf[2], hf_bell |-> hf[3],
   hpf_freq |-> hpf, lpf_freq |-> lpf, eq_type |-> type,
   input_gain |-> 0, output_gain |-> 0]

DrumBusPunch ==
  Program(<<400, 7000, 0>>, <<-300, 35000, 60>>, <<300, 350000, 100>>,
          <<250, 1000000, 0>>, 1600, 1520100, 100)

BassGuitarPolish ==
  Program(<<500, 6000, 0>>, <<-200, 25000, 100>>, <<300, 120000, 80>>,
          <<200, 450000, 100>>, 3500, 1520100, 0)

TelephoneEQ ==
  Program(<<0, 10000, 0>>, <<600, 100000, 150>>, <<0, 200000, 70>>,
          <<0, 800000, 0>>, 30000, 300000, 0)
=============================================================================
