--------------------------- MODULE VendorCatalogue ---------------------------
(***************************************************************************)
(* The device models that the application knows, in the order in which     *)
(* VendorEcosystemRegistry registers them, with what identifies a model    *)
(* and what is done with it.  A model's name is represented by its         *)
(* identifier; its features, documents and SDK names are left out.         *)
(***************************************************************************)
EXTENDS Sequences

\* usb: its vendor and product identifiers; ip: the address it is shipped
\* with; minimum: the major number of the oldest firmware its SDK serves.
\* Every model names an SDK for older ones.
Model(id, vendor, revision, status, type, usb, ip, minimum, legacy, driver, builder, rgb) ==
  [id |-> id, vendor |-> vendor, revision |-> revision, status |-> status, type |-> type, usb |-> usb, ip |-> ip,
   minimum |-> minimum, oldSdk |-> TRUE, legacy |-> legacy, adapter |-> driver, backend |-> builder, rgb |-> rgb]

Hesai1 == <<
  Model("hesai_ot128", "Hesai", "RevA", "CURRENT", "LiDAR", {}, "192.168.1.201", 1, FALSE, "HesaiAdapter", "FAST-LIO2", FALSE),
  Model("hesai_pandar128", "Hesai", "RevB", "CURRENT", "LiDAR", {}, "192.168.1.201", 1, FALSE, "HesaiAdapter", "FAST-LIO2", FALSE)>>
Livox1 == <<
  Model("livox_mid_100_legacy", "Livox", "RevA", "LEGACY", "LiDAR", {}, "192.168.1.10", 1, TRUE, "LivoxLegacyAdapter", "FAST-LIO2", FALSE)>>
LSLiDAR1 == <<
  Model("lslidar_cx", "LSLiDAR", "RevA", "CURRENT", "LiDAR", {}, "192.168.1.200", 1, FALSE, "LSLiDARAdapter", "FAST-LIO2", FALSE)>>
Seyond1 == <<
  Model("seyond_robin_e", "Seyond", "RevA", "CURRENT", "LiDAR", {}, "192.168.1.205", 2, FALSE, "SeyondAdapter", "FAST-LIO2", FALSE)>>
Orbbec1 == <<
  Model("orbbec_astra_mini_legacy", "Orbbec", "Legacy", "LEGACY", "RGB-D", {<<"2bc5", "0404">>}, "", 1, TRUE, "OrbbecAstraLegacyAdapter", "GeminiRgbdBackend", TRUE)>>
Intel1 == <<
  Model("intel_realsense_sr300_legacy", "Intel", "Legacy", "LEGACY", "RGB-D", {<<"8086", "0aa5">>}, "", 3, TRUE, "RealSenseLegacyAdapter", "GeminiRgbdBackend", TRUE)>>
Luxonis1 == <<
  Model("luxonis_oak_d_w", "Luxonis", "Current", "CURRENT", "Stereo", {<<"03e7", "2485">>}, "", 2, FALSE, "DepthAIAdapter", "GeminiRgbdBackend", TRUE)>>
Generic1 == <<
  Model("generic_v4l2_ir", "Generic", "Current", "CURRENT", "Other", {}, "", 1, FALSE, "GenericUvcSensorAdapter", "LingBotStreamingBackend", FALSE),
  Model("generic_rtsp_camera", "Generic", "Current", "CURRENT", "RGB Camera", {}, "192.168.1.50", 1, FALSE, "GenericUvcSensorAdapter", "LingBotStreamingBackend", TRUE),
  Model("generic_imu_serial", "Generic", "Current", "CURRENT", "IMU", {}, "", 1, FALSE, "GenericImuAdapter", "VitureVioBackend", FALSE)>>
VITURE1 == <<
  Model("viture_luma_ultra", "VITURE", "Current", "CURRENT", "Multi-Sensor", {<<"35ca", "1011">>}, "", 1, FALSE, "VitureGlassesAdapter", "VitureVioBackend", TRUE)>>
Ouster1 == <<
  Model("ouster_os1_rev8_rgb", "Ouster", "Rev8", "CURRENT", "LiDAR", {}, "192.168.1.100", 4, FALSE, "OusterAdapter", "FAST-LIO2", TRUE),
  Model("ouster_os1_max", "Ouster", "Rev8", "CURRENT", "LiDAR", {}, "192.168.1.100", 4, FALSE, "OusterAdapter", "FAST-LIO2", TRUE),
  Model("ouster_os1_rev7", "Ouster", "Rev7", "PREVIOUS", "LiDAR", {}, "192.168.1.100", 3, FALSE, "OusterAdapter", "FAST-LIO2", FALSE),
  Model("ouster_os1_gen1_legacy", "Ouster", "RevC/D/5/6", "LEGACY", "LiDAR", {}, "192.168.1.100", 2, TRUE, "OusterLegacyAdapter", "FAST-LIO2", FALSE)>>
Ouster2 == <<
  Model("ouster_os0_rev8_rgb", "Ouster", "Rev8", "CURRENT", "LiDAR", {}, "192.168.1.100", 4, FALSE, "OusterAdapter", "FAST-LIO2", TRUE),
  Model("ouster_os0_rev7", "Ouster", "Rev7", "PREVIOUS", "LiDAR", {}, "192.168.1.100", 3, FALSE, "OusterAdapter", "FAST-LIO2", FALSE),
  Model("ouster_os0_gen1_legacy", "Ouster", "RevC/D", "LEGACY", "LiDAR", {}, "192.168.1.100", 2, TRUE, "OusterLegacyAdapter", "FAST-LIO2", FALSE),
  Model("ouster_os2_rev8_rgb", "Ouster", "Rev8", "CURRENT", "LiDAR", {}, "192.168.1.100", 4, FALSE, "OusterAdapter", "FAST-LIO2", TRUE)>>
Ouster3 == <<
  Model("ouster_os2_rev7", "Ouster", "Rev7", "PREVIOUS", "LiDAR", {}, "192.168.1.100", 3, FALSE, "OusterAdapter", "FAST-LIO2", FALSE),
  Model("ouster_osdome_rev8_rgb", "Ouster", "Rev8", "CURRENT", "LiDAR", {}, "192.168.1.100", 4, FALSE, "OusterAdapter", "FAST-LIO2", TRUE),
  Model("ouster_osdome_rev7", "Ouster", "Rev7", "PREVIOUS", "LiDAR", {}, "192.168.1.100", 3, FALSE, "OusterAdapter", "FAST-LIO2", FALSE)>>
RoboSense1 == <<
  Model("robosense_airy", "RoboSense", "RevB", "CURRENT", "LiDAR", {}, "192.168.1.200", 1, FALSE, "AirySensorAdapter", "AiryLioBackend", FALSE),
  Model("robosense_airy_lite", "RoboSense", "RevA", "CURRENT", "LiDAR", {}, "192.168.1.200", 1, FALSE, "AirySensorAdapter", "AiryLioBackend", FALSE),
  Model("robosense_m1", "RoboSense", "RevB", "CURRENT", "LiDAR", {}, "192.168.1.200", 2, FALSE, "RoboSenseAdapter", "FAST-LIO2", FALSE),
  Model("robosense_m2", "RoboSense", "RevA", "CURRENT", "LiDAR", {}, "192.168.1.200", 1, FALSE, "RoboSenseAdapter", "FAST-LIO2", FALSE)>>
RoboSense2 == <<
  Model("robosense_m3", "RoboSense", "RevA", "CURRENT", "LiDAR", {}, "192.168.1.200", 1, FALSE, "RoboSenseAdapter", "FAST-LIO2", FALSE),
  Model("robosense_e1", "RoboSense", "RevA", "CURRENT", "LiDAR", {}, "192.168.1.200", 1, FALSE, "RoboSenseAdapter", "FAST-LIO2", FALSE),
  Model("robosense_helios", "RoboSense", "RevB", "CURRENT", "LiDAR", {}, "192.168.1.200", 1, FALSE, "RoboSenseAdapter", "FAST-LIO2", FALSE),
  Model("robosense_ruby", "RoboSense", "RevA", "PREVIOUS", "LiDAR", {}, "192.168.1.200", 1, FALSE, "RoboSenseAdapter", "FAST-LIO2", FALSE)>>
RoboSense3 == <<
  Model("robosense_bpearl", "RoboSense", "RevA", "PREVIOUS", "LiDAR", {}, "192.168.1.200", 1, FALSE, "RoboSenseAdapter", "FAST-LIO2", FALSE),
  Model("robosense_rs16_legacy", "RoboSense", "RevA", "LEGACY", "LiDAR", {}, "192.168.1.200", 1, FALSE, "RoboSenseAdapter", "FAST-LIO2", FALSE),
  Model("robosense_rs32_legacy", "RoboSense", "RevA", "LEGACY", "LiDAR", {}, "192.168.1.200", 1, FALSE, "RoboSenseAdapter", "FAST-LIO2", FALSE)>>
Hesai2 == <<
  Model("hesai_at128", "Hesai", "RevB", "CURRENT", "LiDAR", {}, "192.168.1.201", 1, FALSE, "HesaiAdapter", "FAST-LIO2", FALSE),
  Model("hesai_et25", "Hesai", "RevA", "CURRENT", "LiDAR", {}, "192.168.1.201", 1, FALSE, "HesaiAdapter", "FAST-LIO2", FALSE),
  Model("hesai_ft120", "Hesai", "RevA", "CURRENT", "LiDAR", {}, "192.168.1.201", 1, FALSE, "HesaiAdapter", "FAST-LIO2", FALSE),
  Model("hesai_pandar_xt32", "Hesai", "RevB", "CURRENT", "LiDAR", {}, "192.168.1.201", 1, FALSE, "HesaiAdapter", "FAST-LIO2", FALSE)>>
Hesai3 == <<
  Model("hesai_pandar_xt16", "Hesai", "RevB", "PREVIOUS", "LiDAR", {}, "192.168.1.201", 1, FALSE, "HesaiAdapter", "FAST-LIO2", FALSE),
  Model("hesai_pandar_qt128", "Hesai", "RevA", "CURRENT", "LiDAR", {}, "192.168.1.201", 1, FALSE, "HesaiAdapter", "FAST-LIO2", FALSE),
  Model("hesai_pandar40p_legacy", "Hesai", "RevA", "LEGACY", "LiDAR", {}, "192.168.1.201", 1, TRUE, "HesaiLegacyAdapter", "FAST-LIO2", FALSE),
  Model("hesai_pandar64_legacy", "Hesai", "RevA", "LEGACY", "LiDAR", {}, "192.168.1.201", 1, TRUE, "HesaiLegacyAdapter", "FAST-LIO2", FALSE)>>
Livox2 == <<
  Model("livox_mid_360", "Livox", "RevB", "CURRENT", "LiDAR", {}, "192.168.1.10", 1, FALSE, "LivoxAdapter", "FAST-LIO2", FALSE),
  Model("livox_mid_360l", "Livox", "RevA", "CURRENT", "LiDAR", {}, "192.168.1.10", 1, FALSE, "LivoxAdapter", "FAST-LIO2", FALSE),
  Model("livox_hap", "Livox", "RevA", "CURRENT", "LiDAR", {}, "192.168.1.10", 1, FALSE, "LivoxAdapter", "FAST-LIO2", FALSE),
  Model("livox_mid_70", "Livox", "RevA", "PREVIOUS", "LiDAR", {}, "192.168.1.10", 1, TRUE, "LivoxLegacyAdapter", "FAST-LIO2", FALSE)>>
Livox3 == <<
  Model("livox_horizon", "Livox", "RevA", "PREVIOUS", "LiDAR", {}, "192.168.1.10", 1, TRUE, "LivoxLegacyAdapter", "FAST-LIO2", FALSE),
  Model("livox_tele_15", "Livox", "RevA", "PREVIOUS", "LiDAR", {}, "192.168.1.10", 1, TRUE, "LivoxLegacyAdapter", "FAST-LIO2", FALSE),
  Model("livox_mid_40_legacy", "Livox", "RevA", "LEGACY", "LiDAR", {}, "192.168.1.10", 1, TRUE, "LivoxLegacyAdapter", "FAST-LIO2", FALSE)>>
LSLiDAR2 == <<
  Model("lslidar_c16", "LSLiDAR", "RevB", "CURRENT", "LiDAR", {}, "192.168.1.200", 1, FALSE, "LSLiDARAdapter", "FAST-LIO2", FALSE),
  Model("lslidar_c32", "LSLiDAR", "RevB", "CURRENT", "LiDAR", {}, "192.168.1.200", 1, FALSE, "LSLiDARAdapter", "FAST-LIO2", FALSE),
  Model("lslidar_ch64w", "LSLiDAR", "RevA", "CURRENT", "LiDAR", {}, "192.168.1.200", 1, FALSE, "LSLiDARAdapter", "FAST-LIO2", FALSE),
  Model("lslidar_ch128x1", "LSLiDAR", "RevA", "CURRENT", "LiDAR", {}, "192.168.1.200", 1, FALSE, "LSLiDARAdapter", "FAST-LIO2", FALSE)>>
LSLiDAR3 == <<
  Model("lslidar_ls128s1", "LSLiDAR", "RevA", "CURRENT", "LiDAR", {}, "192.168.1.200", 1, FALSE, "LSLiDARAdapter", "FAST-LIO2", FALSE),
  Model("lslidar_n301_legacy", "LSLiDAR", "RevA", "LEGACY", "LiDAR", {}, "192.168.1.200", 1, TRUE, "LSLiDARLegacyAdapter", "FAST-LIO2", FALSE)>>
Unitree1 == <<
  Model("unitree_l2", "Unitree", "Current", "CURRENT", "LiDAR", {}, "192.168.1.120", 2, FALSE, "UnitreeLidarAdapter", "FAST-LIO2", FALSE),
  Model("unitree_l1", "Unitree", "Previous", "PREVIOUS", "LiDAR", {<<"10c4", "ea60">>}, "", 1, FALSE, "UnitreeLidarAdapter", "FAST-LIO2", FALSE)>>
Valeo1 == <<
  Model("valeo_scala_3", "Valeo", "Current", "CURRENT", "LiDAR", {}, "192.168.1.210", 3, FALSE, "ValeoAdapter", "FAST-LIO2", FALSE),
  Model("valeo_scala_2", "Valeo", "Previous", "PREVIOUS", "LiDAR", {}, "192.168.1.210", 2, FALSE, "ValeoAdapter", "FAST-LIO2", FALSE),
  Model("valeo_scala_1_legacy", "Valeo", "Legacy", "LEGACY", "LiDAR", {}, "192.168.1.210", 1, TRUE, "ValeoLegacyAdapter", "FAST-LIO2", FALSE)>>
Innoviz1 == <<
  Model("innoviz_two", "Innoviz", "Current", "CURRENT", "LiDAR", {}, "192.168.1.180", 2, FALSE, "InnovizAdapter", "FAST-LIO2", FALSE),
  Model("innoviz_one", "Innoviz", "Previous", "PREVIOUS", "LiDAR", {}, "192.168.1.180", 1, FALSE, "InnovizAdapter", "FAST-LIO2", FALSE)>>
Seyond2 == <<
  Model("seyond_falcon_k2", "Seyond", "Current", "CURRENT", "LiDAR", {}, "192.168.1.205", 2, FALSE, "SeyondAdapter", "FAST-LIO2", FALSE),
  Model("seyond_robin_w", "Seyond", "Current", "CURRENT", "LiDAR", {}, "192.168.1.205", 2, FALSE, "SeyondAdapter", "FAST-LIO2", FALSE)>>
MorpheusTEK1 == <<
  Model("morpheustek_perception", "MorpheusTEK", "Current", "CURRENT", "LiDAR", {}, "192.168.1.150", 1, FALSE, "MorpheusTekAdapter", "FAST-LIO2", FALSE)>>
Orbbec2 == <<
  Model("orbbec_gemini_336l", "Orbbec", "Current", "CURRENT", "RGB-D", {<<"2bc5", "0670">>, <<"2bc5", "0671">>}, "", 1, FALSE, "GeminiSensorAdapter", "GeminiRgbdBackend", TRUE),
  Model("orbbec_gemini_335", "Orbbec", "Current", "CURRENT", "RGB-D", {<<"2bc5", "0660">>}, "", 1, FALSE, "GeminiSensorAdapter", "GeminiRgbdBackend", TRUE),
  Model("orbbec_gemini_335l", "Orbbec", "Current", "CURRENT", "RGB-D", {<<"2bc5", "0661">>}, "", 1, FALSE, "GeminiSensorAdapter", "GeminiRgbdBackend", TRUE),
  Model("orbbec_femto_bolt", "Orbbec", "Current", "CURRENT", "ToF", {<<"2bc5", "0668">>}, "", 1, FALSE, "GeminiSensorAdapter", "GeminiRgbdBackend", TRUE)>>
Orbbec3 == <<
  Model("orbbec_femto_mega", "Orbbec", "Current", "CURRENT", "ToF", {<<"2bc5", "0669">>}, "192.168.1.10", 1, FALSE, "GeminiSensorAdapter", "GeminiRgbdBackend", TRUE),
  Model("orbbec_astra_2", "Orbbec", "Current", "CURRENT", "RGB-D", {<<"2bc5", "0675">>}, "", 1, FALSE, "GeminiSensorAdapter", "GeminiRgbdBackend", TRUE),
  Model("orbbec_astra_pro_legacy", "Orbbec", "Legacy", "LEGACY", "RGB-D", {<<"2bc5", "0403">>}, "", 1, TRUE, "OrbbecAstraLegacyAdapter", "GeminiRgbdBackend", TRUE)>>
Intel2 == <<
  Model("intel_realsense_d435i", "Intel", "Current", "CURRENT", "Stereo", {<<"8086", "0b3a">>}, "", 5, FALSE, "RealSenseAdapter", "GeminiRgbdBackend", TRUE),
  Model("intel_realsense_d455", "Intel", "Current", "CURRENT", "Stereo", {<<"8086", "0b5c">>}, "", 5, FALSE, "RealSenseAdapter", "GeminiRgbdBackend", TRUE),
  Model("intel_realsense_d415", "Intel", "Previous", "PREVIOUS", "Stereo", {<<"8086", "0ad3">>}, "", 5, FALSE, "RealSenseAdapter", "GeminiRgbdBackend", TRUE),
  Model("intel_realsense_d405", "Intel", "Current", "CURRENT", "RGB-D", {<<"8086", "0b5b">>}, "", 5, FALSE, "RealSenseAdapter", "GeminiRgbdBackend", TRUE)>>
Intel3 == <<
  Model("intel_realsense_l515_legacy", "Intel", "Legacy", "LEGACY", "LiDAR", {<<"8086", "0b64">>}, "", 1, FALSE, "RealSenseAdapter", "FAST-LIO2", TRUE),
  Model("intel_realsense_t265_legacy", "Intel", "Legacy", "LEGACY", "Multi-Sensor", {<<"8086", "0b37">>}, "", 1, TRUE, "RealSenseTrackingAdapter", "VitureVioBackend", FALSE),
  Model("intel_realsense_f200_legacy", "Intel", "Legacy", "LEGACY", "RGB-D", {<<"8086", "0a66">>}, "", 1, TRUE, "RealSenseLegacyAdapter", "GeminiRgbdBackend", TRUE)>>
Luxonis2 == <<
  Model("luxonis_oak_d_pro", "Luxonis", "Current", "CURRENT", "Stereo", {<<"03e7", "2485">>}, "", 2, FALSE, "DepthAIAdapter", "GeminiRgbdBackend", TRUE),
  Model("luxonis_oak_d_s2", "Luxonis", "Current", "CURRENT", "Stereo", {<<"03e7", "2485">>}, "", 2, FALSE, "DepthAIAdapter", "GeminiRgbdBackend", TRUE),
  Model("luxonis_oak_1", "Luxonis", "Current", "CURRENT", "RGB Camera", {<<"03e7", "2485">>}, "", 2, FALSE, "GenericUvcSensorAdapter", "LingBotStreamingBackend", TRUE),
  Model("luxonis_oak_d_classic", "Luxonis", "Previous", "PREVIOUS", "Stereo", {<<"03e7", "2485">>}, "", 2, FALSE, "DepthAIAdapter", "GeminiRgbdBackend", TRUE)>>
Stereolabs1 == <<
  Model("stereolabs_zed_2i", "Stereolabs", "Current", "CURRENT", "Stereo", {<<"2b03", "f682">>}, "", 3, FALSE, "ZedAdapter", "GeminiRgbdBackend", TRUE),
  Model("stereolabs_zed_x", "Stereolabs", "Current", "CURRENT", "Stereo", {<<"2b03", "f700">>}, "", 4, FALSE, "ZedAdapter", "GeminiRgbdBackend", TRUE),
  Model("stereolabs_zed_2", "Stereolabs", "Previous", "PREVIOUS", "Stereo", {<<"2b03", "f680">>}, "", 3, FALSE, "ZedAdapter", "GeminiRgbdBackend", TRUE),
  Model("stereolabs_zed_mini", "Stereolabs", "Previous", "PREVIOUS", "Stereo", {<<"2b03", "f620">>}, "", 3, FALSE, "ZedAdapter", "GeminiRgbdBackend", TRUE)>>
Stereolabs2 == <<
  Model("stereolabs_zed_classic_legacy", "Stereolabs", "Legacy", "LEGACY", "Stereo", {<<"2b03", "f580">>}, "", 1, TRUE, "ZedLegacyAdapter", "GeminiRgbdBackend", TRUE)>>
Generic2 == <<
  Model("generic_uvc_rgb", "Generic", "Current", "CURRENT", "RGB Camera", {<<"32e4", "4802">>}, "", 1, FALSE, "GenericUvcSensorAdapter", "LingBotStreamingBackend", TRUE),
  Model("generic_cdc_acm_unknown", "Generic", "Current", "CURRENT", "Other", {}, "", 1, FALSE, "NONE", "NONE", FALSE)>>
SICK1 == <<
  Model("sick_multiscan100", "SICK", "3.6.0", "CURRENT", "LiDAR", {}, "192.168.0.1", 1, FALSE, "SickScanAdapter", "FAST-LIO2", FALSE),
  Model("sick_picoscan150", "SICK", "Current", "CURRENT", "LiDAR", {}, "192.168.0.1", 1, FALSE, "SickScanAdapter", "FAST-LIO2", FALSE),
  Model("sick_mrs6000", "SICK", "RevC", "CURRENT", "LiDAR", {}, "192.168.0.1", 1, FALSE, "SickScanAdapter", "FAST-LIO2", FALSE),
  Model("sick_mrs1000", "SICK", "Current", "CURRENT", "LiDAR", {}, "192.168.0.1", 1, FALSE, "SickScanAdapter", "FAST-LIO2", FALSE)>>
SICK2 == <<
  Model("sick_lms1000", "SICK", "Current", "CURRENT", "LiDAR", {}, "192.168.0.1", 1, FALSE, "SickScanAdapter", "Cartographer2D", FALSE),
  Model("sick_lms4000", "SICK", "Current", "CURRENT", "LiDAR", {}, "192.168.0.1", 1, FALSE, "SickScanAdapter", "Cartographer2D", FALSE),
  Model("sick_lms5xx", "SICK", "Previous", "PREVIOUS", "LiDAR", {}, "192.168.0.1", 1, FALSE, "SickScanAdapter", "Cartographer2D", FALSE),
  Model("sick_lms1xx", "SICK", "Legacy", "LEGACY", "LiDAR", {}, "192.168.0.1", 1, TRUE, "SickLegacyAdapter", "Cartographer2D", FALSE)>>
SICK3 == <<
  Model("sick_tim7xx", "SICK", "Current", "CURRENT", "LiDAR", {<<"a2", "01">>}, "192.168.0.1", 1, FALSE, "SickScanAdapter", "Cartographer2D", FALSE),
  Model("sick_tim5xx", "SICK", "Previous", "PREVIOUS", "LiDAR", {<<"a2", "01">>}, "192.168.0.1", 1, FALSE, "SickScanAdapter", "Cartographer2D", FALSE),
  Model("sick_tim2xx", "SICK", "Current", "CURRENT", "LiDAR", {<<"a2", "02">>}, "192.168.0.1", 1, FALSE, "SickScanAdapter", "Cartographer2D", FALSE),
  Model("sick_lrs4000", "SICK", "Current", "CURRENT", "LiDAR", {}, "192.168.0.1", 1, FALSE, "SickScanAdapter", "Cartographer2D", FALSE)>>
SICK4 == <<
  Model("sick_nav3xx", "SICK", "Current", "CURRENT", "LiDAR", {}, "192.168.0.1", 1, FALSE, "SickScanAdapter", "Cartographer2D", FALSE),
  Model("sick_nav2xx", "SICK", "Previous", "PREVIOUS", "LiDAR", {}, "192.168.0.1", 1, FALSE, "SickScanAdapter", "Cartographer2D", FALSE),
  Model("sick_visionary_t_mini", "SICK", "Current", "CURRENT", "ToF", {}, "192.168.1.10", 1, FALSE, "SickVisionaryAdapter", "RTAB-Map", FALSE),
  Model("sick_visionary_s", "SICK", "Current", "CURRENT", "Stereo", {}, "192.168.1.10", 1, FALSE, "SickVisionaryAdapter", "RTAB-Map", TRUE)>>

Catalogue ==
  Hesai1 \o Livox1 \o LSLiDAR1 \o Seyond1 \o Orbbec1 \o Intel1 \o Luxonis1 \o Generic1 \o
  VITURE1 \o Ouster1 \o Ouster2 \o Ouster3 \o RoboSense1 \o RoboSense2 \o RoboSense3 \o
  Hesai2 \o Hesai3 \o Livox2 \o Livox3 \o LSLiDAR2 \o LSLiDAR3 \o Unitree1 \o Valeo1 \o
  Innoviz1 \o Seyond2 \o MorpheusTEK1 \o Orbbec2 \o Orbbec3 \o Intel2 \o Intel3 \o Luxonis2
  \o Stereolabs1 \o Stereolabs2 \o Generic2 \o SICK1 \o SICK2 \o SICK3 \o SICK4
=============================================================================
