----------------------------- MODULE Catalogue -----------------------------
(***************************************************************************)
(* The presets of retrolens_core.cpp, as far as what they look like and    *)
(* how they are chosen depends on them: id, category, effects, tint,       *)
(* saturation, contrast, tones, grain, cell size and the share of the      *)
(* previous frame.  The name, the description, the tier and the list of    *)
(* controls are wording and are left out.                                  *)
(***************************************************************************)
EXTENDS Integers, Sequences

P(id, category, flags, tint, saturation, contrast, posterize, noise, pixelSize, temporal) ==
  [id |-> id, category |-> category, flags |-> flags, tint |-> tint, saturation |-> saturation,
   contrast |-> contrast, posterize |-> posterize, noise |-> noise, pixelSize |-> pixelSize,
   temporal |-> temporal]

kPresets == <<
  P("olive_pocket", "Handheld", {"MONO", "DITHER", "PIXELATE", "TEMPORAL"},
    <<72, 95, 48>>, -100, 15, 4, 3, 3, 18),
  P("silver_pocket", "Handheld", {"MONO", "DITHER", "TEMPORAL"},
    <<90, 98, 110>>, -100, 5, 4, 2, 2, 13),
  P("virtual_red", "Handheld", {"MONO", "SCANLINES", "BLOOM"},
    <<130, 20, 22>>, -100, 38, 3, 3, 2, 0),
  P("dot_matrix_toy", "Handheld", {"MONO", "PIXELATE", "MASK", "TEMPORAL"},
    <<70, 86, 58>>, -100, 20, 3, 2, 5, 28),
  P("calculator_vision", "Handheld", {"MONO", "PIXELATE", "DITHER"},
    <<58, 70, 50>>, -100, 42, 2, 1, 5, 0),
  P("pocket_color", "Handheld", {"DITHER", "PIXELATE", "MASK"},
    <<100, 102, 92>>, -12, 10, 5, 2, 3, 0),
  P("one_bit_desktop", "Computer", {"MONO", "DITHER", "PIXELATE"},
    <<100, 100, 100>>, -100, 55, 2, 0, 2, 0),
  P("cga_shock", "Computer", {"CGA", "PIXELATE", "DITHER"},
    <<100, 100, 100>>, 25, 30, 4, 0, 4, 0),
  P("ega_sixteen", "Computer", {"DITHER", "PIXELATE"},
    <<105, 100, 105>>, 20, 22, 4, 0, 3, 0),
  P("vga_sixteen", "Computer", {"DITHER", "PIXELATE"},
    <<110, 105, 115>>, 42, 20, 4, 1, 2, 0),
  P("amber_terminal", "Computer", {"MONO", "SCANLINES", "BLOOM", "ASCII"},
    <<130, 76, 12>>, -100, 28, 5, 2, 4, 0),
  P("green_terminal", "Computer", {"MONO", "SCANLINES", "TEMPORAL", "BLOOM"},
    <<25, 125, 48>>, -100, 25, 6, 2, 2, 20),
  P("teletext", "Computer", {"CGA", "PIXELATE", "ASCII"},
    <<105, 105, 105>>, 35, 28, 4, 0, 6, 0),
  P("ansi_camera", "Computer", {"ASCII", "PIXELATE", "DITHER"},
    <<108, 104, 100>>, 25, 25, 6, 1, 5, 0),
  P("ascii_mono", "Computer", {"ASCII", "MONO", "PIXELATE"},
    <<105, 96, 76>>, -100, 34, 6, 0, 5, 0),
  P("ascii_color", "Computer", {"ASCII", "PIXELATE"},
    <<105, 105, 105>>, 15, 22, 6, 0, 5, 0),
  P("braille_mosaic", "Computer", {"MONO", "HALFTONE", "PIXELATE"},
    <<92, 104, 82>>, -100, 30, 3, 0, 4, 0),
  P("eight_bit_summer", "Console", {"DITHER", "PIXELATE"},
    <<115, 108, 92>>, 38, 18, 5, 1, 4, 0),
  P("sixteen_bit_arcade", "Console", {"PIXELATE", "EDGE"},
    <<110, 105, 110>>, 42, 25, 6, 0, 2, 0),
  P("arcade_cabinet", "Console", {"PIXELATE", "SCANLINES", "MASK", "VIGNETTE"},
    <<105, 100, 104>>, 18, 24, 7, 1, 3, 0),
  P("composite_console", "Console", {"TEAR", "SCANLINES", "TEMPORAL"},
    <<108, 96, 105>>, 15, 8, 8, 3, 1, 12),
  P("rf_channel_three", "Console", {"TEAR", "JITTER", "TEMPORAL", "SCANLINES"},
    <<98, 98, 98>>, -10, 20, 7, 18, 1, 18),
  P("consumer_crt", "Analog TV", {"SCANLINES", "MASK", "VIGNETTE", "BLOOM"},
    <<105, 100, 103>>, 12, 16, 8, 2, 1, 0),
  P("aperture_grille", "Analog TV", {"SCANLINES", "MASK", "BLOOM"},
    <<106, 102, 105>>, 14, 20, 8, 1, 1, 0),
  P("shadow_mask", "Analog TV", {"MASK", "SCANLINES", "VIGNETTE"},
    <<101, 98, 100>>, 5, 10, 8, 1, 1, 0),
  P("late_night_broadcast", "Analog TV", {"SCANLINES", "VIGNETTE"},
    <<110, 98, 106>>, 35, 32, 8, 7, 1, 0),
  P("ntsc_composite", "Analog TV", {"TEAR", "SCANLINES", "TEMPORAL"},
    <<108, 96, 104>>, 18, 12, 8, 4, 1, 10),
  P("pal_ghost", "Analog TV", {"TEMPORAL", "SCANLINES", "TEAR"},
    <<98, 104, 104>>, 4, 8, 8, 2, 1, 22),
  P("secam_state_tv", "Analog TV", {"TEAR", "SCANLINES", "VIGNETTE"},
    <<102, 98, 92>>, -25, 18, 7, 6, 1, 0),
  P("vhs_rental", "Tape", {"TEAR", "JITTER", "TEMPORAL", "SCANLINES"},
    <<108, 98, 90>>, -8, 12, 8, 10, 1, 18),
  P("damaged_vhs", "Tape", {"TEAR", "JITTER", "TEMPORAL", "SCANLINES"},
    <<102, 92, 90>>, -28, 25, 7, 22, 1, 25),
  P("video8_family", "Tape", {"TEMPORAL", "BLOOM", "VIGNETTE"},
    <<112, 103, 90>>, 8, 5, 8, 7, 1, 13),
  P("hi8_vacation", "Tape", {"JITTER", "SCANLINES", "EDGE"},
    <<112, 108, 96>>, 20, 18, 8, 5, 1, 0),
  P("minidv_2002", "Tape", {"EDGE", "MASK"},
    <<96, 104, 114>>, 5, 30, 8, 3, 2, 0),
  P("early_webcam", "Tape", {"PIXELATE", "TEMPORAL", "MASK"},
    <<105, 96, 110>>, 5, 25, 5, 7, 6, 30),
  P("cctv_1996", "Tape", {"MONO", "SCANLINES", "TEMPORAL"},
    <<100, 103, 98>>, -100, 28, 6, 8, 1, 10),
  P("night_security", "Tape", {"MONO", "SCANLINES", "VIGNETTE", "BLOOM"},
    <<28, 124, 42>>, -100, 22, 6, 20, 1, 0),
  P("super_eight", "Film", {"JITTER", "VIGNETTE", "BLOOM", "TEMPORAL"},
    <<114, 103, 84>>, 8, 12, 8, 12, 1, 9),
  P("sixteen_millimeter_news", "Film", {"MONO", "JITTER", "EDGE", "VIGNETTE"},
    <<104, 100, 86>>, -80, 34, 7, 16, 1, 0),
  P("soviet_archive_1978", "Archive", {"MONO", "JITTER", "TEMPORAL", "VIGNETTE", "TEAR"},
    <<94, 105, 78>>, -75, 24, 6, 18, 1, 22),
  P("state_archive_color", "Archive", {"JITTER", "TEMPORAL", "VIGNETTE"},
    <<108, 101, 88>>, -35, 0, 7, 9, 1, 12),
  P("cosmonaut_tape", "Archive", {"MONO", "TEAR", "SCANLINES", "MASK"},
    <<72, 92, 110>>, -70, 22, 6, 14, 1, 0),
  P("expired_slide", "Film", {"VIGNETTE"},
    <<116, 94, 112>>, -12, -5, 8, 5, 1, 0),
  P("bleach_bypass", "Film", {"EDGE", "VIGNETTE"},
    <<105, 102, 96>>, -65, 42, 8, 9, 1, 0),
  P("cross_process", "Film", {"VIGNETTE"},
    <<104, 112, 88>>, 24, 38, 8, 4, 1, 0),
  P("orthochromatic", "Film", {"MONO", "DITHER", "VIGNETTE"},
    <<72, 110, 96>>, -100, 26, 7, 8, 1, 0),
  P("cyanotype", "Print", {"MONO", "INVERT", "VIGNETTE"},
    <<20, 80, 122>>, -100, 24, 6, 5, 1, 0),
  P("newsprint", "Print", {"MONO", "HALFTONE", "DITHER"},
    <<96, 94, 88>>, -100, 30, 3, 3, 3, 0),
  P("cmyk_misprint", "Print", {"HALFTONE", "TEAR", "DITHER"},
    <<106, 98, 92>>, 18, 18, 5, 4, 2, 0),
  P("risograph", "Print", {"CGA", "HALFTONE", "TEAR"},
    <<108, 92, 96>>, 8, 25, 4, 8, 2, 0),
  P("manga_screen", "Print", {"MONO", "EDGE", "HALFTONE", "INVERT"},
    <<100, 100, 100>>, -100, 44, 3, 2, 2, 0),
  P("photocopier", "Print", {"MONO", "EDGE", "DITHER"},
    <<100, 100, 98>>, -100, 62, 2, 12, 1, 0),
  P("thermal_receipt", "Print", {"MONO", "DITHER", "TEAR"},
    <<96, 92, 82>>, -100, 38, 2, 7, 2, 0),
  P("pencil_draft", "Print", {"MONO", "EDGE", "INVERT", "DITHER"},
    <<100, 100, 100>>, -100, 18, 6, 4, 1, 0),
  P("comic_ink", "Print", {"EDGE", "DITHER"},
    <<108, 103, 98>>, 18, 34, 4, 2, 2, 0),
  P("jpeg_hell", "Digital Decay", {"PIXELATE", "MASK", "TEAR"},
    <<108, 94, 106>>, -12, 36, 4, 10, 8, 0),
  P("databent_preview", "Digital Decay", {"TEAR", "JITTER", "MASK", "TEMPORAL"},
    <<112, 92, 108>>, 22, 25, 6, 8, 4, 35),
  P("frame_echo", "Digital Decay", {"TEMPORAL", "TEAR"},
    <<110, 98, 108>>, 12, 10, 8, 2, 1, 48),
  P("signal_tear", "Digital Decay", {"TEAR", "JITTER"},
    <<110, 96, 108>>, 18, 24, 7, 8, 1, 0),
  P("pixel_sort", "Digital Decay", {"TEAR", "PIXELATE", "EDGE"},
    <<105, 102, 108>>, 20, 30, 6, 2, 3, 0),
  P("piss_filter_2007", "Game Era", {"VIGNETTE", "BLOOM", "EDGE"},
    <<112, 102, 55>>, -28, 34, 8, 6, 1, 0),
  P("brown_apocalypse", "Game Era", {"VIGNETTE", "BLOOM"},
    <<108, 82, 58>>, -48, 42, 7, 9, 1, 0),
  P("teal_orange_blockbuster", "Game Era", {"VIGNETTE"},
    <<112, 101, 96>>, 28, 38, 8, 3, 1, 0),
  P("green_code", "Game Era", {"VIGNETTE"},
    <<78, 112, 82>>, -20, 36, 7, 5, 1, 0),
  P("blue_scifi_2004", "Game Era", {"BLOOM", "VIGNETTE"},
    <<86, 104, 120>>, -8, 32, 8, 4, 1, 0),
  P("bloom_shooter", "Game Era", {"BLOOM", "EDGE", "VIGNETTE"},
    <<112, 108, 102>>, -35, 18, 8, 4, 1, 0),
  P("thermal_false_color", "Experimental", {"THERMAL"},
    <<100, 100, 100>>, 0, 24, 8, 2, 1, 0),
  P("infrared_false_color", "Experimental", {"INVERT", "VIGNETTE"},
    <<72, 120, 105>>, 35, 25, 8, 3, 1, 0),
  P("edge_scanner", "Experimental", {"EDGE", "MONO", "SCANLINES", "INVERT"},
    <<30, 116, 104>>, -100, 45, 5, 3, 1, 0),
  P("blueprint", "Experimental", {"EDGE", "MONO", "INVERT", "MASK"},
    <<25, 78, 120>>, -100, 36, 5, 1, 1, 0)>>

presetCount == Len(kPresets)
Presets == 0..(presetCount - 1)
Category(p) == kPresets[p + 1].category

\* presetAt answers every index.
presetAt(p) == kPresets[IF p < 0 THEN 1 ELSE IF p >= presetCount THEN presetCount ELSE p + 1]
=============================================================================
